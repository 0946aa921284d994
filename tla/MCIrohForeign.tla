--------------------------- MODULE MCIrohForeign ---------------------------
(***************************************************************************)
(* One manager, node 2, and a foreign peer that it dials.  The peer dials, *)
(* too, against the order of the keys, dials again while connected, and    *)
(* hangs up.  The coordinator sends packets and disconnects.               *)
(***************************************************************************)
EXTENDS Iroh, TLC

CONSTANTS a1, a2

MCNode == {1, 2}
MCLocal == {2}
MCIpv4 == {a1, a2}
MCIpv4Addr == 2 :> a2
MCRouteTable == 2 :> (a1 :> 1)
MCHeader == {[len |-> 20, byte0 |-> 69, byte2 |-> 0, byte3 |-> 20, ttl |-> 1,
              src_ip |-> a1, dest_ip |-> a2]}
MCEnvAction == 2 :> ([type : {"DisconnectFromPeer"}, peer : {1}]
                     \cup [type : {"SendPacketTo"}, peer : {1},
                           packet : {p \in Packet : p.origin = 2}])
=============================================================================
