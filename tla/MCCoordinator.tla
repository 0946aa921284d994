--------------------------- MODULE MCCoordinator ----------------------------
(***************************************************************************)
(* One node, 2, whose only peer is 1; the environment also reports 3, a    *)
(* stranger, as connected.                                                 *)
(***************************************************************************)
EXTENDS Coordinator

CONSTANTS a1, a2, a3

MCNode == {1, 2, 3}
MCLocal == {2}
MCIpv4 == {a1, a2, a3}
MCIpv4Addr == [n \in MCLocal |-> a2]
MCRouteTable == [n \in MCLocal |-> [a \in {a1} |-> 1]]

Valid(src, dest) == [len |-> 20, byte0 |-> 69, byte2 |-> 0, byte3 |-> 20, ttl |-> 1,
                     src_ip |-> src, dest_ip |-> dest]

\* A packet for the peer, one from the peer, and one to an unknown address.
MCHeader == {Valid(a2, a1), Valid(a1, a2), Valid(a2, a3)}

MCEnvEvent ==
    [type : {"ConnectedToPeer"}, peer : {1, 3}]
    \cup [type : {"DisconnectedFromPeer"}, peer : {1}]
    \cup [type : {"RecvPacketFrom"}, peer : {1},
          packet : [hdr : {Valid(a1, a2)}, origin : {1}, seq : {0, 1}]
                   \cup [hdr : {Valid(a2, a1)}, origin : {1}, seq : {0}]]
=============================================================================
