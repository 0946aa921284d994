------------------------------ MODULE MCForeign -----------------------------
(***************************************************************************)
(* One node among foreign ones: 2 and 3 are its peers, 4 is a stranger.    *)
(* Each of them dials, hangs up, and sends packets under any address.      *)
(***************************************************************************)
EXTENDS Mesh, TLC

CONSTANTS a1, a2, a3

MCNode == 1..4
MCLocal == {1}
MCIpv4 == {a1, a2, a3}
MCIpv4Addr == 1 :> a1
MCRouteTable == 1 :> ((a2 :> 2) @@ (a3 :> 3))
ToUs(src) == [len |-> 20, byte0 |-> 69, byte2 |-> 0, byte3 |-> 20, ttl |-> 1,
              src_ip |-> src, dest_ip |-> a1]
MCHeader == {ToUs(a2)}
MCEnvAction == [n \in MCLocal |-> CoreAction]
MCEnvEvent == IrohEvent
=============================================================================
