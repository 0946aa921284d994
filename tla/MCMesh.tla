------------------------------- MODULE MCMesh -------------------------------
(***************************************************************************)
(* Two nodes that are each other's only peer.  No packets: this instance   *)
(* is about the connections.                                               *)
(***************************************************************************)
EXTENDS Mesh, TLC

CONSTANTS a1, a2

MCNode == {1, 2}
MCLocal == {1, 2}
MCIpv4 == {a1, a2}
MCIpv4Addr == (1 :> a1) @@ (2 :> a2)
MCRouteTable == (1 :> (a2 :> 2)) @@ (2 :> (a1 :> 1))
MCHeader == {}
MCEnvAction == [n \in MCLocal |-> CoreAction]
MCEnvEvent == IrohEvent
ConnIdSymmetry == Permutations(ConnId)
=============================================================================
