------------------------------- MODULE MCIroh -------------------------------
(***************************************************************************)
(* Two managers; the coordinator of the one that dials connects and        *)
(* disconnects as it pleases.                                              *)
(***************************************************************************)
EXTENDS Iroh, TLC

CONSTANTS a1, a2

MCNode == {1, 2}
MCLocal == {1, 2}
MCIpv4 == {a1, a2}
MCIpv4Addr == (1 :> a1) @@ (2 :> a2)
MCRouteTable == (1 :> (a2 :> 2)) @@ (2 :> (a1 :> 1))
MCHeader == {}
MCEnvAction == (1 :> {}) @@ (2 :> {a \in CoreAction : a.peer = 1})
ConnIdSymmetry == Permutations(ConnId)
=============================================================================
