------------------------------ MODULE MCTraffic -----------------------------
(***************************************************************************)
(* The two nodes of MCMesh with packets from 2 to 1.                       *)
(***************************************************************************)
EXTENDS MCMesh

TrafficHeader == {[len |-> 20, byte0 |-> 69, byte2 |-> 0, byte3 |-> 20, ttl |-> 1,
                   src_ip |-> a2, dest_ip |-> a1]}
=============================================================================
