---------------------------- MODULE MCGenConfigs ----------------------------
(***************************************************************************)
(* Up to three nodes; keys enough for a run that dies and one that ends.   *)
(***************************************************************************)
EXTENDS GenConfigs, TLC

MCSite == 1..3
KeySymmetry == Permutations(SecretKey)
=============================================================================
