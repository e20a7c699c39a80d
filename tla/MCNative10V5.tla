---------------------------- MODULE MCNative10V5 ----------------------------
(* A small instance of Native10V5; nodes, jobs and deltas are alike.       *)
EXTENDS Native10V5, TLC

MCSymmetry == Permutations(Nodes) \cup Permutations(Jobs) \cup Permutations(Deltas)
=============================================================================
