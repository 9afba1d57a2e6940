---------------------------- MODULE MCMockSystem ----------------------------
(* MockSystem on small sets; requests, startup tasks and workers are alike.  *)
EXTENDS MockSystem, TLC

Symmetry == Permutations(Requests) \cup Permutations(Tasks) \cup Permutations(Workers)
=============================================================================
