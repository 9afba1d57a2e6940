--------------------------- MODULE MCColabSystem ---------------------------
(* ColabSystem on small sets; requests and startup tasks are alike.         *)
EXTENDS ColabSystem, TLC

Symmetry == Permutations(Requests) \cup Permutations(Tasks)
=============================================================================
