-------------------------- MODULE MCWorkerManager --------------------------
(* WorkerManager on small sets; requests and startup tasks are alike.       *)
EXTENDS WorkerManager, TLC

Symmetry == Permutations(Requests) \cup Permutations(Tasks)
=============================================================================
