--------------------------- MODULE MCRateLimiter ---------------------------
(* RateLimiter with a short window; pool threads are alike.                 *)
EXTENDS RateLimiter, TLC

Symmetry == Permutations(Threads)
=============================================================================
