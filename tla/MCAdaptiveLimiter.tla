------------------------- MODULE MCAdaptiveLimiter -------------------------
(* AdaptiveLimiter for TLC: callers are interchangeable.                   *)
EXTENDS AdaptiveLimiter, TLC

Symmetry == Permutations(Callers)
=============================================================================
