--------------------------- MODULE MCLearnJournal ---------------------------
(* LearnJournal for TLC: invocations are interchangeable.                  *)
EXTENDS LearnJournal, TLC

Symmetry == Permutations(Procs)
=============================================================================
