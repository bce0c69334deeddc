-------------------------- MODULE MCMirrorWriters --------------------------
(* Small instance of MirrorWriters: plain and --full runs beside lookups.   *)
EXTENDS MirrorWriters

PlainAndFull == {NoOptions, [NoOptions EXCEPT !.full = TRUE]}

\* State constraint: only the first row is ever moved behind the other.
OnlyFirstMoves == pos[2] = 0
=============================================================================
