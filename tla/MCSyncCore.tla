----------------------------- MODULE MCSyncCore -----------------------------
(* Plain and --full runs: of one process over several rows, and of two      *)
(* overlapping processes over a single row.                                 *)
EXTENDS MCSyncEngine

CONSTANT p2        \* the second process

\* State constraint: the other rows are only created, and the first row is only
\* moved, where the second process has not overlapped the first; the others are
\* never moved by themselves.
PairOverOneRow ==
    /\ (pc[p2] # "idle" \/ "overlap" \in causes) => born = {1} /\ pos[1] = 0
    /\ \A r \in Rows \ {1} : pos[r] = 0
=============================================================================
