---------------------------- MODULE MCSyncEngine ----------------------------
(* Small instances of SyncEngine: the flag sets the runs start from.        *)
EXTENDS SyncEngine

Plain    == NoOptions
Full     == [Plain EXCEPT !.full = TRUE]
Since    == [Plain EXCEPT !.since = 1]

OnlyPlain    == {Plain}
OnlyFull     == {Full}
PlainAndFull == {Plain, Full}

\* plain, --full --no-prune, --max-pages 1, --latest-only, --since
OtherFlags ==
    {Plain, Since,
     [Full EXCEPT !.noPrune = TRUE],
     [Plain EXCEPT !.maxPages = 1],
     [Plain EXCEPT !.latestOnly = TRUE]}
=============================================================================
