----------------------------- MODULE SyncArchive -----------------------------
(***************************************************************************)
(* `workflow archive` (internal/cli/channel_workflow.go): the other command *)
(* that drives syncResource.  It walks like sync, never prunes, and clears  *)
(* the checkpoint of a --full run in its own way, through SaveSyncState,    *)
(* which stamps the watermark with the current time.                       *)
(*                                                                         *)
(* A plain archive is a plain sync with a page ceiling (SyncEngine's Begin  *)
(* with Options); only `archive --full` is new here.                       *)
(***************************************************************************)
EXTENDS SyncEngine

CONSTANT ArchivePages    \* values of --max-pages an archive is started with

\* The command runs on until its page loop, like sync; every resource's state
\* is cleared before the first one is walked.
BeginArchive(p, pages) ==
    /\ pc[p] = "idle"
    /\ opt' = [opt EXCEPT ![p] = [NoOptions EXCEPT !.full = TRUE, !.noPrune = TRUE,
                                                   !.maxPages = pages]]
    /\ walk' = [q \in Procs |->
                   IF q = p THEN [NoWalk EXCEPT !.alone = Quiet(p)]
                   ELSE [walk[q] EXCEPT !.alone = FALSE]]
    /\ pc' = [pc EXCEPT ![p] = "queued"]
    /\ SaveSyncStateAt(0, clock)
    /\ causes' = IF Quiet(p) THEN causes ELSE causes \cup {"overlap"}
    /\ UNCHANGED <<remoteVars, clock, local>>

ArchiveNext ==
    \/ Next
    \/ \E p \in Procs : \E pages \in ArchivePages : BeginArchive(p, pages)

ArchiveSpec == Init /\ [][ArchiveNext]_vars

\* Between runs a mirror that holds rows and is called complete is behind its
\* watermark only for a recorded cause: the checkpoint a killed or failed
\* archive leaves behind must not claim changes nobody fetched, for the next
\* run asks only for what is newer and then calls the mirror complete
\* (newWorkflowArchiveCmd clearing sync_state, syncResource reading it).
ArchiveLeavesNoGap ==
    /\ \A p \in Procs : pc[p] = "idle"
    /\ local # NoPage
    /\ st.attempt = "complete"
    => LagHasACause

=============================================================================
