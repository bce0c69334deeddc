---------------------------- MODULE DependentSync ----------------------------
(***************************************************************************)
(* The sync of one parent-keyed resource (internal/cli/sync.go,             *)
(* syncDependentResource and syncOneParent): deliveries of webhooks,        *)
(* executions of automations, submissions of forms.                        *)
(*                                                                         *)
(* The parents are read once from the local parent table.  A pool of        *)
(* goroutines takes them from a buffered channel, walks each parent's       *)
(* children page by page, prunes that parent's partition and sends one      *)
(* report; the collector drains every report before it decides on the       *)
(* readiness flag and the result.  The command's context may be cancelled,  *)
(* and the process killed, at any point.                                    *)
(*                                                                         *)
(* A child row is stored under <id, parent> (resourceStorageID), so the     *)
(* mirror is kept per parent.  The children's listing is paged by offset,   *)
(* newest id first, as in SyncEngine; no dependent endpoint has a temporal  *)
(* filter (syncResourceSinceParam), so neither --since nor the watermark    *)
(* narrows a walk, and none resumes at a cursor.                            *)
(***************************************************************************)
EXTENDS Naturals, FiniteSets

CONSTANTS
    Parents,     \* parent identifiers
    Kids,        \* child identifiers
    Workers,     \* goroutines of the pool (--concurrency)
    Limit,       \* page size
    MaxPages,    \* values of --max-pages, 0 for none
    Scoped,      \* children whose body names the parent in the field that
                 \* ReconcilePartition's query reads (GenericScopeJSONPath)
    InitialKids, \* children each parent may have at the start
    Changing,    \* parents whose children change while the model runs
    Faults       \* ways a request or a page may fail

FaultKinds == {"denied", "error", "declared_failure", "non_json", "not_a_list",
               "upsert_error", "typed_failure", "lost_items",
               "reconcile_error", "state_error", "parents_error"}

ASSUME KidsAssumption   == Kids \subseteq Nat \ {0} /\ IsFiniteSet(Kids)
ASSUME PoolAssumption   == IsFiniteSet(Parents) /\ IsFiniteSet(Workers) /\ Workers # {}
ASSUME PagesAssumption  == Limit \in Nat \ {0} /\ MaxPages \subseteq Nat
ASSUME ScopedAssumption == Scoped \subseteq Kids
ASSUME StartAssumption  == InitialKids \subseteq SUBSET Kids
ASSUME ChangingAssumption == Changing \subseteq Parents
ASSUME FaultAssumption  == Faults \subseteq FaultKinds

VARIABLES
    kids,      \* remote: children the API returns for each parent
    born,      \* remote: children created so far
    table,     \* local parent table
    mirror,    \* local child rows of each parent
    attempt,   \* sync_state of the resource: last_attempt_complete
    phase,     \* control point of syncDependentResource
    prune,     \* the run is a --full one without --no-prune
    maxPages,  \* the run's page ceiling
    cancelled, \* the command's context is done
    snapshot,  \* parentRows
    jobs,      \* parents left in the jobs channel
    worker,    \* goroutines of the pool
    reports,   \* reports channel
    drained,   \* reports the collector has read
    result,    \* syncResult of the last run
    fresh,     \* history: children created since the run began
    shrunk     \* history: parents that lost a child since the run began

remoteVars == <<kids, born, fresh, shrunk>>
runVars    == <<prune, maxPages, snapshot>>
poolVars   == <<jobs, worker, reports, drained>>
vars == <<remoteVars, table, mirror, attempt, phase, runVars, cancelled, poolVars, result>>

-----------------------------------------------------------------------------
(* One page of a parent's children.                                         *)
Rank(p, k) == Cardinality({j \in kids[p] : j > k})

PageOf(p, offset) ==
    {k \in kids[p] : offset <= Rank(p, k) /\ Rank(p, k) < offset + Limit}

FullPage(page) == Cardinality(page) >= Limit

\* The mutant counts the rows from one.
NextFromOne(offset) == offset + Limit + 1
NextOffset(offset)  == offset + Limit

Off == [at |-> "gone", parent |-> "none", offset |-> 0, page |-> {}, prev |-> {},
        seen |-> {}, pages |-> 0]

Ready == [Off EXCEPT !.at = "take"]

\* How a parent's walk may end (outcome.reason); rep.complete for the first.
Failures   == {"error", "cancelled", "declared_failure", "upsert_error",
               "typed_failure", "lost_items", "reconcile_error"}
Integrity  == {"declared_failure", "typed_failure", "lost_items"}
Ends       == {"complete", "cap", "stuck", "denied", "non_json", "not_a_list"} \cup Failures

Report == [parent : Parents, end : Ends]

EndedBy(ends) == {r \in drained : r.end \in ends}

\* A page is asked for only when the one before it was full, so never past
\* the end of what the API ever had.
OffsetsInRange ==
    \A w \in Workers : worker[w].parent \in Parents =>
        worker[w].offset <= Cardinality(born[worker[w].parent])

TypeOK ==
    /\ OffsetsInRange
    /\ kids \in [Parents -> SUBSET Kids]
    /\ born \in [Parents -> SUBSET Kids]
    /\ fresh \in [Parents -> SUBSET Kids]
    /\ shrunk \subseteq Parents
    /\ table \subseteq Parents
    /\ mirror \in [Parents -> SUBSET Kids]
    /\ attempt \in {"none", "incomplete", "complete"}
    /\ phase \in {"idle", "start", "marked", "drain"}
    /\ prune \in BOOLEAN /\ cancelled \in BOOLEAN
    /\ maxPages \in MaxPages \cup {0}
    /\ snapshot \subseteq Parents
    /\ jobs \subseteq snapshot
    /\ worker \in [Workers -> [at : {"gone", "take", "fetch", "store", "reconcile"},
                               parent : Parents \cup {"none"}, offset : Nat,
                               page : SUBSET Kids, prev : SUBSET Kids,
                               seen : SUBSET Kids, pages : Nat]]
    /\ reports \subseteq Report /\ drained \subseteq Report
    /\ result \in {"none", "ok", "warn", "error", "integrity"}

Init ==
    /\ born \in [Parents -> InitialKids]
    /\ kids = born
    /\ fresh = [p \in Parents |-> {}]
    /\ shrunk = {}
    /\ table \in SUBSET Parents
    /\ mirror = [p \in Parents |-> {}]
    /\ attempt = "none"
    /\ phase = "idle"
    /\ prune = FALSE /\ maxPages = 0 /\ cancelled = FALSE
    /\ snapshot = {} /\ jobs = {} /\ reports = {} /\ drained = {}
    /\ worker = [w \in Workers |-> Off]
    /\ result = "none"

-----------------------------------------------------------------------------
(* The API's children, and the parent table the flat phase maintains.       *)
AddKid(p, k) ==
    /\ p \in Changing /\ \A j \in born[p] : j < k
    /\ kids' = [kids EXCEPT ![p] = @ \cup {k}]
    /\ born' = [born EXCEPT ![p] = @ \cup {k}]
    /\ fresh' = IF phase = "idle" THEN fresh ELSE [fresh EXCEPT ![p] = @ \cup {k}]
    /\ UNCHANGED <<shrunk, table, mirror, attempt, phase, runVars, cancelled,
                   poolVars, result>>

DropKid(p, k) ==
    /\ p \in Changing /\ k \in kids[p]
    /\ kids' = [kids EXCEPT ![p] = @ \ {k}]
    /\ shrunk' = IF phase = "idle" THEN shrunk ELSE shrunk \cup {p}
    /\ UNCHANGED <<born, fresh, table, mirror, attempt, phase, runVars, cancelled,
                   poolVars, result>>

\* A run reads the table once; a change after that is for the next run.
ParentRows(rows) ==
    /\ phase # "drain"
    /\ table' = rows
    /\ table' # table
    /\ UNCHANGED <<remoteVars, mirror, attempt, phase, runVars, cancelled, poolVars,
                   result>>

-----------------------------------------------------------------------------
(* syncDependentResource.                                                   *)
Begin(full, pages) ==
    /\ phase = "idle"
    /\ prune' = full
    /\ maxPages' = pages
    /\ phase' = "start"
    /\ result' = "none"
    /\ UNCHANGED <<remoteVars, table, mirror, attempt, snapshot, cancelled, poolVars>>

\* The call is over: nothing is left of it but the database and its result.
Return ==
    /\ phase' = "idle"
    /\ prune' = FALSE /\ maxPages' = 0 /\ cancelled' = FALSE
    /\ snapshot' = {} /\ jobs' = {} /\ reports' = {} /\ drained' = {}
    /\ worker' = [w \in Workers |-> Off]
    /\ fresh' = [p \in Parents |-> {}] /\ shrunk' = {}
    /\ UNCHANGED <<kids, born, table, mirror>>

\* SaveSyncProgress before anything else: the attempt is incomplete.
MarkAttempt ==
    /\ phase = "start"
    /\ attempt' = "incomplete"
    /\ phase' = "marked"
    /\ UNCHANGED <<remoteVars, table, mirror, runVars, cancelled, poolVars, result>>

\* An empty parent table ends the call, as a success that leaves sync_state;
\* so does a query of it that fails, for then there are no rows either.
NoParents ==
    /\ phase = "marked"
    /\ table = {} \/ "parents_error" \in Faults
    /\ result' = "ok"
    /\ Return
    /\ UNCHANGED attempt

\* The parents are queued and the channel closed; no more workers than
\* parents are started.
Spawn ==
    /\ phase = "marked" /\ table # {}
    /\ snapshot' = table
    /\ jobs' = table
    /\ \E started \in SUBSET Workers :
          /\ IF Cardinality(table) < Cardinality(Workers)
             THEN Cardinality(started) = Cardinality(table)
             ELSE started = Workers
          /\ worker' = [w \in Workers |-> IF w \in started THEN Ready ELSE Off]
    /\ reports' = {}
    /\ phase' = "drain"
    /\ UNCHANGED <<remoteVars, table, mirror, attempt, prune, maxPages, cancelled,
                   drained, result>>

Drain(r) ==
    /\ phase = "drain" /\ r \in reports
    /\ reports' = reports \ {r}
    /\ drained' = drained \cup {r}
    /\ UNCHANGED <<remoteVars, table, mirror, attempt, phase, runVars, cancelled,
                   jobs, worker, result>>

\* reports is closed once every worker has returned; the mutant counts
\* reports up to the number of parents.
OneReportEach == Cardinality(drained) = Cardinality(snapshot)
Closed == reports = {} /\ \A w \in Workers : worker[w].at = "gone"

Interrupted ==
    \/ Cardinality(drained) < Cardinality(snapshot)
    \/ cancelled /\ EndedBy({"cancelled"}) # {}

\* The mutant trusts a full set of reports.
AllReported == Cardinality(drained) = Cardinality(snapshot)
AllComplete == Cardinality(EndedBy({"complete"})) = Cardinality(snapshot)

\* The mutant looks for failed parents before lost data.
FailedFirst ==
    IF Interrupted \/ EndedBy(Failures) # {} THEN "error" ELSE "warn"

\* What a run that did not cover everything returns.
Shortfall ==
    IF EndedBy(Integrity) # {} THEN "integrity"
    ELSE IF Interrupted \/ Cardinality(EndedBy(Failures)) = Cardinality(snapshot)
         THEN "error" ELSE "warn"

\* After the barrier.  A non-JSON page without a failure leaves sync_state as
\* MarkAttempt wrote it; everything else saves the attempt's outcome.
KeepsState == /\ ~Interrupted
              /\ EndedBy({"non_json"}) # {} /\ EndedBy(Failures) = {}

Conclude ==
    /\ phase = "drain" /\ Closed
    /\ IF ~Interrupted /\ AllComplete
       THEN attempt' = "complete" /\ result' = "ok"
       ELSE /\ result' = Shortfall
            /\ attempt' = IF KeepsState THEN attempt ELSE "incomplete"
    /\ Return

\* sync_state cannot be written, at the start or at the end: an error the run
\* treats as critical (isSyncStatePersistenceError), like lost data.
StateFails ==
    /\ "state_error" \in Faults
    /\ \/ phase = "start"
       \/ phase = "drain" /\ Closed /\ ~KeepsState
    /\ result' = "integrity"
    /\ Return
    /\ UNCHANGED attempt

-----------------------------------------------------------------------------
(* One goroutine of the pool.                                               *)
Goes(w) == worker' = [worker EXCEPT ![w] = Off]

\* A worker that finds the context done returns with the job it took.
Take(w) ==
    /\ worker[w].at = "take"
    /\ IF jobs = {} THEN Goes(w) /\ UNCHANGED jobs
       ELSE \E p \in jobs :
               /\ jobs' = jobs \ {p}
               /\ IF cancelled THEN Goes(w)
                  ELSE worker' = [worker EXCEPT ![w] = [Ready EXCEPT !.at = "fetch",
                                                                     !.parent = p]]
    /\ UNCHANGED <<remoteVars, table, mirror, attempt, phase, runVars, cancelled,
                   reports, drained, result>>

\* syncOneParent returns and the worker sends its report.
Send(w, end) ==
    /\ reports' = reports \cup {[parent |-> worker[w].parent, end |-> end]}
    /\ worker' = [worker EXCEPT ![w] = Ready]

Fetch(w) ==
    LET page == PageOf(worker[w].parent, worker[w].offset)
    IN  /\ worker[w].at = "fetch" /\ ~cancelled
        /\ IF FullPage(page) /\ page = worker[w].prev
           THEN Send(w, "stuck")
           ELSE /\ worker' = [worker EXCEPT ![w] = [@ EXCEPT !.page = page,
                                  !.at = IF page = {} THEN "reconcile" ELSE "store"]]
                /\ UNCHANGED reports
        /\ UNCHANGED <<remoteVars, table, mirror, attempt, phase, runVars, cancelled,
                       jobs, drained, result>>

\* A cancelled context fails the request; so may the API at any time.
FetchFails(w) ==
    /\ worker[w].at = "fetch"
    /\ \/ cancelled /\ Send(w, "cancelled")
       \/ \E end \in Faults \cap {"denied", "error", "declared_failure", "non_json",
                                  "not_a_list"} : Send(w, end)
    /\ UNCHANGED <<remoteVars, table, mirror, attempt, phase, runVars, cancelled,
                   jobs, drained, result>>

\* A page is committed.  The ceiling stops the walk even on its last page;
\* a short page proves the end; a full one continues at the next offset.
StorePage(w) ==
    LET me == worker[w]
        capped == maxPages > 0 /\ me.pages + 1 >= maxPages
        next == [me EXCEPT !.seen = @ \cup me.page, !.pages = @ + 1]
    IN  /\ me.at = "store"
        /\ mirror' = [mirror EXCEPT ![me.parent] = @ \cup me.page]
        /\ IF capped THEN Send(w, "cap")
           ELSE /\ worker' = [worker EXCEPT ![w] =
                       IF FullPage(me.page)
                       THEN [next EXCEPT !.at = "fetch", !.prev = me.page,
                                         !.page = {}, !.offset = NextOffset(@)]
                       ELSE [next EXCEPT !.at = "reconcile"]]
                /\ UNCHANGED reports
        /\ UNCHANGED <<remoteVars, table, attempt, phase, runVars, cancelled, jobs,
                       drained, result>>

\* The batch rolled back, or committed without its typed rows, or lost items
\* that have no resolvable key.
StoreFails(w) ==
    /\ worker[w].at = "store"
    /\ \E end \in Faults \cap {"upsert_error", "typed_failure", "lost_items"} :
          /\ \E rows \in SUBSET worker[w].page :
                /\ end = "upsert_error" => rows = {}
                /\ end = "typed_failure" => rows = worker[w].page
                /\ end = "lost_items" => rows # worker[w].page
                /\ mirror' = [mirror EXCEPT ![worker[w].parent] = @ \cup rows]
          /\ Send(w, end)
    /\ UNCHANGED <<remoteVars, table, attempt, phase, runVars, cancelled, jobs,
                   drained, result>>

\* Rows of the parent's partition the walk did not see; the partition is what
\* the stored bodies say it is.  The mutant sweeps with the last page's rows.
UnseenUnscoped(w) == (mirror[worker[w].parent] \ Scoped) \ worker[w].seen
UnseenOnPage(w) == (mirror[worker[w].parent] \cap Scoped) \ worker[w].page
Unseen(w)       == (mirror[worker[w].parent] \cap Scoped) \ worker[w].seen

Reconcile(w) ==
    /\ worker[w].at = "reconcile"
    /\ mirror' = [mirror EXCEPT ![worker[w].parent] =
                     IF prune THEN @ \ Unseen(w) ELSE @]
    /\ Send(w, "complete")
    /\ UNCHANGED <<remoteVars, table, attempt, phase, runVars, cancelled, jobs,
                   drained, result>>

ReconcileFails(w) ==
    /\ worker[w].at = "reconcile" /\ prune /\ "reconcile_error" \in Faults
    /\ Send(w, "reconcile_error")
    /\ UNCHANGED <<remoteVars, table, mirror, attempt, phase, runVars, cancelled, jobs,
                   drained, result>>

-----------------------------------------------------------------------------
Cancel ==
    /\ phase # "idle" /\ ~cancelled
    /\ cancelled' = TRUE
    /\ UNCHANGED <<remoteVars, table, mirror, attempt, phase, runVars, poolVars, result>>

\* The process is killed: the database keeps what was committed.
Crash ==
    /\ phase # "idle"
    /\ Return
    /\ UNCHANGED <<attempt, result>>

Collector == MarkAttempt \/ NoParents \/ Spawn \/ Conclude \/ StateFails
             \/ \E r \in reports : Drain(r)

Work(w) == \/ Take(w) \/ Fetch(w) \/ FetchFails(w) \/ StorePage(w) \/ StoreFails(w)
           \/ Reconcile(w) \/ ReconcileFails(w)

Outside ==
    \/ \E p \in Parents, k \in Kids : AddKid(p, k) \/ DropKid(p, k)
    \/ \E rows \in SUBSET Parents : ParentRows(rows)

Next ==
    \/ Outside \/ Cancel \/ Crash \/ Collector
    \/ \E full \in BOOLEAN, pages \in MaxPages : Begin(full, pages)
    \/ \E w \in Workers : Work(w)

Spec == Init /\ [][Next]_vars

\* The Go scheduler runs every goroutine; requests return, for the client
\* bounds them in time.
Fairness == WF_vars(Collector) /\ \A w \in Workers : WF_vars(Work(w))

FairSpec == Spec /\ Fairness

-----------------------------------------------------------------------------
(* Properties.                                                              *)

\* The readiness flag is set only by a run that has the children of every
\* parent it read: those there from the beginning, for parents whose listing
\* lost nothing meanwhile.  No order of workers, cancellation or failures
\* leaves a parent out (the aggregation after the drain barrier).
CompleteCovers ==
    [][attempt' = "complete" /\ attempt # "complete" =>
          /\ \A p \in snapshot \ shrunk : kids[p] \ fresh[p] \subseteq mirror[p]
          /\ \A p \in snapshot : \E r \in drained : r.parent = p]_vars

\* A --full run that is complete has mirrored the deletions too, among the
\* rows its partition query can see (ReconcilePartition).
CompleteMirrorsDeletions ==
    [][attempt' = "complete" /\ attempt # "complete" /\ prune =>
          \A p \in snapshot \ shrunk : mirror[p] \cap Scoped \subseteq kids[p]]_vars

\* A partition sweep removes a child the API still returns only when the
\* listing lost one while the parent was walked: offset paging may then step
\* over a row (syncOneParent's seenIDs, ReconcilePartition).
SweepsOnlyGone ==
    [][\A p \in Parents : (mirror[p] \ mirror'[p]) \cap kids[p] # {} => p \in shrunk]_vars

\* A returned run tells the truth: lost data is never reported as less than
\* an integrity failure, also when the run was cancelled, and success over
\* parents means every one of them reported a complete walk.
ResultHonest ==
    [][result' # result /\ result' # "none" =>
          /\ EndedBy(Integrity) # {} => result' = "integrity"
          /\ result' = "ok" => \A p \in snapshot :
                                  [parent |-> p, end |-> "complete"] \in drained]_vars

\* The run returns: cancelled workers do not strand the collector, and no
\* report is sent into a channel nobody reads.
RunReturns == phase # "idle" ~> phase = "idle"
=============================================================================
