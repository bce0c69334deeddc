----------------------------- MODULE SyncEngine -----------------------------
(***************************************************************************)
(* The sync command's walk of one flat resource (internal/cli/sync.go,     *)
(* newSyncCmd and syncResource) together with the two pieces of SQLite     *)
(* state it maintains (internal/store/store.go): the mirrored rows and the *)
(* sync_state row that holds the resume cursor, the incremental watermark  *)
(* and the readiness flag.                                                 *)
(*                                                                         *)
(* The remote API pages the collection by offset, in the order the request *)
(* declares: newest id first, last modified first, or by display position, *)
(* a key that a change may move either way.  The collection may change     *)
(* between any two requests.  A run may be killed between any two of its   *)
(* steps; its memory is lost, the committed SQLite state is not.  Several  *)
(* processes may run sync on one database.                                 *)
(*                                                                         *)
(* Time is counted in whole seconds, the resolution sync_state stores      *)
(* (RFC3339).  Cursor 0 stands for the empty cursor: an absent offset and  *)
(* offset 0 are the same request.  Watermark 0 stands for the zero time.   *)
(***************************************************************************)
EXTENDS Naturals, FiniteSets

CONSTANTS
    Rows,        \* identifiers of the remote collection, increasing with age
    Procs,       \* operating-system processes running the sync command
    Limit,       \* page size (paginationDefaults.limit)
    Options,     \* flag combinations a run may be started with
    SortBy,      \* key of the declared sort (syncResourceParamDefaults)
    Positions,   \* display positions a row may be given
    InitialRows, \* collections the API may hold at the start
    Deletable,   \* rows the remote side may delete
    Faults,      \* ways a request or a page may fail
    MaxVer,      \* bound: changes of one row
    MaxClock     \* bound: seconds that pass

FaultKinds == {"denied", "error", "declared_failure", "non_json",
               "upsert_error", "lost_items", "reconcile_error"}

OptionRecords == [full : BOOLEAN, noPrune : BOOLEAN, since : 0..MaxClock,
                  maxPages : Nat, latestOnly : BOOLEAN]

ASSUME RowsAssumption    == Rows \subseteq Nat \ {0} /\ IsFiniteSet(Rows)
ASSUME LimitAssumption   == Limit \in Nat \ {0}
ASSUME BoundsAssumption  == MaxVer \in Nat \ {0} /\ MaxClock \in Nat \ {0}
ASSUME OptionsAssumption == Options \subseteq OptionRecords
ASSUME InitialAssumption == InitialRows \subseteq SUBSET Rows
ASSUME DeletableAssumption == Deletable \subseteq Rows
ASSUME SortAssumption    == SortBy \in {"id", "ultima_modifica", "ordinamento"}
ASSUME PositionsAssumption == Positions \subseteq Nat /\ 0 \in Positions
ASSUME FaultsAssumption  == Faults \subseteq FaultKinds

VARIABLES
    ver,      \* remote: version of each row the API returns, 0 for the others
    mod,      \* remote: second of the row's last change
    pos,      \* remote: display position (ordinamento), 0 for the others
    born,     \* remote: rows created so far, those deleted since included
    clock,    \* wall clock, seconds
    local,    \* resources table: stored version of each row, 0 when absent
    st,       \* sync_state: cursor, wm (last_synced_at), attempt
    pc,       \* control point of each process
    opt,      \* flags of each process's run
    walk,     \* local variables of each process's syncResource call
    causes    \* history: why the mirror may lag behind the watermark

remoteVars == <<ver, mod, pos, born>>
vars == <<ver, mod, pos, born, clock, local, st, pc, opt, walk, causes>>

-----------------------------------------------------------------------------
(* The listing endpoint: rows newer than the since filter, in the declared  *)
(* order with id as the tie breaker, cut at offset and limit.               *)

\* -id and -ultima_modifica are descending, ordinamento is ascending.
Before(q, r) ==
    \/ SortBy = "id" /\ q > r
    \/ SortBy = "ultima_modifica" /\ (mod[q] > mod[r] \/ (mod[q] = mod[r] /\ q > r))
    \/ SortBy = "ordinamento" /\ (pos[q] < pos[r] \/ (pos[q] = pos[r] /\ q < r))

live == {r \in Rows : ver[r] # 0}

Window(since) == {r \in live : mod[r] > since}

Rank(since, r) == Cardinality({q \in Window(since) : Before(q, r)})

Listing(since, offset) ==
    {r \in Window(since) : /\ offset <= Rank(since, r)
                           /\ Rank(since, r) < offset + Limit}

NoPage == [r \in Rows |-> 0]

PageOf(since, offset) ==
    [r \in Rows |-> IF r \in Listing(since, offset) THEN ver[r] ELSE 0]

Items(page) == {r \in Rows : page[r] # 0}

-----------------------------------------------------------------------------
NoOptions == [full |-> FALSE, noPrune |-> FALSE, since |-> 0,
              maxPages |-> 0, latestOnly |-> FALSE]

NoWalk == [req |-> 0, since |-> 0, base |-> 0, start |-> 0, cursor |-> 0,
           saved |-> 0, page |-> NoPage, prev |-> NoPage, seen |-> {}, pages |-> 0,
           complete |-> FALSE, capCursor |-> 0, touched |-> {}, passed |-> {},
           shrunk |-> FALSE, alone |-> FALSE]

Points == {"idle", "queued", "read", "fetch", "fetched", "stored",
           "reconcile", "finish"}

Prune(p) == opt[p].full /\ ~opt[p].noPrune

\* latestOnly takes effect only without an explicit --since.
LatestOnly(p) == opt[p].latestOnly /\ opt[p].since = 0
PageCap(p)    == IF LatestOnly(p) THEN 1 ELSE opt[p].maxPages

CapReached(p) == PageCap(p) > 0 /\ walk[p].pages >= PageCap(p)

\* A full page without a cursor of its own is taken to continue at the next
\* offset (the page-int fallback); a short one ends the listing.
FullPage(page) == Cardinality(Items(page)) >= Limit

CapEndsListing(p) == FullPage(walk[p].page) /\ ~CapReached(p)
HasMore(p)        == FullPage(walk[p].page)

NextOffset(p) == walk[p].cursor + Limit

\* The same full page twice running: the listing does not advance.
Stuck(p, page) == FullPage(page) /\ page = walk[p].prev

\* Point reached with the fetched page; the mutant refetches a stuck page.
RetryWhenStuck(p, page) ==
    IF Stuck(p, page) THEN "fetch"
    ELSE IF page = NoPage THEN "reconcile" ELSE "fetched"

AfterFetch(p, page) ==
    IF Stuck(p, page) THEN "finish"
    ELSE IF page = NoPage THEN "reconcile" ELSE "fetched"

\* The local rows once the page's rows are committed (UpsertBatchDetailed).
KeepExisting(page, rows) ==
    [r \in Rows |-> IF r \in rows /\ local[r] = 0 THEN page[r] ELSE local[r]]

Stored(page, rows) == [r \in Rows |-> IF r \in rows THEN page[r] ELSE local[r]]

\* Rows the walk has seen once the current page is stored; the mutant keeps
\* one page's rows only.
SeenOnLastPage(p) == Items(walk[p].page)
SeenSoFar(p)      == walk[p].seen \cup Items(walk[p].page)

\* The incremental watermark of a complete walk: one second before it began
\* (syncWatermarkOverlap).
NoOverlap(p) == walk[p].req
Watermark(p) == walk[p].req - 1

-----------------------------------------------------------------------------
(* sync_state writers (store.go).                                           *)

\* SaveSyncStateAt: progress, watermark and last_attempt_complete = 1.
SaveSyncStateAt(cursor, wm) ==
    st' = [cursor |-> cursor, wm |-> wm, attempt |-> "complete"]

\* SaveSyncProgress: progress only, last_attempt_complete = 0.
StampProgress(cursor) ==
    st' = [cursor |-> cursor, wm |-> clock, attempt |-> "incomplete"]

SaveSyncProgress(cursor) ==
    st' = [st EXCEPT !.cursor = cursor, !.attempt = "incomplete"]

-----------------------------------------------------------------------------
SyncStates == [cursor : Nat, wm : 0..MaxClock,
               attempt : {"none", "incomplete", "complete"}]

Versions == [Rows -> 0..MaxVer]

Walks == [req : 0..MaxClock, since : 0..MaxClock, base : 0..MaxClock,
          start : Nat, cursor : Nat, saved : Nat, page : Versions,
          prev : Versions, seen : SUBSET Rows, pages : Nat,
          complete : BOOLEAN, capCursor : Nat, touched : SUBSET Rows,
          passed : SUBSET Rows, shrunk : BOOLEAN, alone : BOOLEAN]

TypeOK ==
    /\ ver \in Versions
    /\ mod \in [Rows -> 0..MaxClock]
    /\ pos \in [Rows -> Positions]
    /\ live \subseteq born /\ born \subseteq Rows
    /\ clock \in 1..MaxClock
    /\ local \in Versions
    /\ st \in SyncStates
    /\ pc \in [Procs -> Points]
    /\ opt \in [Procs -> OptionRecords]
    /\ walk \in [Procs -> Walks]
    /\ causes \subseteq {"resumed", "narrowed", "shrunk", "reordered", "overlap", "late"}

Init ==
    /\ born \in InitialRows
    /\ ver = [r \in Rows |-> IF r \in born THEN 1 ELSE 0]
    /\ mod = [r \in Rows |-> IF r \in born THEN 1 ELSE 0]
    /\ pos \in [Rows -> Positions] /\ \A r \in Rows \ born : pos[r] = 0
    /\ clock = 1
    /\ local = [r \in Rows |-> 0]
    /\ st = [cursor |-> 0, wm |-> 0, attempt |-> "none"]
    /\ pc = [p \in Procs |-> "idle"]
    /\ opt = [p \in Procs |-> NoOptions]
    /\ walk = [p \in Procs |-> NoWalk]
    /\ causes = {}

-----------------------------------------------------------------------------
(* The remote collection.                                                   *)

\* Rows that the change of r moves r behind, in a listing with that filter:
\* each of them comes one offset forward.
PassedBy(r, since) ==
    {q \in Window(since) : r \in Window(since) /\ Before(r, q) /\ Before(q, r)'}

\* History: the running walks note the row and those it moved behind.
Touch(r) ==
    walk' = [p \in Procs |->
                IF pc[p] \in {"idle", "queued"} THEN walk[p]
                ELSE [walk[p] EXCEPT
                         !.touched = @ \cup {r},
                         !.passed = @ \cup PassedBy(r, walk[p].since)]]

Tick ==
    /\ clock < MaxClock
    /\ clock' = clock + 1
    /\ UNCHANGED <<remoteVars, local, st, pc, opt, walk, causes>>

\* A new row gets the next id, so nothing older can appear later.
Create(r) ==
    /\ r \notin born /\ \A q \in born : q < r
    /\ ver' = [ver EXCEPT ![r] = 1]
    /\ mod' = [mod EXCEPT ![r] = clock]
    /\ \E n \in Positions : pos' = [pos EXCEPT ![r] = n]
    /\ born' = born \cup {r}
    /\ Touch(r)
    /\ UNCHANGED <<clock, local, st, pc, opt, causes>>

Modify(r) ==
    /\ r \in live /\ ver[r] < MaxVer
    /\ ver' = [ver EXCEPT ![r] = @ + 1]
    /\ mod' = [mod EXCEPT ![r] = clock]
    /\ \E n \in Positions : pos' = [pos EXCEPT ![r] = n]
    /\ Touch(r)
    /\ UNCHANGED <<born, clock, local, st, pc, opt, causes>>

\* A remote deletion moves every later row one offset forward.
Delete(r) ==
    /\ r \in live \cap Deletable
    /\ ver' = [ver EXCEPT ![r] = 0]
    /\ mod' = [mod EXCEPT ![r] = 0]
    /\ pos' = [pos EXCEPT ![r] = 0]
    /\ walk' = [p \in Procs |-> IF pc[p] \in {"idle", "queued"} THEN walk[p]
                                ELSE [walk[p] EXCEPT !.shrunk = TRUE]]
    /\ UNCHANGED <<born, clock, local, st, pc, opt, causes>>

-----------------------------------------------------------------------------
(* One run of the sync command.                                             *)

Quiet(p) == \A q \in Procs \ {p} : pc[q] = "idle"

\* RunE up to the worker pool: --full and --latest-only clear sync_state.
\* History: alone, that no other process has been running since.
Begin(p, o) ==
    /\ pc[p] = "idle"
    /\ o \in Options
    /\ o.since < clock
    /\ opt' = [opt EXCEPT ![p] = o]
    /\ walk' = [q \in Procs |->
                   IF q = p THEN [NoWalk EXCEPT !.alone = Quiet(p)]
                   ELSE [walk[q] EXCEPT !.alone = FALSE]]
    /\ pc' = [pc EXCEPT ![p] = "queued"]
    /\ IF o.full \/ (o.latestOnly /\ o.since = 0)
       THEN SaveSyncStateAt(0, 0)
       ELSE UNCHANGED st
    /\ causes' = IF Quiet(p) THEN causes ELSE causes \cup {"overlap"}
    /\ UNCHANGED <<remoteVars, clock, local>>

\* syncResource reads its checkpoint.  An empty table voids cursor and
\* watermark, unless the run is a full one.
ReadState(p) ==
    LET void  == ~opt[p].full /\ local = NoPage
        start == IF void THEN 0 ELSE st.cursor
        last  == IF void \/ opt[p].full THEN 0 ELSE st.wm
        eff   == IF opt[p].since # 0 THEN opt[p].since ELSE last
    IN  /\ pc[p] = "queued"
        /\ walk' = [walk EXCEPT ![p] =
               [@ EXCEPT !.req = clock, !.since = eff,
                         !.base = IF void THEN 0 ELSE st.wm,
                         !.start = start, !.cursor = start, !.saved = st.cursor]]
        /\ pc' = [pc EXCEPT ![p] = "read"]
        /\ UNCHANGED <<remoteVars, clock, local, st, opt, causes>>

\* The attempt is marked incomplete without moving the resume boundary: the
\* cursor written back is the one ReadState found.
MarkAttempt(p) ==
    /\ pc[p] = "read"
    /\ SaveSyncProgress(walk[p].saved)
    /\ pc' = [pc EXCEPT ![p] = "fetch"]
    /\ UNCHANGED <<remoteVars, clock, local, opt, walk, causes>>

\* syncResource returns: nothing but the committed state is left of the run.
Return(p) ==
    /\ pc' = [pc EXCEPT ![p] = "idle"]
    /\ opt' = [opt EXCEPT ![p] = NoOptions]
    /\ walk' = [walk EXCEPT ![p] = NoWalk]

\* A page the walk can use, an empty page (the natural end), or the page
\* before it once more, which aborts the walk as stuck.
Fetch(p) ==
    LET page == PageOf(walk[p].since, walk[p].cursor)
    IN  /\ pc[p] = "fetch"
        /\ walk' = [walk EXCEPT ![p] = [@ EXCEPT !.page = page,
                                                 !.complete = (page = NoPage)]]
        /\ pc' = [pc EXCEPT ![p] = AfterFetch(p, page)]
        /\ UNCHANGED <<remoteVars, clock, local, st, opt, causes>>

\* Access denied, transport or HTTP error, a body that declares failure, a
\* non-JSON body: the walk returns and leaves the state of its last page.
FetchFails(p) ==
    /\ pc[p] = "fetch"
    /\ Faults \cap {"denied", "error", "declared_failure", "non_json"} # {}
    /\ Return(p)
    /\ UNCHANGED <<remoteVars, clock, local, st, causes>>

StorePage(p) ==
    /\ pc[p] = "fetched"
    /\ local' = Stored(walk[p].page, Items(walk[p].page))
    /\ walk' = [walk EXCEPT ![p] = [@ EXCEPT !.seen = SeenSoFar(p),
                                             !.pages = walk[p].pages + 1]]
    /\ pc' = [pc EXCEPT ![p] = "stored"]
    /\ UNCHANGED <<remoteVars, clock, st, opt, causes>>

\* The batch transaction rolled back, or committed only part of the page
\* (unresolvable keys, a failed typed projection): integrity failure.
StoreFails(p) ==
    /\ pc[p] = "fetched"
    /\ \/ "upsert_error" \in Faults /\ UNCHANGED local
       \/ /\ "lost_items" \in Faults
          /\ \E rows \in SUBSET Items(walk[p].page) :
                local' = Stored(walk[p].page, rows)
    /\ Return(p)
    /\ UNCHANGED <<remoteVars, clock, st, causes>>

\* The --max-pages ceiling with a continuation: incomplete, and the cursor
\* of the next page is kept unless --latest-only set the ceiling.
StopAtCap(p) ==
    /\ pc[p] = "stored" /\ CapReached(p) /\ HasMore(p)
    /\ walk' = [walk EXCEPT ![p] =
           [@ EXCEPT !.capCursor = IF LatestOnly(p) THEN 0 ELSE NextOffset(p)]]
    /\ pc' = [pc EXCEPT ![p] = "finish"]
    /\ UNCHANGED <<remoteVars, clock, local, st, opt, causes>>

\* A short page proves the end of an offset listing.
ReachEnd(p) ==
    /\ pc[p] = "stored" /\ ~HasMore(p)
    /\ walk' = [walk EXCEPT ![p] = [@ EXCEPT !.complete = TRUE]]
    /\ pc' = [pc EXCEPT ![p] = "reconcile"]
    /\ UNCHANGED <<remoteVars, clock, local, st, opt, causes>>

NextPage(p) ==
    /\ pc[p] = "stored" /\ HasMore(p) /\ ~CapReached(p)
    /\ SaveSyncProgress(NextOffset(p))
    /\ walk' = [walk EXCEPT ![p] = [@ EXCEPT !.cursor = NextOffset(p),
                                             !.prev = walk[p].page,
                                             !.page = NoPage]]
    /\ pc' = [pc EXCEPT ![p] = "fetch"]
    /\ UNCHANGED <<remoteVars, clock, local, opt, causes>>

\* Deletion mirroring: after a complete walk of a full run, rows it did not
\* see are deleted (ReconcileAll); without --full nothing is.
Reconcile(p) ==
    /\ pc[p] = "reconcile"
    /\ local' = [r \in Rows |->
                    IF Prune(p) /\ r \notin walk[p].seen THEN 0 ELSE local[r]]
    /\ pc' = [pc EXCEPT ![p] = "finish"]
    /\ UNCHANGED <<remoteVars, clock, st, opt, walk, causes>>

\* The reconcile transaction failed: rolled back, and the walk no longer
\* counts as complete.
ReconcileFails(p) ==
    /\ pc[p] = "reconcile" /\ Prune(p) /\ "reconcile_error" \in Faults
    /\ walk' = [walk EXCEPT ![p] = [@ EXCEPT !.complete = FALSE]]
    /\ pc' = [pc EXCEPT ![p] = "finish"]
    /\ UNCHANGED <<remoteVars, clock, local, st, opt, causes>>

\* History only: what a completed walk may have left behind the watermark.
\* A whole clean walk that ran alone covers every row again.
CausesOf(p) ==
    {c \in {"resumed", "narrowed", "shrunk", "reordered"} :
        \/ c = "resumed"   /\ walk[p].start # 0
        \/ c = "narrowed"  /\ walk[p].since > walk[p].base
        \/ c = "shrunk"    /\ walk[p].shrunk
        \/ c = "reordered" /\ ~(walk[p].passed \subseteq walk[p].seen)}

\* A complete walk publishes its watermark and drops the cursor; any other
\* leaves the watermark and keeps at most the capped walk's cursor.
Finish(p) ==
    /\ pc[p] = "finish"
    /\ IF walk[p].complete
       THEN /\ SaveSyncStateAt(0, Watermark(p))
            /\ causes' = IF CausesOf(p) = {} /\ walk[p].since = 0 /\ walk[p].alone
                         THEN {} ELSE causes \cup CausesOf(p)
       ELSE SaveSyncProgress(walk[p].capCursor) /\ UNCHANGED causes
    /\ Return(p)
    /\ UNCHANGED <<remoteVars, clock, local>>

\* SIGKILL, power loss, an interrupt: committed state survives.
Crash(p) ==
    /\ pc[p] # "idle"
    /\ Return(p)
    /\ UNCHANGED <<remoteVars, clock, local, st, causes>>

-----------------------------------------------------------------------------
Remote == Tick \/ \E r \in Rows : Create(r) \/ Modify(r) \/ Delete(r)

Step(p) ==
    \/ ReadState(p) \/ MarkAttempt(p)
    \/ Fetch(p) \/ FetchFails(p) \/ StorePage(p) \/ StoreFails(p)
    \/ StopAtCap(p) \/ ReachEnd(p) \/ NextPage(p)
    \/ Reconcile(p) \/ ReconcileFails(p) \/ Finish(p)

Next ==
    \/ Remote
    \/ \E p \in Procs : Step(p) \/ Crash(p) \/ \E o \in Options : Begin(p, o)

Spec == Init /\ [][Next]_vars

\* The operating system runs a started process; nothing makes a user start
\* one, and no remote change or failure is ever owed.
Fairness == \A p \in Procs : WF_vars(Step(p))

FairSpec == Spec /\ Fairness

-----------------------------------------------------------------------------
(* Properties.                                                              *)

\* Every change the watermark claims (a live row last modified at or before
\* it) is in the local store.  The next incremental request asks only for
\* what is newer than the watermark, so whatever this misses stays missed
\* (syncResource reading last_synced_at, and saving it after the walk).
WatermarkSound ==
    \A r \in live : mod[r] <= st.wm => local[r] = ver[r]

\* Nothing but the recorded causes ever leaves a change behind the watermark: a
\* walk that began at a resume cursor, an explicit --since newer than the
\* watermark it replaced, a remote deletion while the walk was paging, a row
\* never seen that a change moved another row behind meanwhile, two sync
\* processes on one database, or, where lookups write too (MirrorWriters), an
\* answer stored later than a newer one.  A later clean whole walk clears them
\* all.
LagHasACause == causes = {} => WatermarkSound

Removed == {r \in Rows : local[r] # 0 /\ local'[r] = 0}

\* Deletion mirroring removes a row the API still returns only if the row
\* was changed, another row moved behind it, or the listing shrank, while the
\* walk was paging, or the walk was narrowed by --since or began at another
\* process's cursor
\* (syncResource's flat reconcile, reconcileUnseen).
PrunesOnlyGone ==
    [][\A r \in Removed \cap live :
          \E p \in Procs : /\ pc[p] = "reconcile"
                           /\ \/ r \in walk[p].touched \cup walk[p].passed
                              \/ walk[p].shrunk
                              \/ walk[p].since # 0
                              \/ walk[p].start # 0]_vars

\* A full run that meets a quiet API, alone on the database, and completes
\* leaves the store equal to the collection: nothing missing, nothing stale,
\* nothing left over (syncResource under --full, with deletion reconciliation);
\* also when lookups and mutations store answers under it, unless one is late
\* (MirrorWriters).
FullWalkIsExact ==
    [][\A p \in Procs :
          /\ pc[p] = "finish" /\ walk[p].complete /\ pc'[p] = "idle"
          /\ st' # st /\ Prune(p) /\ walk[p].since = 0 /\ walk[p].alone
          /\ walk[p].touched = {} /\ ~walk[p].shrunk
          => local' = ver]_vars

\* Only a completed walk, or a flag that discards it, moves the watermark; a
\* failed, capped, stuck or killed walk leaves it where it was, so a
\* checkpoint never claims pages that were not fetched (SaveSyncProgress
\* against SaveSyncStateAt).
WatermarkMoves ==
    [][st'.wm # st.wm =>
          \/ st' = [cursor |-> 0, wm |-> 0, attempt |-> "complete"]
          \/ \E p \in Procs : walk[p].complete /\ st'.wm < walk[p].req
                              /\ st'.cursor = 0]_vars

\* A run that is started returns, whatever the API answers and however the
\* listing shifts under it: the page loop ends (syncResource's page loop).
RunsReturn == \A p \in Procs : pc[p] # "idle" ~> pc[p] = "idle"

=============================================================================
