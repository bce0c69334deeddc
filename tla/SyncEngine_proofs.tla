--------------------------- MODULE SyncEngine_proofs ---------------------------
(***************************************************************************)
(* Proofs about SyncEngine, for every collection, page size, set of        *)
(* processes, option set and fault set:                                    *)
(*   SyncTyped        the state keeps its shape;                           *)
(*   WatermarkGuarded nothing but a completed walk moves the watermark;    *)
(*   PruneExplained   deletion mirroring removes a live row only in the    *)
(*                    recorded circumstances;                              *)
(*   LagExplained     the mirror is behind its watermark only for one of   *)
(*                    the recorded causes;                                 *)
(*   FullWalkExact    a quiet full run leaves the mirror equal to the API; *)
(*   GoesBackExplained                                                     *)
(*                    a row goes back only under a watermark that has it   *)
(*                    fetched again, or by a late answer.                  *)
(* The inductive invariants are SyncInv, of one walk, and LagInv, of the   *)
(* process that has been running alone: what it has seen is in the store,  *)
(* and the watermark is the one it found.  They rest on the order of the   *)
(* listing: a page that is not the last one is full, and while nothing is  *)
(* deleted an untouched row moves towards the head only when a changed row *)
(* moves behind it, which the walk notes.  They hold of every order the    *)
(* listing may be declared in.  ExactInv adds that a lone full run starts  *)
(* at the first offset and that nothing but what it saw is stored once it  *)
(* has pruned; VersionInv that neither the store nor a page is ahead of    *)
(* the API.                                                                *)
(* The Mirror theorems carry the results over to MirrorSpec, where lookups *)
(* and mutations write the same rows: by MirrorTypeOK an answer is at most *)
(* the row's present version, and storing one older than that is recorded  *)
(* as "late".  GoesBackExplained is about MirrorSpec.                      *)
(***************************************************************************)
EXTENDS MirrorWriters, FiniteSetTheorems, FunctionTheorems, TLAPS

-----------------------------------------------------------------------------
(* The offset-paged listing: its order is strict and total, ranks have no   *)
(* gaps, and a page that is not the last one is full.                       *)

\* The rows listed before r; Rank counts them.
Ahead(s, r) == {q \in Window(s) : Before(q, r)}

\* Before is a strict total order on the rows.
LEMMA OrderStrict ==
    ASSUME TypeOK, NEW q \in Rows, NEW r \in Rows, NEW t \in Rows
    PROVE  /\ ~Before(r, r)
           /\ q # r => Before(q, r) \/ Before(r, q)
           /\ Before(q, r) /\ Before(r, t) => Before(q, t)
<1>1. q \in Nat /\ r \in Nat /\ t \in Nat
  BY RowsAssumption
<1>2. mod[q] \in Nat /\ mod[r] \in Nat /\ mod[t] \in Nat
  BY BoundsAssumption DEF TypeOK
<1>3. pos[q] \in Nat /\ pos[r] \in Nat /\ pos[t] \in Nat
  BY PositionsAssumption DEF TypeOK
<1>4. CASE SortBy = "id"
  BY <1>1, <1>4 DEF Before
<1>5. CASE SortBy = "ultima_modifica"
  BY <1>1, <1>2, <1>5 DEF Before
<1>6. CASE SortBy = "ordinamento"
  BY <1>1, <1>3, <1>6 DEF Before
<1> QED BY <1>4, <1>5, <1>6, SortAssumption

\* Ranks are natural numbers, those of finite sets.
LEMMA RankType ==
    ASSUME NEW s, NEW r
    PROVE  /\ IsFiniteSet(Ahead(s, r))
           /\ Rank(s, r) = Cardinality(Ahead(s, r))
           /\ Rank(s, r) \in Nat
<1>1. Ahead(s, r) \in SUBSET Rows
  BY DEF Ahead, Window, live
<1>2. IsFiniteSet(Ahead(s, r))
  BY <1>1, FS_Subset, RowsAssumption
<1> QED BY <1>2, FS_CardinalityType DEF Rank, Ahead

\* A row listed before another has a smaller rank.
LEMMA RankStrict ==
    ASSUME TypeOK, NEW s, NEW q \in Window(s), NEW r \in Rows, Before(q, r)
    PROVE  Rank(s, q) < Rank(s, r)
<1>1. q \in Rows /\ Window(s) \subseteq Rows
  BY DEF Window, live
<1>2. Ahead(s, q) \in SUBSET Ahead(s, r)
  BY <1>1, OrderStrict DEF Ahead
<1>3. q \in Ahead(s, r) /\ q \notin Ahead(s, q)
  BY <1>1, OrderStrict DEF Ahead
<1>4. IsFiniteSet(Ahead(s, r))
  BY RankType
<1>5. /\ Cardinality(Ahead(s, q)) <= Cardinality(Ahead(s, r))
      /\ Cardinality(Ahead(s, q)) # Cardinality(Ahead(s, r))
  BY <1>2, <1>3, <1>4, FS_Subset
<1> QED BY <1>5, RankType

\* There are no gaps below a row's rank.
LEMMA RanksFilled ==
    ASSUME TypeOK, NEW s, NEW r \in Rows, NEW n \in 0 .. Rank(s, r) - 1
    PROVE  \E q \in Window(s) : Rank(s, q) = n
<1> DEFINE k == Rank(s, r)
           f == [q \in Ahead(s, r) |-> Rank(s, q)]
<1>1. k \in Nat /\ IsFiniteSet(Ahead(s, r)) /\ Cardinality(Ahead(s, r)) = k
  BY RankType
<1>2. Ahead(s, r) \subseteq Window(s) /\ Window(s) \subseteq Rows
  BY DEF Ahead, Window, live
<1>3. f \in [Ahead(s, r) -> 0 .. k - 1]
  <2> SUFFICES ASSUME NEW q \in Ahead(s, r) PROVE Rank(s, q) \in 0 .. k - 1
    OBVIOUS
  <2>1. Rank(s, q) < k
    BY <1>2, RankStrict DEF Ahead
  <2> QED BY <2>1, <1>1, RankType
<1>4. \A a, b \in Ahead(s, r) : f[a] = f[b] => a = b
  <2> SUFFICES ASSUME NEW a \in Ahead(s, r), NEW b \in Ahead(s, r), a # b
               PROVE  Rank(s, a) # Rank(s, b)
    OBVIOUS
  <2>1. Before(a, b) \/ Before(b, a)
    BY <1>2, OrderStrict
  <2>2. Rank(s, a) < Rank(s, b) \/ Rank(s, b) < Rank(s, a)
    BY <2>1, <1>2, RankStrict
  <2> QED BY <2>2, RankType
<1>5. f \in Injection(Ahead(s, r), 0 .. k - 1)
  BY <1>3, <1>4, Fun_IsInj
<1>6. IsFiniteSet(0 .. k - 1) /\ Cardinality(0 .. k - 1) = k
  BY <1>1, FS_Interval
<1>7. f \in Surjection(Ahead(s, r), 0 .. k - 1)
  BY <1>1, <1>5, <1>6, FS_Injection
<1>8. \E q \in Ahead(s, r) : f[q] = n
  <2>1. n \in 0 .. k - 1
    OBVIOUS
  <2> HIDE DEF f, k
  <2>2. \A m \in 0 .. k - 1 : \E q \in Ahead(s, r) : f[q] = m
    BY <1>7 DEF Surjection
  <2> QED BY <2>1, <2>2
<1> QED BY <1>8, <1>2

\* If a row lies beyond a page, the page is full.
LEMMA FullListing ==
    ASSUME TypeOK, NEW s, NEW off \in Nat, NEW r \in Rows,
           off + Limit <= Rank(s, r)
    PROVE  Cardinality(Listing(s, off)) >= Limit
<1> DEFINE L == Listing(s, off)
           T == off .. off + Limit - 1
           g == [q \in L |-> Rank(s, q)]
<1>1. Limit \in Nat /\ Limit >= 1 /\ Rank(s, r) \in Nat
  BY LimitAssumption, RankType
<1>2. L \in SUBSET Rows
  BY DEF Listing, Window, live
<1>3. IsFiniteSet(L) /\ Cardinality(L) \in Nat
  BY <1>2, FS_Subset, FS_CardinalityType, RowsAssumption
<1>4. g \in [L -> T]
  BY <1>1, RankType DEF Listing
<1>5. \A n \in T : \E q \in L : g[q] = n
  <2> SUFFICES ASSUME NEW n \in T PROVE \E q \in L : g[q] = n
    OBVIOUS
  <2>1. n \in 0 .. Rank(s, r) - 1
    BY <1>1
  <2>2. PICK q \in Window(s) : Rank(s, q) = n
    BY <2>1, RanksFilled
  <2>3. q \in L
    BY <2>2, <1>1 DEF Listing
  <2> QED BY <2>2, <2>3
<1>6. g \in Surjection(L, T)
  BY <1>4, <1>5, Fun_IsSurj
<1>7. Cardinality(T) <= Cardinality(L)
  BY <1>3, <1>6, FS_Surjection
<1>8. Cardinality(T) = Limit
  BY <1>1, FS_Interval
<1> QED BY <1>3, <1>7, <1>8

\* What a page holds is the listing at its offset.
LEMMA PageItems ==
    ASSUME TypeOK, NEW s, NEW off
    PROVE  Items(PageOf(s, off)) = Listing(s, off)
  BY DEF Items, PageOf, Listing, Window, live

-----------------------------------------------------------------------------
(* The inductive invariants.                                                *)

Active(p) == pc[p] \notin {"idle", "queued"}

\* Times never run ahead of the clock, and the watermark stays behind it.
TimeInv ==
    /\ st.wm < clock
    /\ \A r \in live : 1 <= mod[r] /\ mod[r] <= clock
    /\ \A p \in Procs : Active(p) => 1 <= walk[p].req /\ walk[p].req <= clock

\* A walk starts from nothing.
QueuedInv(p) ==
    pc[p] = "queued" =>
        /\ walk[p].touched = {} /\ walk[p].passed = {}
        /\ walk[p].seen = {} /\ walk[p].page = NoPage
        /\ ~walk[p].shrunk /\ ~walk[p].complete

\* What changed during the walk changed no earlier than the walk began.
TouchedInv(p) ==
    Active(p) => \A r \in live \cap walk[p].touched : walk[p].req <= mod[r]

\* Only a changed row moves behind others.
PassedInv(p) ==
    Active(p) /\ walk[p].touched = {} => walk[p].passed = {}

\* What the walk holds of an untouched row is its present version.
PageInv(p) ==
    Active(p) => \A r \in live \ walk[p].touched :
                    walk[p].page[r] # 0 => walk[p].page[r] = ver[r]

\* A walk is complete only once its listing has ended.
CompleteInv(p) ==
    pc[p] \in {"read", "fetch", "fetched", "stored"} => ~walk[p].complete

\* r lies beyond the current page, which is then not the last one.
Beyond(p, r) ==
    /\ walk[p].cursor + Limit <= Rank(walk[p].since, r)
    /\ FullPage(walk[p].page)

\* Where an untouched row of the window can be at each point of the walk.
Reached(p, r) ==
    /\ pc[p] \in {"read", "fetch"} =>
          r \in walk[p].seen \/ walk[p].cursor <= Rank(walk[p].since, r)
    /\ pc[p] = "fetched" =>
          r \in walk[p].seen \cup Items(walk[p].page) \/ Beyond(p, r)
    /\ pc[p] = "stored" => r \in walk[p].seen \/ Beyond(p, r)
    /\ pc[p] = "reconcile" => r \in walk[p].seen
    /\ pc[p] = "finish" /\ walk[p].complete => r \in walk[p].seen

\* Rows of the window that were not changed, nor moved up by a change of
\* another, since the walk began.
Settled(p) == Window(walk[p].since) \ (walk[p].touched \cup walk[p].passed)

\* A walk from the first offset during which nothing is deleted misses none of
\* them.
CoverInv(p) ==
    Active(p) /\ walk[p].start = 0 /\ ~walk[p].shrunk =>
        \A r \in Settled(p) : Reached(p, r)

WalkInv(p) ==
    /\ QueuedInv(p) /\ TouchedInv(p) /\ PassedInv(p) /\ PageInv(p)
    /\ CompleteInv(p) /\ CoverInv(p)

\* While a process is alone, nobody undoes what it has stored, and the
\* watermark is the one it found; a full run has cleared it.
SeenInv(p) ==
    Active(p) /\ walk[p].alone =>
        \A r \in (walk[p].seen \cap live) \ walk[p].touched : local[r] = ver[r]

LoneInv(p) ==
    walk[p].alone =>
        /\ pc[p] # "idle" /\ Quiet(p)
        /\ Active(p) => st.wm < walk[p].req /\ walk[p].base \in {0, st.wm}
        /\ opt[p].full => st.wm = 0

\* Without a recorded overlap every running process is alone.
AloneInv == causes = {} => \A p \in Procs : pc[p] # "idle" => walk[p].alone

SyncInv ==
    /\ TypeOK /\ TimeInv
    /\ \A p \in Procs : WalkInv(p)

LagInv ==
    /\ \A p \in Procs : SeenInv(p) /\ LoneInv(p)
    /\ AloneInv /\ LagHasACause

-----------------------------------------------------------------------------
(* Typing.                                                                  *)

LEMMA PageType ==
    ASSUME TypeOK, NEW s, NEW off
    PROVE  PageOf(s, off) \in Versions /\ NoPage \in Versions
  BY BoundsAssumption DEF TypeOK, PageOf, NoPage, Versions

LEMMA NoWalkType ==
    /\ NoOptions \in OptionRecords
    /\ NoWalk \in Walks
<1>1. 0 \in 0..MaxClock /\ NoPage \in Versions
  BY BoundsAssumption DEF NoPage, Versions
<1>2. NoOptions \in OptionRecords
  BY <1>1 DEF NoOptions, OptionRecords
<1> QED BY <1>1, <1>2 DEF NoWalk, Walks

\* The changes the actions make to one walk keep it a walk.
LEMMA HistoryUpdates ==
    ASSUME NEW w \in Walks, NEW r \in Rows, NEW S \in SUBSET Rows
    PROVE  /\ [w EXCEPT !.touched = @ \cup {r}, !.passed = @ \cup S] \in Walks
           /\ [w EXCEPT !.shrunk = TRUE] \in Walks
<1>1. [w EXCEPT !.touched = @ \cup {r}, !.passed = @ \cup S] \in Walks
  BY DEF Walks
<1>2. [w EXCEPT !.shrunk = TRUE] \in Walks
  BY DEF Walks
<1> QED BY <1>1, <1>2

LEMMA CapUpdate ==
    ASSUME NEW w \in Walks, NEW n \in Nat
    PROVE  [w EXCEPT !.capCursor = n] \in Walks
  BY DEF Walks

LEMMA PageUpdate ==
    ASSUME NEW w \in Walks, NEW b \in BOOLEAN, NEW page \in Versions
    PROVE  [w EXCEPT !.page = page, !.complete = b] \in Walks
  BY DEF Walks

LEMMA SeenUpdate ==
    ASSUME NEW w \in Walks, NEW S \in SUBSET Rows, NEW k \in Nat
    PROVE  [w EXCEPT !.seen = S, !.pages = k] \in Walks
  BY DEF Walks

LEMMA WalkAt ==
    ASSUME NEW f \in [Procs -> Walks], NEW p \in Procs, NEW w \in Walks
    PROVE  [f EXCEPT ![p] = w] \in [Procs -> Walks]
  OBVIOUS

LEMMA CursorUpdate ==
    ASSUME NEW w \in Walks, NEW n \in Nat, NEW q \in Versions,
           NEW page \in Versions
    PROVE  [w EXCEPT !.cursor = n, !.prev = q, !.page = page] \in Walks
  BY DEF Walks

LEMMA ReadUpdate ==
    ASSUME NEW w \in Walks, NEW c \in 0..MaxClock, NEW d \in 0..MaxClock,
           NEW e \in 0..MaxClock, NEW n \in Nat, NEW k \in Nat
    PROVE  [w EXCEPT !.req = c, !.since = d, !.base = e, !.start = n,
                     !.cursor = n, !.saved = k] \in Walks
  BY DEF Walks

LEMMA InitType == Init => TypeOK
<1> SUFFICES ASSUME Init PROVE TypeOK
  OBVIOUS
<1>1. ver \in Versions /\ mod \in [Rows -> 0..MaxClock] /\ local \in Versions
  BY BoundsAssumption DEF Init, Versions
<1>2. live \subseteq born /\ born \subseteq Rows
  BY InitialAssumption DEF Init, live
<1>3. st \in SyncStates /\ pc \in [Procs -> Points] /\ clock \in 1..MaxClock
  BY BoundsAssumption DEF Init, SyncStates, Points
<1>4. opt \in [Procs -> OptionRecords] /\ walk \in [Procs -> Walks]
  BY NoWalkType DEF Init
<1>5. pos \in [Rows -> Positions]
  BY DEF Init
<1> QED BY <1>1, <1>2, <1>3, <1>4, <1>5 DEF Init, TypeOK

\* The parts of the state a step of p's own leaves alone are typed; each
\* action owes the rest.
OwnStep(p) ==
    UNCHANGED <<ver, mod, pos, born, clock>>

LEMMA OwnStepType ==
    ASSUME TypeOK, NEW p \in Procs, OwnStep(p),
           local' \in Versions, st' \in SyncStates,
           pc' \in [Procs -> Points], opt' \in [Procs -> OptionRecords],
           walk' \in [Procs -> Walks],
           causes' \subseteq {"resumed", "narrowed", "shrunk", "reordered", "overlap", "late"}
    PROVE  TypeOK'
  BY DEF TypeOK, OwnStep, live

LEMMA ReturnType ==
    ASSUME TypeOK, NEW p \in Procs, Return(p)
    PROVE  /\ pc' \in [Procs -> Points] /\ opt' \in [Procs -> OptionRecords]
           /\ walk' \in [Procs -> Walks]
  BY NoWalkType DEF TypeOK, Return, Points

LEMMA ProgressType ==
    ASSUME TypeOK, NEW n \in Nat, SaveSyncProgress(n)
    PROVE  st' \in SyncStates
  BY DEF TypeOK, SaveSyncProgress, SyncStates

LEMMA StateAtType ==
    ASSUME NEW n \in Nat, NEW w \in 0..MaxClock, SaveSyncStateAt(n, w)
    PROVE  st' \in SyncStates
  BY DEF SaveSyncStateAt, SyncStates

\* The walk's step keeps its type, one action of one process at a time.
LEMMA TypeStep == TypeOK /\ TimeInv /\ [Next]_vars => TypeOK'
<1> SUFFICES ASSUME TypeOK, TimeInv, [Next]_vars PROVE TypeOK'
  OBVIOUS
<1>a. \A p \in Procs : /\ walk[p] \in Walks /\ walk[p].cursor \in Nat
                       /\ walk[p].capCursor \in Nat /\ walk[p].saved \in Nat
                       /\ walk[p].seen \in SUBSET Rows
                       /\ walk[p].page \in Versions
                       /\ opt[p] \in OptionRecords /\ pc[p] \in Points
  BY DEF TypeOK, Walks
<1>b. walk \in [Procs -> Walks] /\ pc \in [Procs -> Points]
      /\ opt \in [Procs -> OptionRecords] /\ st \in SyncStates
      /\ local \in Versions /\ st.cursor \in Nat /\ st.wm \in 0..MaxClock
      /\ causes \subseteq {"resumed", "narrowed", "shrunk", "reordered", "overlap", "late"}
      /\ clock \in 0..MaxClock
  BY DEF TypeOK, SyncStates
<1>c. Limit \in Nat /\ 0 \in 0..MaxClock /\ 0 \in Nat
  BY LimitAssumption, BoundsAssumption
<1>1. ASSUME Tick PROVE TypeOK'
  BY <1>1, BoundsAssumption DEF Tick, TypeOK, remoteVars, live
<1>2. ASSUME NEW r \in Rows, walk' \in [Procs -> Walks],
             Create(r) \/ Modify(r) \/ Delete(r)
      PROVE  TypeOK'
  <2>1. ver' \in Versions
    BY <1>2, BoundsAssumption DEF Create, Modify, Delete, TypeOK, Versions, live
  <2>2. mod' \in [Rows -> 0..MaxClock]
    BY <1>2, <1>b, <1>c DEF Create, Modify, Delete, TypeOK
  <2>3. live' \subseteq born' /\ born' \subseteq Rows
    BY <1>2 DEF Create, Modify, Delete, TypeOK, Versions, live
  <2>4. pos' \in [Rows -> Positions]
    BY <1>2, PositionsAssumption DEF Create, Modify, Delete, TypeOK
  <2> QED BY <1>2, <2>1, <2>2, <2>3, <2>4 DEF Create, Modify, Delete, TypeOK
<1>3. ASSUME NEW r \in Rows, Create(r) \/ Modify(r) \/ Delete(r)
      PROVE  walk' \in [Procs -> Walks]
  <2>0. \A q \in Procs : PassedBy(r, walk[q].since) \in SUBSET Rows
    BY DEF PassedBy, Window, live
  <2>1. \A q \in Procs :
           /\ [walk[q] EXCEPT !.touched = @ \cup {r},
                               !.passed = @ \cup PassedBy(r, walk[q].since)] \in Walks
           /\ [walk[q] EXCEPT !.shrunk = TRUE] \in Walks
    BY <1>a, <2>0, HistoryUpdates
  <2>2. CASE Touch(r)
    BY <2>1, <2>2, <1>a DEF Touch
  <2>3. CASE Delete(r)
    BY <2>1, <2>3, <1>a DEF Delete
  <2> QED BY <1>3, <2>2, <2>3 DEF Create, Modify
<1>5. ASSUME NEW p \in Procs, NEW o \in Options, Begin(p, o) PROVE TypeOK'
  <2>1. walk' \in [Procs -> Walks]
    <3>1. Quiet(p) \in BOOLEAN
      BY DEF Quiet
    <3>2. [NoWalk EXCEPT !.alone = Quiet(p)] \in Walks
      BY <3>1, NoWalkType DEF Walks
    <3>3. \A q \in Procs : [walk[q] EXCEPT !.alone = FALSE] \in Walks
      BY <1>a DEF Walks
    <3>4. walk' = [q \in Procs |-> IF q = p THEN [NoWalk EXCEPT !.alone = Quiet(p)]
                                   ELSE [walk[q] EXCEPT !.alone = FALSE]]
      BY <1>5 DEF Begin
    <3> QED BY <3>2, <3>3, <3>4
  <2>2. st' \in SyncStates
    BY <1>5, <1>b, <1>c, StateAtType DEF Begin
  <2>3. pc' \in [Procs -> Points] /\ opt' \in [Procs -> OptionRecords]
    BY <1>5, <1>b, OptionsAssumption DEF Begin, Points
  <2> QED BY <1>5, <1>b, <2>1, <2>2, <2>3, OwnStepType
          DEF Begin, OwnStep, remoteVars
<1>6. ASSUME NEW p \in Procs, ReadState(p) PROVE TypeOK'
  <2>1. opt[p].since \in 0..MaxClock
    BY <1>a DEF OptionRecords
  <2>2. walk' \in [Procs -> Walks]
    <3>1. PICK d \in 0..MaxClock, e \in 0..MaxClock, n \in Nat :
             walk' = [walk EXCEPT ![p] =
                [walk[p] EXCEPT !.req = clock, !.since = d, !.base = e,
                          !.start = n, !.cursor = n, !.saved = st.cursor]]
      BY <1>6, <1>b, <1>c, <2>1 DEF ReadState
    <3>2. [walk[p] EXCEPT !.req = clock, !.since = d, !.base = e,
                          !.start = n, !.cursor = n, !.saved = st.cursor] \in Walks
      BY <1>a, <1>b, ReadUpdate
    <3> QED BY <3>1, <3>2, <1>b, WalkAt
  <2> QED BY <1>6, <1>b, <2>2, OwnStepType
          DEF ReadState, OwnStep, remoteVars, Points
<1>7. ASSUME NEW p \in Procs, MarkAttempt(p) PROVE TypeOK'
  BY <1>7, <1>a, <1>b, ProgressType, OwnStepType
  DEF MarkAttempt, OwnStep, remoteVars, Points
<1>8. ASSUME NEW p \in Procs, Fetch(p) PROVE TypeOK'
  <2>1. walk' \in [Procs -> Walks]
    BY <1>8, <1>a, <1>b, PageType, PageUpdate DEF Fetch
  <2>2. pc' \in [Procs -> Points]
    BY <1>8, <1>b DEF Fetch, AfterFetch, Points
  <2> QED BY <1>8, <1>b, <2>1, <2>2, OwnStepType DEF Fetch, OwnStep, remoteVars
<1>9. ASSUME NEW p \in Procs, FetchFails(p) \/ Crash(p) PROVE TypeOK'
  BY <1>9, <1>b, ReturnType, OwnStepType
  DEF FetchFails, Crash, OwnStep, remoteVars
<1>10. ASSUME NEW p \in Procs, StorePage(p) PROVE TypeOK'
  <2>1. local' \in Versions
    BY <1>10, <1>a, <1>b DEF StorePage, Stored, Versions
  <2>2. SeenSoFar(p) \in SUBSET Rows
    BY <1>a DEF SeenSoFar, Items
  <2>3. walk' \in [Procs -> Walks]
    <3>1. walk[p].pages + 1 \in Nat
      BY <1>a DEF Walks
    <3>2. PICK S \in SUBSET Rows, k \in Nat :
             walk' = [walk EXCEPT ![p] = [walk[p] EXCEPT !.seen = S, !.pages = k]]
      BY <1>10, <2>2, <3>1 DEF StorePage
    <3>3. [walk[p] EXCEPT !.seen = S, !.pages = k] \in Walks
      BY <1>a, SeenUpdate
    <3> QED BY <3>2, <3>3, <1>b, WalkAt
  <2> QED BY <1>10, <1>b, <2>1, <2>3, OwnStepType
          DEF StorePage, OwnStep, remoteVars, Points
<1>11. ASSUME NEW p \in Procs, StoreFails(p) PROVE TypeOK'
  <2>1. local' \in Versions
    BY <1>11, <1>a, <1>b DEF StoreFails, Stored, Versions
  <2> QED BY <1>11, <1>b, <2>1, ReturnType, OwnStepType
          DEF StoreFails, OwnStep, remoteVars
<1>12. ASSUME NEW p \in Procs, StopAtCap(p) PROVE TypeOK'
  <2>1. NextOffset(p) \in Nat
    BY <1>a, <1>c DEF NextOffset
  <2>2. walk' \in [Procs -> Walks]
    BY <1>12, <1>a, <1>b, <1>c, <2>1, CapUpdate DEF StopAtCap
  <2> QED BY <1>12, <1>b, <2>2, OwnStepType
          DEF StopAtCap, OwnStep, remoteVars, Points
<1>13. ASSUME NEW p \in Procs, ReachEnd(p) \/ ReconcileFails(p) PROVE TypeOK'
  <2>1. walk' \in [Procs -> Walks]
    <3>1. PICK b \in BOOLEAN :
             walk' = [walk EXCEPT ![p] = [walk[p] EXCEPT !.complete = b]]
      BY <1>13 DEF ReachEnd, ReconcileFails
    <3>2. [walk[p] EXCEPT !.complete = b] \in Walks
      BY <1>a DEF Walks
    <3> QED BY <3>1, <3>2, <1>b, WalkAt
  <2> QED BY <1>13, <1>b, <2>1, OwnStepType
          DEF ReachEnd, ReconcileFails, OwnStep, remoteVars, Points
<1>14. ASSUME NEW p \in Procs, NextPage(p) PROVE TypeOK'
  <2>1. NextOffset(p) \in Nat
    BY <1>a, <1>c DEF NextOffset
  <2>2. walk' \in [Procs -> Walks]
    BY <1>14, <1>a, <1>b, <2>1, PageType, CursorUpdate DEF NextPage
  <2>3. st' \in SyncStates
    BY <1>14, <2>1, ProgressType DEF NextPage
  <2> QED BY <1>14, <1>b, <2>2, <2>3, OwnStepType
          DEF NextPage, OwnStep, remoteVars, Points
<1>15. ASSUME NEW p \in Procs, Reconcile(p) PROVE TypeOK'
  <2>1. local' \in Versions
    BY <1>15, <1>b, BoundsAssumption DEF Reconcile, Versions
  <2> QED BY <1>15, <1>b, <2>1, OwnStepType
          DEF Reconcile, OwnStep, remoteVars, Points
<1>17. ASSUME NEW p \in Procs, Finish(p) PROVE TypeOK'
  <2>1. Watermark(p) \in 0..MaxClock
    <3>1. 1 <= walk[p].req /\ walk[p].req <= clock
      BY <1>17 DEF Finish, TimeInv, Active
    <3>2. walk[p].req \in Nat
      BY <1>a DEF Walks
    <3> QED BY <3>1, <3>2, <1>b, BoundsAssumption DEF Watermark
  <2>2. st' \in SyncStates
    BY <1>17, <1>a, <1>c, <2>1, StateAtType, ProgressType DEF Finish
  <2>3. causes' \subseteq {"resumed", "narrowed", "shrunk", "reordered", "overlap", "late"}
    BY <1>17, <1>b DEF Finish, CausesOf
  <2> QED BY <1>17, <1>b, <2>2, <2>3, ReturnType, OwnStepType
          DEF Finish, OwnStep, remoteVars
<1>19. CASE UNCHANGED vars
  BY <1>19 DEF vars, remoteVars, TypeOK, live
<1> QED BY <1>1, <1>2, <1>3, <1>5, <1>6, <1>7, <1>8, <1>9, <1>10, <1>11,
           <1>12, <1>13, <1>14, <1>15, <1>17, <1>19
        DEF Next, Remote, Step

-----------------------------------------------------------------------------
(* What leaves the listing in place.                                        *)

LEMMA SameRemote ==
    ASSUME UNCHANGED <<ver, mod, pos>>
    PROVE  /\ live' = live
           /\ \A s : Window(s)' = Window(s)
           /\ \A s, r : Rank(s, r)' = Rank(s, r)
<1>1. live' = live
  BY DEF live
<1>2. \A s : Window(s)' = Window(s)
  BY <1>1 DEF Window
<1>3. \A q, r : Before(q, r)' = Before(q, r)
  BY DEF Before
<1>4. \A s, r : Rank(s, r)' = Rank(s, r)
  BY <1>2, <1>3 DEF Rank
<1> QED BY <1>1, <1>2, <1>4

\* Creating or modifying a row changes that row only.
LEMMA RemoteEffect ==
    ASSUME TypeOK, TimeInv, NEW q \in Rows, Create(q) \/ Modify(q)
    PROVE  /\ mod'[q] = clock /\ q \in live'
           /\ \A r \in Rows \ {q} : /\ ver'[r] = ver[r] /\ mod'[r] = mod[r]
                                     /\ pos'[r] = pos[r]
           /\ live' = live \cup {q}
           /\ clock' = clock /\ clock \in Nat
  BY BoundsAssumption DEF Create, Modify, TypeOK, Versions, live

\* A remote change leaves the walks alone but for their history.
LEMMA RemoteWalk ==
    ASSUME TypeOK, NEW p \in Procs, Remote
    PROVE  /\ walk'[p].req = walk[p].req /\ walk'[p].since = walk[p].since
           /\ walk'[p].base = walk[p].base /\ walk'[p].start = walk[p].start
           /\ walk'[p].seen = walk[p].seen /\ walk'[p].page = walk[p].page
           /\ walk'[p].complete = walk[p].complete
           /\ walk'[p].alone = walk[p].alone
           /\ walk[p].touched \subseteq walk'[p].touched
           /\ walk[p].shrunk => walk'[p].shrunk
<1>0. walk[p] \in Walks
  BY DEF TypeOK
<1>1. \/ walk'[p] = walk[p]
      \/ walk'[p] = [walk[p] EXCEPT !.shrunk = TRUE]
      \/ \E r, S : walk'[p] = [walk[p] EXCEPT !.touched = @ \cup {r},
                                              !.passed = @ \cup S]
  <2>1. ASSUME NEW r \in Rows, Touch(r)
        PROVE  \/ walk'[p] = walk[p]
               \/ \E S : walk'[p] = [walk[p] EXCEPT !.touched = @ \cup {r},
                                                    !.passed = @ \cup S]
    BY <2>1 DEF Touch
  <2>2. Tick \/ (\E r \in Rows : Delete(r)) => \/ walk'[p] = walk[p]
                                             \/ walk'[p] = [walk[p] EXCEPT !.shrunk = TRUE]
    BY DEF Tick, Delete
  <2>3. Tick \/ (\E r \in Rows : Delete(r)) \/ \E r \in Rows : Touch(r)
    BY DEF Remote, Create, Modify
  <2> QED BY <2>1, <2>2, <2>3
<1>2. CASE walk'[p] = walk[p]
  BY <1>2
<1>3. CASE walk'[p] = [walk[p] EXCEPT !.shrunk = TRUE]
  BY <1>0, <1>3 DEF Walks
<1>4. ASSUME NEW r, NEW S, walk'[p] = [walk[p] EXCEPT !.touched = @ \cup {r},
                                                      !.passed = @ \cup S]
      PROVE  /\ walk'[p].req = walk[p].req /\ walk'[p].since = walk[p].since
             /\ walk'[p].base = walk[p].base /\ walk'[p].start = walk[p].start
             /\ walk'[p].seen = walk[p].seen /\ walk'[p].page = walk[p].page
             /\ walk'[p].complete = walk[p].complete
             /\ walk'[p].alone = walk[p].alone
             /\ walk[p].touched \subseteq walk'[p].touched
             /\ walk[p].shrunk => walk'[p].shrunk
  BY <1>0, <1>4 DEF Walks
<1> QED BY <1>1, <1>2, <1>3, <1>4

\* A changed row is noted by the walks under way.
LEMMA TouchNoted ==
    ASSUME TypeOK, NEW p \in Procs, NEW q \in Rows, Create(q) \/ Modify(q), Active(p)
    PROVE  q \in walk'[p].touched
<1>1. walk'[p] = [walk[p] EXCEPT !.touched = @ \cup {q},
                                 !.passed = @ \cup PassedBy(q, walk[p].since)]
  BY DEF Create, Modify, Touch, Active
<1> QED BY <1>1 DEF TypeOK, Walks

\* Two rows are still ordered after a step.
LEMMA OrderTotalNext ==
    ASSUME TypeOK', NEW q \in Rows, NEW r \in Rows, q # r
    PROVE  Before(q, r)' \/ Before(r, q)'
<1>1. q \in Nat /\ r \in Nat
  BY RowsAssumption
<1>2. mod'[q] \in Nat /\ mod'[r] \in Nat
  BY BoundsAssumption DEF TypeOK
<1>3. pos'[q] \in Nat /\ pos'[r] \in Nat
  BY PositionsAssumption DEF TypeOK
<1> QED BY <1>1, <1>2, <1>3, SortAssumption DEF Before

\* While rows are only created and modified, another row moves towards the head
\* of the listing only if the changed one moves behind it.
LEMMA RankUp ==
    ASSUME TypeOK, TypeOK', TimeInv, NEW q \in Rows, Create(q) \/ Modify(q),
           NEW s \in Nat, NEW r \in live, r # q,
           r \in Window(s)', r \notin PassedBy(q, s)
    PROVE  /\ r \in Window(s)
           /\ Rank(s, r) <= Rank(s, r)'
           /\ Rank(s, r) \in Nat /\ Rank(s, r)' \in Nat
<1>1. /\ mod'[q] = clock /\ q \in live' /\ live' = live \cup {q}
      /\ \A x \in Rows \ {q} : /\ ver'[x] = ver[x] /\ mod'[x] = mod[x]
                                /\ pos'[x] = pos[x]
      /\ r \in Rows /\ live \subseteq Rows /\ clock \in Nat
      /\ mod \in [Rows -> 0..MaxClock]
  BY RemoteEffect DEF live, TypeOK
<1>2. r \in Window(s)
  BY <1>1 DEF Window
<1>3. Ahead(s, r) \subseteq Ahead(s, r)'
  <2> SUFFICES ASSUME NEW x \in Ahead(s, r) PROVE x \in Ahead(s, r)'
    OBVIOUS
  <2>1. x \in live /\ x \in Rows /\ mod[x] > s /\ Before(x, r)
    BY DEF Ahead, Window, live
  <2>2. mod[x] \in Nat /\ mod[x] <= clock
    BY <1>1, <2>1, BoundsAssumption DEF TimeInv
  <2>3. mod'[r] = mod[r] /\ (x # q => mod'[x] = mod[x]) /\ x \in live'
    BY <1>1, <2>1
  <2>4. x \in Window(s)'
    BY <1>1, <2>1, <2>2, <2>3 DEF Window
  <2>5. Before(x, r)'
    <3>1. CASE x # q
      BY <1>1, <2>1, <3>1 DEF Before
    <3>2. CASE x = q
      <4>1. q \in Window(s)
        BY <2>1, <3>2 DEF Window
      <4>2. ~Before(r, q)'
        BY <1>2, <2>1, <3>2, <4>1 DEF PassedBy
      <4>3. Before(q, r)' \/ Before(r, q)'
        BY <1>1, OrderTotalNext
      <4> QED BY <3>2, <4>2, <4>3
    <3> QED BY <3>1, <3>2
  <2> QED BY <2>4, <2>5 DEF Ahead
<1>4. Ahead(s, r)' \in SUBSET Rows
  BY DEF Ahead, Window, live
<1>5. IsFiniteSet(Ahead(s, r)')
  BY <1>4, FS_Subset, RowsAssumption
<1>6. /\ Cardinality(Ahead(s, r)) <= Cardinality(Ahead(s, r)')
      /\ Cardinality(Ahead(s, r)) \in Nat /\ Cardinality(Ahead(s, r)') \in Nat
  BY <1>3, <1>5, FS_Subset, FS_CardinalityType
<1> QED BY <1>2, <1>6 DEF Rank, Ahead

-----------------------------------------------------------------------------
(* Time and typing.                                                         *)

LEMMA InitInv == Init => SyncInv /\ LagInv
<1> SUFFICES ASSUME Init PROVE SyncInv /\ LagInv
  OBVIOUS
<1>1. TypeOK
  BY InitType
<1>2. /\ \A p \in Procs : pc[p] = "idle" /\ walk[p] = NoWalk
      /\ st.wm = 0 /\ clock = 1 /\ \A r \in Rows : mod[r] \in {0, 1}
      /\ \A r \in live : mod[r] = 1
  BY DEF Init, live
<1>3. TimeInv
  BY <1>2 DEF TimeInv, Active, live
<1>4. ASSUME NEW p \in Procs PROVE WalkInv(p) /\ SeenInv(p) /\ LoneInv(p)
  BY <1>2 DEF WalkInv, QueuedInv, TouchedInv, PassedInv, PageInv, CompleteInv,
              CoverInv, SeenInv, LoneInv, Active, NoWalk
<1>5. AloneInv /\ LagHasACause
  BY <1>2 DEF AloneInv, LagHasACause, WatermarkSound, live
<1> QED BY <1>1, <1>3, <1>4, <1>5 DEF SyncInv, LagInv

\* Only Finish and Begin move the watermark, and neither past the clock.
LEMMA WatermarkStep ==
    ASSUME TypeOK, TimeInv, Next
    PROVE  \/ st'.wm = st.wm
           \/ st'.wm = 0 /\ st' = [cursor |-> 0, wm |-> 0, attempt |-> "complete"]
           \/ \E p \in Procs :
                 /\ Finish(p) /\ walk[p].complete
                 /\ st' = [cursor |-> 0, wm |-> walk[p].req - 1,
                           attempt |-> "complete"]
<1>1. \A n : SaveSyncProgress(n) => st'.wm = st.wm
  BY DEF SaveSyncProgress, TypeOK, SyncStates
<1>2. ASSUME Remote PROVE st' = st
  BY <1>2 DEF Remote, Tick, Create, Modify, Delete
<1>3. ASSUME NEW p \in Procs, NEW o \in Options, Begin(p, o)
      PROVE  \/ st' = st
             \/ st' = [cursor |-> 0, wm |-> 0, attempt |-> "complete"]
  BY <1>3 DEF Begin, SaveSyncStateAt
<1>4. ASSUME NEW p \in Procs, Crash(p) PROVE st' = st
  BY <1>4 DEF Crash
<1>5. ASSUME NEW p \in Procs, Step(p), ~Finish(p) PROVE st'.wm = st.wm
  BY <1>1, <1>5 DEF Step, ReadState, MarkAttempt, Fetch, FetchFails, StorePage,
     StoreFails, StopAtCap, ReachEnd, NextPage, Reconcile, ReconcileFails
<1>6. ASSUME NEW p \in Procs, Finish(p), ~walk[p].complete PROVE st'.wm = st.wm
  BY <1>1, <1>6 DEF Finish
<1>7. ASSUME NEW p \in Procs, Finish(p), walk[p].complete
      PROVE  st' = [cursor |-> 0, wm |-> walk[p].req - 1, attempt |-> "complete"]
  BY <1>7 DEF Finish, SaveSyncStateAt, Watermark
<1> QED BY <1>2, <1>3, <1>4, <1>5, <1>6, <1>7 DEF Next

\* The clock runs on, rows are stamped with it, and so are walks.
LEMMA TimeStep == TypeOK /\ TimeInv /\ [Next]_vars => TimeInv'
<1> SUFFICES ASSUME TypeOK, TimeInv, [Next]_vars PROVE TimeInv'
  OBVIOUS
<1>0. /\ clock \in Nat /\ clock >= 1 /\ st.wm \in Nat
      /\ pc \in [Procs -> Points] /\ walk \in [Procs -> Walks]
      /\ \A p \in Procs : walk[p].req \in Nat
      /\ \A r \in Rows : mod[r] \in Nat
      /\ live \subseteq Rows
  BY BoundsAssumption DEF TypeOK, SyncStates, Walks, live
<1>1. CASE UNCHANGED vars
  BY <1>1 DEF vars, remoteVars, TimeInv, live, Active
<1>2. CASE Next
  <2>1. clock <= clock' /\ clock' \in Nat
    <3>1. ASSUME Remote PROVE Tick \/ clock' = clock
      BY <3>1 DEF Remote, Create, Modify, Delete
    <3>2. \A p \in Procs : /\ Crash(p) => clock' = clock
                           /\ \A o \in Options : Begin(p, o) => clock' = clock
      BY DEF Begin, Crash
    <3>3. ASSUME NEW p \in Procs, Step(p) PROVE clock' = clock
      BY <3>3 DEF Step, ReadState, MarkAttempt, Fetch, FetchFails, StorePage,
         StoreFails, StopAtCap, ReachEnd, NextPage, Reconcile, ReconcileFails,
         Finish
    <3>4. Tick => clock' = clock + 1
      BY DEF Tick
    <3>5. Tick \/ clock' = clock
      BY <1>2, <3>1, <3>2, <3>3 DEF Next
    <3> QED BY <1>0, <3>4, <3>5
  <2>2. st'.wm < clock'
    <3>1. CASE st'.wm = st.wm
      BY <3>1, <2>1, <1>0 DEF TimeInv
    <3>2. CASE st'.wm = 0
      BY <3>2, <2>1, <1>0
    <3>3. ASSUME NEW p \in Procs, Finish(p), st'.wm = walk[p].req - 1
          PROVE  st'.wm < clock'
      <4>1. walk[p].req <= clock
        BY <3>3 DEF Finish, TimeInv, Active
      <4> QED BY <3>3, <4>1, <2>1, <1>0
    <3> QED BY <1>2, <3>1, <3>2, <3>3, WatermarkStep
  <2>3. \A r \in live' : 1 <= mod'[r] /\ mod'[r] <= clock'
    <3>1. CASE UNCHANGED <<ver, mod, pos>>
      BY <3>1, <2>1, <1>0 DEF TimeInv, live
    <3>2. ASSUME NEW q \in Rows, Create(q) \/ Modify(q)
          PROVE  \A r \in live' : 1 <= mod'[r] /\ mod'[r] <= clock'
      BY <3>2, <1>0, RemoteEffect DEF TimeInv
    <3>3. ASSUME NEW q \in Rows, Delete(q)
          PROVE  \A r \in live' : 1 <= mod'[r] /\ mod'[r] <= clock'
      BY <3>3, <1>0 DEF Delete, TimeInv, live, TypeOK, Versions
    <3>4. UNCHANGED <<ver, mod, pos>> \/ \E q \in Rows : Create(q) \/ Modify(q) \/ Delete(q)
      BY <1>2 DEF Next, Remote, Step, Tick, Begin, ReadState, MarkAttempt, Fetch,
         FetchFails, StorePage, StoreFails, StopAtCap, ReachEnd, NextPage,
         Reconcile, ReconcileFails, Finish, Crash, remoteVars
    <3> QED BY <3>1, <3>2, <3>3, <3>4
  <2>4. ASSUME NEW p \in Procs, Active(p)'
        PROVE  1 <= walk'[p].req /\ walk'[p].req <= clock'
    <3>1. CASE walk'[p].req = clock /\ clock' = clock
      BY <3>1, <1>0
    <3>2. CASE Active(p) /\ walk'[p].req = walk[p].req
      BY <3>2, <2>1, <1>0 DEF TimeInv
    <3>3. ASSUME Remote PROVE Active(p) /\ walk'[p].req = walk[p].req
      <4>1. pc' = pc
        BY <3>3 DEF Remote, Tick, Create, Modify, Delete
      <4> QED BY <3>3, <2>4, <4>1, RemoteWalk DEF Active
    <3>4. ASSUME NEW q \in Procs, NEW o \in Options, Begin(q, o)
          PROVE  Active(p) /\ walk'[p].req = walk[p].req
      BY <3>4, <2>4, <1>0 DEF Begin, Active, Walks
    <3>5. ASSUME NEW q \in Procs, Return(q) PROVE Active(p) /\ walk'[p].req = walk[p].req
      BY <3>5, <2>4, <1>0 DEF Return, Active
    <3>6. ASSUME NEW q \in Procs, ReadState(q)
          PROVE  \/ walk'[p].req = clock /\ clock' = clock
                 \/ Active(p) /\ walk'[p].req = walk[p].req
      BY <3>6, <2>4, <1>0 DEF ReadState, Active, Walks
    <3>7. ASSUME NEW q \in Procs,
                 \/ MarkAttempt(q) \/ Fetch(q) \/ StorePage(q) \/ StopAtCap(q)
                 \/ ReachEnd(q) \/ NextPage(q) \/ Reconcile(q) \/ ReconcileFails(q)
          PROVE  Active(p) /\ walk'[p].req = walk[p].req
      <4>1. ASSUME MarkAttempt(q) \/ Reconcile(q) PROVE walk'[p].req = walk[p].req
        BY <4>1 DEF MarkAttempt, Reconcile
      <4>5. ASSUME StopAtCap(q) PROVE walk'[p].req = walk[p].req
        BY <4>5, <1>0 DEF StopAtCap, Walks
      <4>6. ASSUME NextPage(q) PROVE walk'[p].req = walk[p].req
        BY <4>6, <1>0 DEF NextPage, Walks
      <4>7. ASSUME ReachEnd(q) \/ ReconcileFails(q)
            PROVE  walk'[p].req = walk[p].req
        BY <4>7, <1>0 DEF ReachEnd, ReconcileFails, Walks
      <4>3. ASSUME Fetch(q) PROVE walk'[p].req = walk[p].req
        BY <4>3, <1>0 DEF Fetch, Walks
      <4>4. ASSUME StorePage(q) PROVE walk'[p].req = walk[p].req
        BY <4>4, <1>0 DEF StorePage, Walks
      <4>2. Active(p)
        BY <3>7, <2>4, <1>0 DEF MarkAttempt, Fetch, StorePage, StopAtCap, ReachEnd,
           NextPage, Reconcile, ReconcileFails, Active
      <4> QED BY <3>7, <4>1, <4>2, <4>3, <4>4, <4>5, <4>6, <4>7
    <3> QED BY <1>2, <3>1, <3>2, <3>3, <3>4, <3>5, <3>6, <3>7
            DEF Next, Step, FetchFails, StoreFails, Finish, Crash
  <2> QED BY <2>2, <2>3, <2>4 DEF TimeInv
<1> QED BY <1>1, <1>2

\* TypeOK: every state of every run is of the declared shape; the fetched
\* page, the cursor arithmetic and the watermark of one second before the
\* start of the walk stay within it (syncResource's local variables, and
\* what SaveSyncStateAt and SaveSyncProgress write).
THEOREM SyncTyped == Spec => []TypeOK
<1>1. Init => TypeOK /\ TimeInv
  BY InitInv DEF SyncInv
<1>2. TypeOK /\ TimeInv /\ [Next]_vars => (TypeOK /\ TimeInv)'
  BY TypeStep, TimeStep
<1> QED BY <1>1, <1>2, PTL DEF Spec

\* WatermarkMoves: only a completed walk, or a flag that discards it, moves
\* the watermark, and then the resume cursor is dropped with it
\* (SaveSyncStateAt against SaveSyncProgress).
THEOREM WatermarkGuarded == Spec => WatermarkMoves
<1>1. Init => TypeOK /\ TimeInv
  BY InitInv DEF SyncInv
<1>2. TypeOK /\ TimeInv /\ [Next]_vars => (TypeOK /\ TimeInv)'
  BY TypeStep, TimeStep
<1> DEFINE Moves ==
      st'.wm # st.wm =>
          \/ st' = [cursor |-> 0, wm |-> 0, attempt |-> "complete"]
          \/ \E p \in Procs : walk[p].complete /\ st'.wm < walk[p].req
                              /\ st'.cursor = 0
<1>3. TypeOK /\ TimeInv /\ [Next]_vars => [Moves]_vars
  <2> SUFFICES ASSUME TypeOK, TimeInv, Next, st'.wm # st.wm PROVE Moves
    BY DEF Moves
  <2>1. \A p \in Procs : walk[p].req \in Nat
    BY DEF TypeOK, Walks
  <2> QED BY <2>1, WatermarkStep
<1> QED BY <1>1, <1>2, <1>3, PTL DEF Spec, WatermarkMoves

-----------------------------------------------------------------------------
(* The walk misses nothing.                                                 *)

\* The parts of a walk the invariant reads; alone is not one of them.
SameWalk(w, v) ==
    /\ w.req = v.req /\ w.since = v.since /\ w.start = v.start
    /\ w.cursor = v.cursor /\ w.page = v.page /\ w.seen = v.seen
    /\ w.complete = v.complete /\ w.shrunk = v.shrunk
    /\ w.touched = v.touched /\ w.passed = v.passed

LEMMA WalkFrame ==
    ASSUME UNCHANGED <<ver, mod, pos>>, NEW q \in Procs, WalkInv(q),
           pc'[q] = pc[q], SameWalk(walk'[q], walk[q])
    PROVE  WalkInv(q)'
<1>1. live' = live /\ (\A s : Window(s)' = Window(s))
      /\ \A s, r : Rank(s, r)' = Rank(s, r)
  BY SameRemote
<1>2. Active(q)' = Active(q)
  BY DEF Active
<1>3. QueuedInv(q)' /\ TouchedInv(q)' /\ PassedInv(q)' /\ PageInv(q)' /\ CompleteInv(q)'
  BY <1>1, <1>2
  DEF WalkInv, QueuedInv, TouchedInv, PassedInv, PageInv, CompleteInv, SameWalk
<1>4. \A r : Beyond(q, r)' = Beyond(q, r)
  BY <1>1 DEF Beyond, FullPage, Items, SameWalk
<1>5. \A r : Reached(q, r) => Reached(q, r)'
  BY <1>1, <1>4 DEF Reached, Items, SameWalk
<1>6. CoverInv(q)'
  BY <1>1, <1>2, <1>5 DEF WalkInv, CoverInv, Settled, SameWalk
<1> QED BY <1>3, <1>6 DEF WalkInv

\* A process outside its walk satisfies it trivially.
LEMMA WalkIdle ==
    ASSUME NEW p \in Procs, pc'[p] = "idle"
    PROVE  WalkInv(p)'
  BY DEF WalkInv, QueuedInv, TouchedInv, PassedInv, PageInv, CompleteInv, CoverInv, Active

\* A created or modified row is touched; the others keep their place, move away
\* from the head or are passed.
LEMMA WalkChange ==
    ASSUME TypeOK, TypeOK', TimeInv, NEW q \in Rows, Create(q) \/ Modify(q),
           NEW p \in Procs, WalkInv(p)
    PROVE  WalkInv(p)'
<1> DEFINE w == walk[p]
<1>0. /\ w.since \in Nat /\ w.cursor \in Nat /\ Limit \in Nat
      /\ w.req \in Nat /\ clock \in Nat /\ w \in Walks
  BY BoundsAssumption, LimitAssumption DEF TypeOK, Walks
<1>1. /\ mod'[q] = clock /\ live' = live \cup {q}
      /\ \A r \in Rows \ {q} : ver'[r] = ver[r] /\ mod'[r] = mod[r]
      /\ live \subseteq Rows
  BY RemoteEffect DEF live
<1>2. pc' = pc /\ Touch(q) /\ Active(p)' = Active(p)
  BY DEF Create, Modify, Active
<1>3. CASE ~Active(p)
  <2>1. walk'[p] = walk[p]
    BY <1>2, <1>3 DEF Touch, Active
  <2> QED BY <1>2, <1>3, <2>1
          DEF WalkInv, QueuedInv, TouchedInv, PassedInv, PageInv, CompleteInv, CoverInv, Active
<1>4. CASE Active(p)
  <2>1. walk'[p] = [w EXCEPT !.touched = @ \cup {q},
                            !.passed = @ \cup PassedBy(q, w.since)]
    BY <1>2, <1>4 DEF Touch, Active
  <2>2. /\ walk'[p].touched = w.touched \cup {q}
        /\ walk'[p].passed = w.passed \cup PassedBy(q, w.since)
        /\ walk'[p].req = w.req /\ walk'[p].since = w.since
        /\ walk'[p].start = w.start /\ walk'[p].cursor = w.cursor
        /\ walk'[p].page = w.page /\ walk'[p].seen = w.seen
        /\ walk'[p].complete = w.complete /\ walk'[p].shrunk = w.shrunk
    BY <2>1, <1>0 DEF Walks
  <2>3. w.req <= clock
    BY <1>4 DEF TimeInv
  <2>4. QueuedInv(p)' /\ CompleteInv(p)'
    BY <1>2, <1>4, <2>2 DEF WalkInv, QueuedInv, CompleteInv, Active
  <2>5. TouchedInv(p)'
    BY <1>1, <1>2, <1>4, <2>2, <2>3 DEF WalkInv, TouchedInv
  <2>8. PassedInv(p)'
    BY <2>2 DEF PassedInv
  <2>6. PageInv(p)'
    BY <1>1, <1>2, <1>4, <2>2 DEF WalkInv, PageInv
  <2>7. CoverInv(p)'
    <3> SUFFICES ASSUME w.start = 0, ~w.shrunk,
                        NEW r \in Settled(p)'
                 PROVE  Reached(p, r)'
      BY <2>2 DEF CoverInv
    <3>1. /\ r \in Window(w.since)' /\ r \notin w.touched /\ r # q
          /\ r \notin w.passed /\ r \notin PassedBy(q, w.since)
      BY <2>2 DEF Settled, Window
    <3>2. r \in live
      BY <1>1, <3>1 DEF Window
    <3>3. /\ r \in Window(w.since)
          /\ Rank(w.since, r) <= Rank(walk[p].since, r)'
          /\ Rank(w.since, r) \in Nat /\ Rank(walk[p].since, r)' \in Nat
      <4>1. PICK s \in Nat : s = w.since /\ s = walk'[p].since
        BY <1>0, <2>2
      <4>2. r \in Window(s)' /\ r \notin PassedBy(q, s)
        BY <3>1, <4>1
      <4>3. /\ r \in Window(s)
            /\ Rank(s, r) <= Rank(s, r)'
            /\ Rank(s, r) \in Nat /\ Rank(s, r)' \in Nat
        BY <3>1, <3>2, <4>2, RankUp
      <4> QED BY <4>1, <4>3
    <3>4. Reached(p, r)
      BY <1>4, <3>1, <3>3 DEF WalkInv, CoverInv, Settled
    <3>5. Beyond(p, r) => Beyond(p, r)'
      BY <3>3, <2>2, <1>0 DEF Beyond, FullPage, Items
    <3> QED BY <3>3, <3>4, <3>5, <2>2, <1>0, <1>2 DEF Reached, Items
  <2> QED BY <2>4, <2>5, <2>6, <2>7, <2>8 DEF WalkInv
<1> QED BY <1>3, <1>4

\* A deletion shrinks the listing of every walk under way.
LEMMA WalkDelete ==
    ASSUME TypeOK, NEW q \in Rows, Delete(q), NEW p \in Procs, WalkInv(p)
    PROVE  WalkInv(p)'
<1> DEFINE w == walk[p]
<1>0. w \in Walks /\ pc' = pc /\ Active(p)' = Active(p)
  BY DEF TypeOK, Delete, Active
<1>1. /\ live' = live \ {q} /\ q \in Rows
      /\ \A r \in live' : ver'[r] = ver[r] /\ mod'[r] = mod[r]
  BY DEF Delete, TypeOK, Versions, live
<1>3. CASE ~Active(p)
  <2>1. walk'[p] = walk[p]
    BY <1>3 DEF Delete, Active
  <2> QED BY <1>0, <1>3, <2>1
          DEF WalkInv, QueuedInv, TouchedInv, PassedInv, PageInv, CompleteInv, CoverInv, Active
<1>4. CASE Active(p)
  <2>1. walk'[p] = [w EXCEPT !.shrunk = TRUE]
    BY <1>4 DEF Delete, Active
  <2>2. /\ walk'[p].touched = w.touched /\ walk'[p].req = w.req
        /\ walk'[p].passed = w.passed /\ walk'[p].page = w.page /\ walk'[p].complete = w.complete
        /\ walk'[p].shrunk
    BY <2>1, <1>0 DEF Walks
  <2>3. QueuedInv(p)' /\ CompleteInv(p)' /\ CoverInv(p)'
    BY <1>0, <1>4, <2>2 DEF WalkInv, QueuedInv, CompleteInv, CoverInv, Active
  <2>4. TouchedInv(p)' /\ PassedInv(p)' /\ PageInv(p)'
    BY <1>0, <1>1, <1>4, <2>2 DEF WalkInv, TouchedInv, PassedInv, PageInv
  <2> QED BY <2>3, <2>4 DEF WalkInv
<1> QED BY <1>3, <1>4

LEMMA WalkRead ==
    ASSUME TypeOK, TimeInv, NEW p \in Procs, ReadState(p), WalkInv(p)
    PROVE  WalkInv(p)'
<1>1. /\ walk'[p].touched = {} /\ walk'[p].passed = {}
      /\ walk'[p].seen = {} /\ walk'[p].page = NoPage
      /\ ~walk'[p].shrunk /\ ~walk'[p].complete
      /\ walk'[p].cursor = walk'[p].start /\ pc'[p] = "read"
  <2>1. walk[p] \in Walks /\ walk \in [Procs -> Walks] /\ pc \in [Procs -> Points]
    BY DEF TypeOK
  <2> QED BY <2>1 DEF ReadState, WalkInv, QueuedInv, Walks
<1>2. QueuedInv(p)' /\ TouchedInv(p)' /\ PassedInv(p)' /\ CompleteInv(p)'
  BY <1>1 DEF QueuedInv, TouchedInv, PassedInv, CompleteInv
<1>3. PageInv(p)'
  BY <1>1 DEF PageInv, NoPage, live
<1>4. ASSUME NEW r, walk'[p].start = 0 PROVE Reached(p, r)'
  <2>1. \A s : Rank(s, r)' \in Nat
    BY RankType, SameRemote DEF ReadState, remoteVars
  <2>2. Rank(walk[p].since, r)' \in Nat
    BY <2>1
  <2> QED BY <1>1, <1>4, <2>2 DEF Reached
<1>5. CoverInv(p)'
  BY <1>4 DEF CoverInv
<1> QED BY <1>2, <1>3, <1>5 DEF WalkInv

\* Fetch: every row of the window is on the page, before it or beyond it, and
\* beyond it only if the page is full; an empty page ends the listing.
LEMMA WalkFetch ==
    ASSUME TypeOK, TimeInv, NEW p \in Procs, Fetch(p), WalkInv(p)
    PROVE  WalkInv(p)'
<1> DEFINE w    == walk[p]
           page == PageOf(w.since, w.cursor)
<1>0. /\ w \in Walks /\ walk \in [Procs -> Walks] /\ pc \in [Procs -> Points]
      /\ w.cursor \in Nat /\ Limit \in Nat /\ Limit >= 1
      /\ UNCHANGED <<ver, mod, pos>> /\ pc[p] = "fetch"
  BY LimitAssumption DEF TypeOK, Walks, Fetch, remoteVars
<1>1. /\ walk'[p] = [w EXCEPT !.page = page, !.complete = (page = NoPage)]
      /\ pc'[p] = AfterFetch(p, page)
  BY <1>0 DEF Fetch
<1>2. /\ walk'[p].touched = w.touched /\ walk'[p].req = w.req
      /\ walk'[p].passed = w.passed
      /\ walk'[p].page = page /\ walk'[p].seen = w.seen
      /\ walk'[p].complete = (page = NoPage) /\ walk'[p].since = w.since
      /\ walk'[p].cursor = w.cursor /\ walk'[p].start = w.start
      /\ walk'[p].shrunk = w.shrunk
  <2> HIDE DEF page
  <2> QED BY <1>0, <1>1 DEF Walks
<1>3. live' = live /\ (\A s : Window(s)' = Window(s))
      /\ \A s, r : Rank(s, r)' = Rank(s, r)
  BY <1>0, SameRemote
<1>4. Items(page) = Listing(w.since, w.cursor)
  BY PageItems
<1>5. ~FullPage(NoPage)
  <2>1. Items(NoPage) = {}
    BY DEF Items, NoPage
  <2> QED BY <2>1, <1>0, FS_EmptySet DEF FullPage
<1>6. \/ pc'[p] = "finish" /\ page # NoPage
      \/ pc'[p] = "reconcile" /\ page = NoPage
      \/ pc'[p] = "fetched" /\ page # NoPage
  <2> HIDE DEF page
  <2> QED BY <1>1, <1>5 DEF AfterFetch, Stuck
<1>7. QueuedInv(p)' /\ CompleteInv(p)'
  BY <1>2, <1>6 DEF QueuedInv, CompleteInv
<1>8. Active(p)
  BY <1>0 DEF Active
<1>9. TouchedInv(p)' /\ PassedInv(p)'
  BY <1>0, <1>2, <1>3, <1>8 DEF WalkInv, TouchedInv, PassedInv
<1>10. PageInv(p)'
  BY <1>0, <1>2, <1>3 DEF PageInv, PageOf, live
<1>11. CoverInv(p)'
  <2> SUFFICES ASSUME w.start = 0, ~w.shrunk,
                      NEW r \in Settled(p)'
               PROVE  Reached(p, r)'
    BY <1>2 DEF CoverInv
  <2>1. r \in Settled(p) /\ r \in Window(w.since) /\ r \in Rows
    BY <1>2, <1>3 DEF Settled, Window, live
  <2>2. r \in w.seen \/ w.cursor <= Rank(w.since, r)
    BY <1>0, <1>8, <2>1 DEF WalkInv, CoverInv, Reached
  <2>3. Rank(w.since, r) \in Nat /\ Rank(walk[p].since, r)' = Rank(w.since, r)
    BY <1>2, <1>3, RankType
  <2>4. \/ r \in w.seen
        \/ r \in Items(page)
        \/ w.cursor + Limit <= Rank(w.since, r)
    BY <1>0, <1>4, <2>1, <2>2, <2>3 DEF Listing
  <2>5. w.cursor + Limit <= Rank(w.since, r) => FullPage(page)
    BY <1>0, <1>4, <2>1, FullListing DEF FullPage
  <2>6. page = NoPage => r \in w.seen
    <3>1. Items(NoPage) = {}
      BY DEF Items, NoPage
    <3> HIDE DEF page
    <3> QED BY <1>5, <2>4, <2>5, <3>1
  <2>7. r \in w.seen \cup Items(page) \/ Beyond(p, r)'
    <3> HIDE DEF page
    <3> QED BY <1>2, <2>3, <2>4, <2>5 DEF Beyond, FullPage, Items
  <2> HIDE DEF page
  <2> QED BY <1>2, <1>6, <2>6, <2>7 DEF Reached, Items
<1> QED BY <1>7, <1>9, <1>10, <1>11 DEF WalkInv

\* StorePage: the page's rows are seen.
LEMMA WalkStore ==
    ASSUME TypeOK, NEW p \in Procs, StorePage(p), WalkInv(p)
    PROVE  WalkInv(p)'
<1> DEFINE w == walk[p]
<1>0. /\ w \in Walks /\ walk \in [Procs -> Walks] /\ pc \in [Procs -> Points]
      /\ UNCHANGED <<ver, mod, pos>> /\ pc[p] = "fetched" /\ pc'[p] = "stored"
  BY DEF TypeOK, StorePage, remoteVars
<1>2. /\ walk'[p].touched = w.touched /\ walk'[p].req = w.req
      /\ walk'[p].passed = w.passed
      /\ walk'[p].page = w.page /\ walk'[p].seen = w.seen \cup Items(w.page)
      /\ walk'[p].complete = w.complete /\ walk'[p].since = w.since
      /\ walk'[p].cursor = w.cursor /\ walk'[p].start = w.start
      /\ walk'[p].shrunk = w.shrunk
  BY <1>0 DEF StorePage, SeenSoFar, Walks
<1>3. live' = live /\ (\A s : Window(s)' = Window(s))
      /\ \A s, r : Rank(s, r)' = Rank(s, r)
  BY <1>0, SameRemote
<1>4. Active(p)
  BY <1>0 DEF Active
<1>5. QueuedInv(p)' /\ CompleteInv(p)' /\ TouchedInv(p)' /\ PassedInv(p)' /\ PageInv(p)'
  BY <1>0, <1>2, <1>3, <1>4
  DEF WalkInv, QueuedInv, CompleteInv, TouchedInv, PassedInv, PageInv
<1>6. CoverInv(p)'
  <2> SUFFICES ASSUME w.start = 0, ~w.shrunk,
                      NEW r \in Settled(p)'
               PROVE  Reached(p, r)'
    BY <1>2 DEF CoverInv
  <2>1. r \in Settled(p)
    BY <1>2, <1>3 DEF Settled
  <2>2. r \in w.seen \cup Items(w.page) \/ Beyond(p, r)
    BY <1>0, <1>4, <2>1 DEF WalkInv, CoverInv, Reached
  <2>3. Beyond(p, r)' = Beyond(p, r)
    BY <1>2, <1>3 DEF Beyond, FullPage, Items
  <2> QED BY <1>0, <1>2, <2>2, <2>3 DEF Reached
<1> QED BY <1>5, <1>6 DEF WalkInv

\* NextPage: what lay beyond the page lies at or beyond the next offset.
LEMMA WalkNext ==
    ASSUME TypeOK, NEW p \in Procs, NextPage(p), WalkInv(p)
    PROVE  WalkInv(p)'
<1> DEFINE w == walk[p]
<1>0. /\ w \in Walks /\ walk \in [Procs -> Walks] /\ pc \in [Procs -> Points]
      /\ UNCHANGED <<ver, mod, pos>> /\ pc[p] = "stored" /\ pc'[p] = "fetch"
  BY DEF TypeOK, NextPage, remoteVars
<1>2. /\ walk'[p].touched = w.touched /\ walk'[p].req = w.req
      /\ walk'[p].passed = w.passed
      /\ walk'[p].page = NoPage /\ walk'[p].seen = w.seen
      /\ walk'[p].complete = w.complete /\ walk'[p].since = w.since
      /\ walk'[p].cursor = w.cursor + Limit /\ walk'[p].start = w.start
      /\ walk'[p].shrunk = w.shrunk
  BY <1>0 DEF NextPage, NextOffset, Walks
<1>3. live' = live /\ (\A s : Window(s)' = Window(s))
      /\ \A s, r : Rank(s, r)' = Rank(s, r)
  BY <1>0, SameRemote
<1>4. Active(p)
  BY <1>0 DEF Active
<1>5. QueuedInv(p)' /\ CompleteInv(p)' /\ TouchedInv(p)' /\ PassedInv(p)'
  BY <1>0, <1>2, <1>3, <1>4
  DEF WalkInv, QueuedInv, CompleteInv, TouchedInv, PassedInv
<1>6. PageInv(p)'
  BY <1>2 DEF PageInv, NoPage, live
<1>7. CoverInv(p)'
  <2> SUFFICES ASSUME w.start = 0, ~w.shrunk,
                      NEW r \in Settled(p)'
               PROVE  Reached(p, r)'
    BY <1>2 DEF CoverInv
  <2>1. r \in Settled(p)
    BY <1>2, <1>3 DEF Settled
  <2>2. r \in w.seen \/ Beyond(p, r)
    BY <1>0, <1>4, <2>1 DEF WalkInv, CoverInv, Reached
  <2> QED BY <1>0, <1>2, <1>3, <2>2 DEF Reached, Beyond
<1> QED BY <1>5, <1>6, <1>7 DEF WalkInv

\* The steps that only end the page loop or the walk's bookkeeping.
LEMMA WalkEnd ==
    ASSUME TypeOK, NEW p \in Procs, WalkInv(p),
           \/ MarkAttempt(p) \/ StopAtCap(p) \/ ReachEnd(p)
           \/ Reconcile(p) \/ ReconcileFails(p)
    PROVE  WalkInv(p)'
<1> DEFINE w == walk[p]
<1>0. /\ w \in Walks /\ walk \in [Procs -> Walks] /\ pc \in [Procs -> Points]
      /\ UNCHANGED <<ver, mod, pos>> /\ Active(p)
  BY DEF TypeOK, MarkAttempt, StopAtCap, ReachEnd, Reconcile, ReconcileFails,
         remoteVars, Active
<1>1. \/ pc[p] = "read" /\ pc'[p] = "fetch" /\ walk'[p].complete = w.complete
      \/ pc[p] = "stored" /\ pc'[p] = "finish" /\ walk'[p].complete = w.complete
      \/ pc[p] = "stored" /\ pc'[p] = "reconcile" /\ ~FullPage(w.page)
      \/ pc[p] = "reconcile" /\ pc'[p] = "finish"
  BY <1>0 DEF MarkAttempt, StopAtCap, ReachEnd, Reconcile, ReconcileFails,
              HasMore, Walks
<1>2. /\ walk'[p].touched = w.touched /\ walk'[p].req = w.req
      /\ walk'[p].passed = w.passed
      /\ walk'[p].page = w.page /\ walk'[p].seen = w.seen
      /\ walk'[p].since = w.since
      /\ walk'[p].cursor = w.cursor /\ walk'[p].start = w.start
      /\ walk'[p].shrunk = w.shrunk
  BY <1>0 DEF MarkAttempt, StopAtCap, ReachEnd, Reconcile, ReconcileFails, Walks
<1>3. live' = live /\ (\A s : Window(s)' = Window(s))
      /\ \A s, r : Rank(s, r)' = Rank(s, r)
  BY <1>0, SameRemote
<1>5. QueuedInv(p)' /\ CompleteInv(p)' /\ TouchedInv(p)' /\ PassedInv(p)' /\ PageInv(p)'
  BY <1>0, <1>1, <1>2, <1>3
  DEF WalkInv, QueuedInv, CompleteInv, TouchedInv, PassedInv, PageInv
<1>6. CoverInv(p)'
  <2> SUFFICES ASSUME w.start = 0, ~w.shrunk,
                      NEW r \in Settled(p)'
               PROVE  Reached(p, r)'
    BY <1>2 DEF CoverInv
  <2>1. r \in Settled(p)
    BY <1>2, <1>3 DEF Settled
  <2>2. Reached(p, r) /\ (pc[p] = "stored" => ~w.complete)
    BY <1>0, <2>1 DEF WalkInv, CoverInv, CompleteInv
  <2>3. Rank(walk[p].since, r)' = Rank(w.since, r)
    BY <1>2, <1>3
  <2> QED BY <1>1, <1>2, <2>2, <2>3 DEF Reached, Beyond
<1> QED BY <1>5, <1>6 DEF WalkInv

\* A step of p leaves the others alone, but for the history of Begin.
LEMMA OthersKept ==
    ASSUME TypeOK, NEW p \in Procs, NEW q \in Procs \ {p}, Step(p) \/ Crash(p)
    PROVE  pc'[q] = pc[q] /\ walk'[q] = walk[q]
<1>0. walk \in [Procs -> Walks] /\ pc \in [Procs -> Points]
  BY DEF TypeOK
<1>1. CASE Return(p)
  BY <1>0, <1>1 DEF Return
<1>2. CASE ReadState(p) \/ MarkAttempt(p) \/ Reconcile(p)
  BY <1>0, <1>2 DEF ReadState, MarkAttempt, Reconcile
<1>3. CASE Fetch(p) \/ StorePage(p)
  BY <1>0, <1>3 DEF Fetch, StorePage
<1>4. CASE StopAtCap(p) \/ ReachEnd(p) \/ NextPage(p) \/ ReconcileFails(p)
  BY <1>0, <1>4 DEF StopAtCap, ReachEnd, NextPage, ReconcileFails
<1> QED BY <1>1, <1>2, <1>3, <1>4
        DEF Step, FetchFails, StoreFails, Finish, Crash

LEMMA OthersWalk ==
    ASSUME TypeOK, NEW p \in Procs, NEW q \in Procs \ {p},
           Step(p) \/ Crash(p) \/ \E o \in Options : Begin(p, o)
    PROVE  pc'[q] = pc[q] /\ SameWalk(walk'[q], walk[q])
<1>0. walk \in [Procs -> Walks] /\ pc \in [Procs -> Points] /\ walk[q] \in Walks
  BY DEF TypeOK
<1>1. ASSUME NEW o \in Options, Begin(p, o)
      PROVE  pc'[q] = pc[q] /\ SameWalk(walk'[q], walk[q])
  BY <1>0, <1>1 DEF Begin, SameWalk, Walks
<1>2. ASSUME Step(p) \/ Crash(p) PROVE pc'[q] = pc[q] /\ walk'[q] = walk[q]
  BY <1>2, OthersKept
<1> QED BY <1>1, <1>2 DEF SameWalk

LEMMA OwnRemote ==
    ASSUME NEW p \in Procs,
           Step(p) \/ Crash(p) \/ \E o \in Options : Begin(p, o)
    PROVE  UNCHANGED <<ver, mod, pos, clock>>
  BY DEF Step, Begin, ReadState, MarkAttempt, Fetch, FetchFails, StorePage,
     StoreFails, StopAtCap, ReachEnd, NextPage, Reconcile, ReconcileFails, Finish,
     Crash, remoteVars

LEMMA WalkBegin ==
    ASSUME TypeOK, NEW p \in Procs, NEW o \in Options, Begin(p, o)
    PROVE  WalkInv(p)'
<1>1. pc'[p] = "queued" /\ walk'[p] = [NoWalk EXCEPT !.alone = Quiet(p)]
  BY DEF Begin, TypeOK
<1> QED BY <1>1 DEF WalkInv, QueuedInv, TouchedInv, PassedInv, PageInv,
                    CompleteInv, CoverInv, Active, NoWalk

LEMMA WalkStep == SyncInv /\ [Next]_vars => SyncInv'
<1> SUFFICES ASSUME SyncInv, [Next]_vars PROVE SyncInv'
  OBVIOUS
<1>0. TypeOK /\ TimeInv /\ TypeOK' /\ TimeInv'
  BY TypeStep, TimeStep DEF SyncInv
<1>1. ASSUME NEW q \in Procs PROVE WalkInv(q)'
  <2>0. WalkInv(q)
    BY DEF SyncInv
  <2>1. CASE UNCHANGED vars \/ Tick
    BY <2>0, <2>1, WalkFrame DEF vars, Tick, remoteVars, SameWalk
  <2>2. ASSUME NEW r \in Rows, Create(r) \/ Modify(r) PROVE WalkInv(q)'
    BY <2>0, <2>2, <1>0, WalkChange
  <2>3. ASSUME NEW r \in Rows, Delete(r) PROVE WalkInv(q)'
    BY <2>0, <2>3, <1>0, WalkDelete
  <2>4. ASSUME NEW p \in Procs \ {q},
               Step(p) \/ Crash(p) \/ \E o \in Options : Begin(p, o)
        PROVE  WalkInv(q)'
    <3>1. pc'[q] = pc[q] /\ SameWalk(walk'[q], walk[q])
      BY <2>4, <1>0, OthersWalk
    <3>2. UNCHANGED <<ver, mod, pos>>
      BY <2>4, OwnRemote
    <3> QED BY <2>0, <3>1, <3>2, WalkFrame
  <2>5. ASSUME NEW o \in Options, Begin(q, o) PROVE WalkInv(q)'
    BY <2>5, <1>0, WalkBegin
  <2>6. ASSUME Return(q) PROVE WalkInv(q)'
    BY <2>6, <1>0, WalkIdle DEF Return, TypeOK
  <2>7. ASSUME Step(q) \/ Crash(q) PROVE WalkInv(q)'
    BY <2>0, <2>6, <2>7, <1>0, WalkRead, WalkFetch, WalkStore, WalkNext, WalkEnd
       DEF Step, FetchFails, StoreFails, Finish, Crash
  <2> QED BY <2>1, <2>2, <2>3, <2>4, <2>5, <2>7 DEF Next, Remote
<1> QED BY <1>0, <1>1 DEF SyncInv

\* What PrunesOnlyGone says of one step.
Explained ==
    \A r \in Removed \cap live :
        \E p \in Procs : /\ pc[p] = "reconcile"
                         /\ \/ r \in walk[p].touched \cup walk[p].passed
                            \/ walk[p].shrunk
                            \/ walk[p].since # 0
                            \/ walk[p].start # 0

LEMMA PruneStep == SyncInv /\ [Next]_vars => [Explained]_vars
<1> SUFFICES ASSUME SyncInv, Next, NEW r \in live, local[r] # 0, local'[r] = 0
             PROVE  \E p \in Procs : /\ pc[p] = "reconcile"
                                     /\ \/ r \in walk[p].touched \cup walk[p].passed
                                        \/ walk[p].shrunk
                                        \/ walk[p].since # 0
                                        \/ walk[p].start # 0
  BY DEF Explained, Removed
<1>0. r \in Rows
  BY DEF live
<1>1. \A p \in Procs : \A rows \in SUBSET Items(walk[p].page) :
         local' # Stored(walk[p].page, rows)
  BY <1>0 DEF Stored, Items
<1>2. local' # local
  OBVIOUS
<1>3. PICK p \in Procs : Reconcile(p)
  <2>1. ASSUME Remote PROVE FALSE
    BY <1>2, <2>1 DEF Remote, Tick, Create, Modify, Delete
  <2>2. ASSUME NEW p \in Procs, NEW o \in Options, Begin(p, o) PROVE FALSE
    BY <1>2, <2>2 DEF Begin
  <2>3. ASSUME NEW p \in Procs, StorePage(p) \/ StoreFails(p) PROVE FALSE
    BY <1>1, <1>2, <2>3 DEF StorePage, StoreFails
  <2>4. ASSUME NEW p \in Procs, Crash(p) PROVE FALSE
    BY <1>2, <2>4 DEF Crash
  <2>5. ASSUME NEW p \in Procs, Step(p) PROVE Reconcile(p)
    BY <1>2, <2>3, <2>5 DEF Step, ReadState, MarkAttempt, Fetch, FetchFails,
       StopAtCap, ReachEnd, NextPage, ReconcileFails, Finish
  <2> QED BY <2>1, <2>2, <2>4, <2>5 DEF Next
<1>4. pc[p] = "reconcile" /\ r \notin walk[p].seen
  BY <1>0, <1>3 DEF Reconcile
<1>5. mod[r] >= 1
  BY DEF SyncInv, TimeInv
<1>6. walk[p].since = 0 => r \in Window(walk[p].since)
  <2>1. mod[r] \in Nat
    BY <1>0, BoundsAssumption DEF SyncInv, TypeOK
  <2> QED BY <1>5, <2>1 DEF Window
<1>7. walk[p].start = 0 /\ ~walk[p].shrunk =>
         r \notin Settled(p)
  BY <1>4 DEF SyncInv, WalkInv, CoverInv, Reached, Active
<1> QED BY <1>4, <1>6, <1>7 DEF Settled

\* PrunesOnlyGone: whatever the collection, the flags, the faults and the
\* number of processes, deletion mirroring removes a row the API still returns
\* only if the row was changed, a changed row moved behind it or the listing
\* shrank while the walk paged, or the walk was narrowed or did not start at the
\* first offset, in whichever order the endpoint lists its rows (syncResource's
\* reconcile gate over the seen ids of the walk, reconcileUnseen).
THEOREM PruneExplained == Spec => PrunesOnlyGone
<1>1. Init => SyncInv
  BY InitInv
<1>2. SyncInv /\ [Next]_vars => [Explained]_vars
  BY PruneStep
<1> QED BY <1>1, <1>2, WalkStep, PTL DEF Spec, PrunesOnlyGone, Explained

-----------------------------------------------------------------------------
(* The watermark is sound but for the recorded causes.                      *)

\* An own step other than Begin of another process finds it not alone.
LEMMA NotAlone ==
    ASSUME NEW p \in Procs, NEW q \in Procs \ {p}, LoneInv(q), pc[p] # "idle"
    PROVE  ~walk[q].alone
  BY DEF LoneInv, Quiet

\* The own steps of p that stay within the run keep who runs and the flags.
LEMMA LoneFrame ==
    ASSUME TypeOK, NEW p \in Procs, LoneInv(p), pc[p] # "idle", pc'[p] # "idle",
           \A q \in Procs \ {p} : pc'[q] = pc[q],
           opt' = opt, st'.wm = st.wm, Active(p),
           walk'[p].alone = walk[p].alone, walk'[p].req = walk[p].req,
           walk'[p].base = walk[p].base
    PROVE  LoneInv(p)'
  BY DEF LoneInv, Quiet, Active

\* Rows held by the walk or the store, before and after StorePage.
LEMMA StoredRow ==
    ASSUME TypeOK, NEW p \in Procs, NEW rows \in SUBSET Items(walk[p].page),
           local' = Stored(walk[p].page, rows), PageInv(p), Active(p),
           NEW r \in live \ walk[p].touched
    PROVE  /\ r \in rows => local'[r] = ver[r]
           /\ local[r] = ver[r] => local'[r] = ver[r]
  BY DEF PageInv, Stored, Items, live

\* While p runs, what it finds unchanged up to the watermark stays so: a page
\* that overwrites a row holds its present version or one newer than the
\* watermark.
LEMMA StoreSound ==
    ASSUME SyncInv, NEW p \in Procs, LoneInv(p), walk[p].alone, Active(p),
           WatermarkSound, NEW rows \in SUBSET Items(walk[p].page),
           local' = Stored(walk[p].page, rows), UNCHANGED <<ver, mod, pos, st>>
    PROVE  WatermarkSound'
<1> SUFFICES ASSUME NEW r \in live, mod[r] <= st.wm PROVE local'[r] = ver[r]
  BY SameRemote DEF WatermarkSound
<1>1. local[r] = ver[r]
  BY DEF WatermarkSound
<1>2. r \notin walk[p].touched
  <2>1. st.wm < walk[p].req
    BY DEF LoneInv
  <2>2. r \in walk[p].touched => walk[p].req <= mod[r]
    BY DEF SyncInv, WalkInv, TouchedInv
  <2>3. st.wm \in Nat /\ walk[p].req \in Nat /\ mod[r] \in Nat
    BY BoundsAssumption DEF SyncInv, TypeOK, SyncStates, Walks, live
  <2> QED BY <2>1, <2>2, <2>3
<1> QED BY <1>1, <1>2, StoredRow DEF SyncInv, WalkInv

\* A clean complete walk has every change up to the second before it began.
LEMMA FinishSound ==
    ASSUME SyncInv, NEW p \in Procs, SeenInv(p), LoneInv(p), LagHasACause,
           Finish(p), walk[p].complete, walk[p].alone, CausesOf(p) = {},
           walk[p].since = 0 \/ causes = {}
    PROVE  WatermarkSound'
<1>1. /\ walk[p].start = 0 /\ ~walk[p].shrunk
      /\ ~(walk[p].since > walk[p].base)
      /\ walk[p].passed \subseteq walk[p].seen
  BY DEF CausesOf
<1>2. /\ UNCHANGED <<ver, mod, pos, local>> /\ pc[p] = "finish"
      /\ st'.wm = walk[p].req - 1
  BY DEF Finish, SaveSyncStateAt, Watermark, remoteVars
<1>3. Active(p) /\ 1 <= walk[p].req
  BY <1>2 DEF Active, SyncInv, TimeInv
<1> SUFFICES ASSUME NEW r \in live, mod[r] <= walk[p].req - 1
             PROVE  local[r] = ver[r]
  BY <1>2, SameRemote DEF WatermarkSound
<1>4. /\ mod[r] \in Nat /\ mod[r] >= 1 /\ walk[p].req \in Nat
      /\ walk[p].since \in Nat /\ walk[p].base \in Nat /\ st.wm \in Nat
  BY BoundsAssumption DEF SyncInv, TimeInv, TypeOK, Walks, SyncStates, live
<1>5. r \notin walk[p].touched
  BY <1>3, <1>4 DEF SyncInv, WalkInv, TouchedInv
<1>6. CASE mod[r] > walk[p].since
  <2>1. r \in walk[p].passed \/ r \in Settled(p)
    BY <1>5, <1>6 DEF Settled, Window
  <2>2. r \in walk[p].seen
    BY <1>1, <1>2, <1>3, <2>1 DEF SyncInv, WalkInv, CoverInv, Reached
  <2> QED BY <1>3, <1>5, <2>2 DEF SeenInv
<1>7. CASE ~(mod[r] > walk[p].since)
  <2>1. walk[p].since # 0 /\ walk[p].base # 0 /\ mod[r] <= walk[p].base
    BY <1>1, <1>4, <1>7
  <2>2. walk[p].base = st.wm
    BY <1>3, <2>1 DEF LoneInv
  <2> QED BY <2>1, <2>2 DEF LagHasACause, WatermarkSound
<1> QED BY <1>6, <1>7

\* The part of the invariant about one process, step by step.
SoleInv(p) == SeenInv(p) /\ LoneInv(p)

LEMMA SoleRemote ==
    ASSUME SyncInv, NEW p \in Procs, SoleInv(p), Remote
    PROVE  SoleInv(p)'
<1>0. pc' = pc /\ opt' = opt /\ st' = st /\ local' = local /\ Quiet(p)' = Quiet(p)
  BY DEF Remote, Tick, Create, Modify, Delete, Quiet
<1>1. /\ walk'[p].alone = walk[p].alone /\ walk'[p].req = walk[p].req
      /\ walk'[p].base = walk[p].base /\ walk'[p].seen = walk[p].seen
      /\ walk[p].touched \subseteq walk'[p].touched
  BY RemoteWalk DEF SyncInv
<1>2. LoneInv(p)'
  BY <1>0, <1>1 DEF SoleInv, LoneInv, Active
<1>3. \A r \in live' \ walk'[p].touched :
         Active(p) => r \in live /\ ver'[r] = ver[r]
  <2>1. CASE Tick
    BY <2>1 DEF Tick, remoteVars, live
  <2>2. ASSUME NEW q \in Rows, Create(q) \/ Modify(q)
        PROVE  \A r \in live' \ walk'[p].touched :
                  Active(p) => r \in live /\ ver'[r] = ver[r]
    <3>1. Active(p) => q \in walk'[p].touched
      BY <2>2, TouchNoted DEF SyncInv
    <3>2. live' = live \cup {q} /\ \A r \in Rows \ {q} : ver'[r] = ver[r]
      BY <2>2, RemoteEffect DEF SyncInv
    <3> QED BY <3>1, <3>2 DEF live
  <2>3. ASSUME NEW q \in Rows, Delete(q)
        PROVE  \A r \in live' : r \in live /\ ver'[r] = ver[r]
    BY <2>3 DEF Delete, live, SyncInv, TypeOK, Versions
  <2> QED BY <2>1, <2>2, <2>3 DEF Remote
<1>4. SeenInv(p)'
  BY <1>0, <1>1, <1>3 DEF SoleInv, SeenInv, Active
<1> QED BY <1>2, <1>4 DEF SoleInv

LEMMA SoleBegin ==
    ASSUME SyncInv, NEW p \in Procs, NEW q \in Procs, SoleInv(q),
           NEW o \in Options, Begin(p, o)
    PROVE  SoleInv(q)'
<1>0. walk \in [Procs -> Walks] /\ pc \in [Procs -> Points]
      /\ opt \in [Procs -> OptionRecords]
  BY DEF SyncInv, TypeOK
<1>1. CASE q # p
  <2>1. ~walk'[q].alone
    BY <1>0, <1>1 DEF Begin, Walks
  <2> QED BY <2>1 DEF SoleInv, SeenInv, LoneInv
<1>2. CASE q = p
  <2>1. /\ walk'[p].alone = Quiet(p) /\ pc'[p] = "queued"
        /\ \A x \in Procs \ {p} : pc'[x] = pc[x]
        /\ opt'[p].full => st'.wm = 0
    BY <1>0 DEF Begin, NoWalk, SaveSyncStateAt
  <2> QED BY <1>2, <2>1 DEF SoleInv, SeenInv, LoneInv, Quiet, Active
<1> QED BY <1>1, <1>2

LEMMA SoleOther ==
    ASSUME SyncInv, NEW p \in Procs, NEW q \in Procs \ {p}, SoleInv(q),
           Step(p) \/ Crash(p)
    PROVE  SoleInv(q)'
<1>1. pc[p] # "idle"
  BY DEF Step, ReadState, MarkAttempt, Fetch, FetchFails, StorePage, StoreFails,
     StopAtCap, ReachEnd, NextPage, Reconcile, ReconcileFails, Finish, Crash
<1>2. ~walk[q].alone
  BY <1>1, NotAlone DEF SoleInv
<1>3. walk'[q] = walk[q]
  BY OthersKept DEF SyncInv
<1> QED BY <1>2, <1>3 DEF SoleInv, SeenInv, LoneInv

LEMMA SoleReturn ==
    ASSUME SyncInv, NEW p \in Procs, Return(p)
    PROVE  SoleInv(p)'
<1>1. walk'[p] = NoWalk
  BY DEF Return, SyncInv, TypeOK
<1> QED BY <1>1 DEF SoleInv, SeenInv, LoneInv, NoWalk

LEMMA SoleRead ==
    ASSUME SyncInv, NEW p \in Procs, SoleInv(p), ReadState(p)
    PROVE  SoleInv(p)'
<1>1. /\ walk'[p].alone = walk[p].alone /\ walk'[p].seen = walk[p].seen
      /\ walk'[p].req = clock /\ walk'[p].base \in {0, st.wm}
      /\ pc[p] = "queued" /\ pc'[p] = "read" /\ st' = st /\ opt' = opt
      /\ \A q \in Procs \ {p} : pc'[q] = pc[q]
  <2>1. walk[p] \in Walks /\ walk \in [Procs -> Walks] /\ pc \in [Procs -> Points]
    BY DEF SyncInv, TypeOK
  <2> QED BY <2>1 DEF ReadState, Walks
<1>2. walk[p].seen = {}
  BY <1>1 DEF SyncInv, WalkInv, QueuedInv
<1>3. st.wm < clock
  BY DEF SyncInv, TimeInv
<1> QED BY <1>1, <1>2, <1>3 DEF SoleInv, SeenInv, LoneInv, Quiet

LEMMA SoleStore ==
    ASSUME SyncInv, NEW p \in Procs, SoleInv(p), StorePage(p)
    PROVE  SoleInv(p)'
<1>1. /\ walk'[p].seen = walk[p].seen \cup Items(walk[p].page)
      /\ walk'[p].alone = walk[p].alone /\ walk'[p].touched = walk[p].touched
      /\ walk'[p].req = walk[p].req /\ walk'[p].base = walk[p].base
      /\ pc[p] = "fetched" /\ pc'[p] = "stored" /\ st' = st /\ opt' = opt
      /\ \A q \in Procs \ {p} : pc'[q] = pc[q]
      /\ UNCHANGED <<ver, mod, pos>>
  <2>1. walk[p] \in Walks /\ walk \in [Procs -> Walks] /\ pc \in [Procs -> Points]
    BY DEF SyncInv, TypeOK
  <2> QED BY <2>1 DEF StorePage, SeenSoFar, Walks, remoteVars
<1>2. Active(p)
  BY <1>1 DEF Active
<1>3. LoneInv(p)'
  BY <1>1, <1>2, LoneFrame DEF SoleInv, SyncInv
<1>4. \A r \in live \ walk[p].touched :
         /\ r \in Items(walk[p].page) => local'[r] = ver[r]
         /\ local[r] = ver[r] => local'[r] = ver[r]
  BY <1>2, StoredRow DEF StorePage, SyncInv, WalkInv
<1>5. SeenInv(p)'
  BY <1>1, <1>2, <1>4, SameRemote DEF SoleInv, SeenInv
<1> QED BY <1>3, <1>5 DEF SoleInv

LEMMA SoleEnd ==
    ASSUME SyncInv, NEW p \in Procs, SoleInv(p),
           \/ MarkAttempt(p) \/ Fetch(p) \/ StopAtCap(p) \/ ReachEnd(p)
           \/ NextPage(p) \/ Reconcile(p) \/ ReconcileFails(p)
    PROVE  SoleInv(p)'
<1>0. walk[p] \in Walks /\ walk \in [Procs -> Walks] /\ pc \in [Procs -> Points]
      /\ st \in SyncStates
  BY DEF SyncInv, TypeOK
<1>1. /\ walk'[p].seen = walk[p].seen
      /\ walk'[p].alone = walk[p].alone /\ walk'[p].touched = walk[p].touched
      /\ walk'[p].req = walk[p].req /\ walk'[p].base = walk[p].base
  <2>1. CASE MarkAttempt(p) \/ Reconcile(p)
    BY <2>1 DEF MarkAttempt, Reconcile
  <2>2. CASE Fetch(p)
    BY <1>0, <2>2 DEF Fetch, Walks
  <2>3. CASE StopAtCap(p)
    BY <1>0, <2>3 DEF StopAtCap, Walks
  <2>4. CASE NextPage(p)
    BY <1>0, <2>4 DEF NextPage, Walks
  <2>5. CASE ReachEnd(p) \/ ReconcileFails(p)
    BY <1>0, <2>5 DEF ReachEnd, ReconcileFails, Walks
  <2> QED BY <2>1, <2>2, <2>3, <2>4, <2>5
<1>2. /\ Active(p) /\ pc[p] # "idle" /\ pc'[p] # "idle" /\ opt' = opt
      /\ \A q \in Procs \ {p} : pc'[q] = pc[q]
      /\ UNCHANGED <<ver, mod, pos>>
  BY <1>0 DEF MarkAttempt, Fetch, AfterFetch, StopAtCap, ReachEnd, NextPage,
              Reconcile, ReconcileFails, Active, remoteVars
<1>3. st'.wm = st.wm
  BY <1>0 DEF MarkAttempt, Fetch, StopAtCap, ReachEnd, NextPage, Reconcile,
              ReconcileFails, SaveSyncProgress, SyncStates
<1>4. LoneInv(p)'
  BY <1>1, <1>2, <1>3, LoneFrame DEF SoleInv, SyncInv
<1>5. \A r \in walk[p].seen \cap live : local'[r] = local[r]
  BY DEF MarkAttempt, Fetch, StopAtCap, ReachEnd, NextPage, Reconcile,
         ReconcileFails, live
<1>6. SeenInv(p)'
  BY <1>1, <1>2, <1>5, SameRemote DEF SoleInv, SeenInv
<1> QED BY <1>4, <1>6 DEF SoleInv

LEMMA SoleStep ==
    ASSUME SyncInv, \A p \in Procs : SoleInv(p), [Next]_vars
    PROVE  \A p \in Procs : SoleInv(p)'
<1> SUFFICES ASSUME NEW q \in Procs PROVE SoleInv(q)'
  OBVIOUS
<1>1. CASE UNCHANGED vars
  BY <1>1 DEF vars, remoteVars, SoleInv, SeenInv, LoneInv, Active, Quiet, live
<1>2. CASE Remote
  BY <1>2, SoleRemote
<1>3. ASSUME NEW p \in Procs, NEW o \in Options, Begin(p, o) PROVE SoleInv(q)'
  BY <1>3, SoleBegin
<1>4. ASSUME NEW p \in Procs \ {q}, Step(p) \/ Crash(p) PROVE SoleInv(q)'
  BY <1>4, SoleOther
<1>5. ASSUME Step(q) \/ Crash(q) PROVE SoleInv(q)'
  BY <1>5, SoleReturn, SoleRead, SoleStore, SoleEnd
     DEF Step, FetchFails, StoreFails, Finish, Crash
<1> QED BY <1>1, <1>2, <1>3, <1>4, <1>5 DEF Next

\* Who is alone is decided where runs begin and end.
LEMMA AloneStep ==
    ASSUME SyncInv, \A p \in Procs : SoleInv(p), AloneInv, [Next]_vars
    PROVE  AloneInv'
<1> SUFFICES ASSUME causes' = {}, NEW q \in Procs, pc'[q] # "idle"
             PROVE  walk'[q].alone
  BY DEF AloneInv
<1>0. walk \in [Procs -> Walks] /\ pc \in [Procs -> Points] /\ walk[q] \in Walks
  BY DEF SyncInv, TypeOK
<1>1. CASE UNCHANGED vars
  BY <1>1 DEF vars, AloneInv
<1>2. CASE Remote
  <2>1. walk'[q].alone = walk[q].alone
    BY <1>2, RemoteWalk DEF SyncInv
  <2>2. causes' = causes /\ pc' = pc
    BY <1>2 DEF Remote, Tick, Create, Modify, Delete
  <2> QED BY <2>1, <2>2 DEF AloneInv
<1>3. ASSUME NEW p \in Procs, NEW o \in Options, Begin(p, o)
      PROVE  walk'[q].alone
  <2>1. Quiet(p)
    BY <1>3 DEF Begin
  <2>2. q = p
    BY <1>0, <1>3, <2>1 DEF Begin, Quiet
  <2> QED BY <1>0, <1>3, <2>1, <2>2 DEF Begin, NoWalk
<1>4. ASSUME NEW p \in Procs, Step(p) \/ Crash(p) PROVE walk'[q].alone
  <2>1. pc[p] # "idle"
    BY <1>4 DEF Step, ReadState, MarkAttempt, Fetch, FetchFails, StorePage,
       StoreFails, StopAtCap, ReachEnd, NextPage, Reconcile, ReconcileFails,
       Finish, Crash
  <2>2. CASE q # p
    <3>1. pc[q] # "idle"
      BY <1>0, <1>4, <2>2, OthersWalk DEF SyncInv
    <3>2. ~walk[q].alone /\ ~walk[p].alone
      BY <2>1, <2>2, <3>1, NotAlone DEF SoleInv
    <3>3. causes # {}
      BY <2>1, <3>2 DEF AloneInv
    <3> QED BY <1>4, <3>2, <3>3 DEF Step, ReadState, MarkAttempt, Fetch, FetchFails,
            StorePage, StoreFails, StopAtCap, ReachEnd, NextPage, Reconcile,
            ReconcileFails, Finish, Crash
  <2>3. CASE q = p
    <3>1. ~Return(p)
      BY <1>0, <2>3 DEF Return
    <3>2. causes = {}
      BY <1>4, <3>1 DEF Step, ReadState, MarkAttempt, Fetch, FetchFails, StorePage,
         StoreFails, StopAtCap, ReachEnd, NextPage, Reconcile, ReconcileFails,
         Finish, Crash
    <3>3. walk[p].alone
      BY <2>1, <3>2 DEF AloneInv
    <3>4. CASE MarkAttempt(p) \/ Reconcile(p)
      BY <2>3, <3>3, <3>4 DEF MarkAttempt, Reconcile
    <3>9. CASE ReadState(p)
      BY <1>0, <2>3, <3>3, <3>9 DEF ReadState, Walks
    <3>5. CASE Fetch(p)
      BY <1>0, <2>3, <3>3, <3>5 DEF Fetch, Walks
    <3>6. CASE StorePage(p)
      BY <1>0, <2>3, <3>3, <3>6 DEF StorePage, Walks
    <3>7. CASE StopAtCap(p)
      BY <1>0, <2>3, <3>3, <3>7 DEF StopAtCap, Walks
    <3>10. CASE NextPage(p)
      BY <1>0, <2>3, <3>3, <3>10 DEF NextPage, Walks
    <3>8. CASE ReachEnd(p) \/ ReconcileFails(p)
      BY <1>0, <2>3, <3>3, <3>8 DEF ReachEnd, ReconcileFails, Walks
    <3> QED BY <1>4, <3>1, <3>4, <3>5, <3>6, <3>7, <3>8, <3>9, <3>10
            DEF Step, FetchFails, StoreFails, Finish, Crash
  <2> QED BY <2>2, <2>3
<1> QED BY <1>1, <1>2, <1>3, <1>4 DEF Next

\* The step that could leave a change behind the watermark, action by action.
LEMMA LagStep ==
    ASSUME SyncInv, LagInv, [Next]_vars
    PROVE  LagHasACause'
<1> SUFFICES ASSUME causes' = {} PROVE WatermarkSound'
  BY DEF LagHasACause
<1>0. TypeOK /\ TimeInv /\ st.wm \in Nat /\ clock \in Nat
      /\ \A r \in live : mod[r] \in Nat /\ mod[r] >= 1
  BY BoundsAssumption DEF SyncInv, TimeInv, TypeOK, SyncStates, live
<1>1. CASE UNCHANGED vars
  BY <1>1 DEF vars, remoteVars, LagInv, LagHasACause, WatermarkSound, live
<1>2. CASE Remote
  <2>0. causes = {} /\ local' = local /\ st' = st
    BY <1>2 DEF Remote, Tick, Create, Modify, Delete
  <2>1. WatermarkSound
    BY <2>0 DEF LagInv, LagHasACause
  <2>2. CASE Tick
    BY <2>0, <2>1, <2>2 DEF Tick, remoteVars, WatermarkSound, live
  <2>3. ASSUME NEW q \in Rows, Create(q) \/ Modify(q) PROVE WatermarkSound'
    <3>1. /\ mod'[q] = clock /\ live' = live \cup {q}
          /\ \A r \in Rows \ {q} : ver'[r] = ver[r] /\ mod'[r] = mod[r]
      BY <2>3, <1>0, RemoteEffect
    <3>2. ~(clock <= st.wm)
      BY <1>0 DEF TimeInv
    <3> QED BY <2>0, <2>1, <3>1, <3>2 DEF WatermarkSound, live
  <2>4. ASSUME NEW q \in Rows, Delete(q) PROVE WatermarkSound'
    BY <2>0, <2>1, <2>4, <1>0 DEF Delete, WatermarkSound, live, TypeOK, Versions
  <2> QED BY <1>2, <2>2, <2>3, <2>4 DEF Remote
<1>3. ASSUME NEW p \in Procs, NEW o \in Options, Begin(p, o)
      PROVE  WatermarkSound'
  <2>1. UNCHANGED <<ver, mod, pos, local>> /\ causes = {}
    BY <1>3 DEF Begin, remoteVars
  <2>2. st' = st \/ st'.wm = 0
    BY <1>3 DEF Begin, SaveSyncStateAt
  <2>3. WatermarkSound
    BY <2>1 DEF LagInv, LagHasACause
  <2> QED BY <1>0, <2>1, <2>2, <2>3, SameRemote DEF WatermarkSound
<1>4. ASSUME NEW p \in Procs, Step(p) \/ Crash(p) PROVE WatermarkSound'
  <2>0. pc[p] # "idle" /\ SeenInv(p) /\ LoneInv(p) /\ LagHasACause
    BY <1>4 DEF LagInv, Step, ReadState, MarkAttempt, Fetch, FetchFails, StorePage,
       StoreFails, StopAtCap, ReachEnd, NextPage, Reconcile, ReconcileFails,
       Finish, Crash
  <2>1. causes = {} => walk[p].alone /\ WatermarkSound
    BY <2>0 DEF LagInv, AloneInv, LagHasACause
  <2>2. UNCHANGED <<ver, mod, pos>>
    BY <1>4, OwnRemote
  <2>3. ASSUME Finish(p), walk[p].complete PROVE WatermarkSound'
    <3>1. /\ CausesOf(p) = {} /\ walk[p].alone
          /\ walk[p].since = 0 \/ causes = {}
      BY <2>1, <2>3 DEF Finish
    <3> QED BY <2>0, <2>3, <3>1, FinishSound
  <2>4. ASSUME StorePage(p) \/ StoreFails(p), local' # local PROVE WatermarkSound'
    <3>1. causes = {} /\ Active(p) /\ st' = st
      BY <2>4 DEF StorePage, StoreFails, Active
    <3>2. PICK rows \in SUBSET Items(walk[p].page) :
             local' = Stored(walk[p].page, rows)
      BY <2>4 DEF StorePage, StoreFails
    <3> QED BY <2>0, <2>1, <2>2, <3>1, <3>2, StoreSound
  <2>5. ASSUME Reconcile(p) PROVE WatermarkSound'
    <3>1. opt[p].full \/ local' = local
      <4>1. local \in [Rows -> 0..MaxVer]
        BY <1>0 DEF TypeOK, Versions
      <4> QED BY <2>5, <4>1 DEF Reconcile, Prune
    <3>2. causes = {} /\ st' = st
      BY <2>5 DEF Reconcile
    <3>3. opt[p].full => st.wm = 0
      BY <2>0, <2>1, <3>2 DEF LoneInv
    <3> QED BY <1>0, <2>1, <2>2, <3>1, <3>2, <3>3, SameRemote DEF WatermarkSound
  <2>6. ASSUME local' = local, st'.wm = st.wm, causes = {} PROVE WatermarkSound'
    BY <2>1, <2>2, <2>6, SameRemote DEF WatermarkSound
  <2>7. \A n : SaveSyncProgress(n) => st'.wm = st.wm
    BY <1>0 DEF SaveSyncProgress, TypeOK, SyncStates
  <2>8. ASSUME Finish(p), ~walk[p].complete PROVE WatermarkSound'
    BY <2>6, <2>7, <2>8 DEF Finish
  <2>9. CASE \/ ReadState(p) \/ MarkAttempt(p) \/ Fetch(p) \/ FetchFails(p)
             \/ StopAtCap(p) \/ ReachEnd(p) \/ NextPage(p) \/ ReconcileFails(p)
             \/ Crash(p)
    BY <2>6, <2>7, <2>9 DEF ReadState, MarkAttempt, Fetch, FetchFails, StopAtCap,
       ReachEnd, NextPage, ReconcileFails, Crash
  <2>10. ASSUME StorePage(p) \/ StoreFails(p), local' = local
         PROVE  WatermarkSound'
    BY <2>6, <2>10 DEF StorePage, StoreFails
  <2> QED BY <1>4, <2>3, <2>4, <2>5, <2>8, <2>9, <2>10 DEF Step
<1> QED BY <1>1, <1>2, <1>3, <1>4 DEF Next

LEMMA SyncStepKept ==
    ASSUME SyncInv, LagInv, [Next]_vars
    PROVE  SyncInv' /\ LagInv'
<1>1. \A p \in Procs : SoleInv(p)
  BY DEF LagInv, SoleInv
<1>2. \A p \in Procs : SoleInv(p)'
  BY <1>1, SoleStep
<1>3. AloneInv'
  BY <1>1, AloneStep DEF LagInv
<1> QED BY <1>2, <1>3, WalkStep, LagStep DEF LagInv, SoleInv

\* LagHasACause: whatever the collection, the flags, the faults, the kills and
\* the number of processes, a change the watermark claims is missing from the
\* mirror only after a resumed walk, an explicit --since newer than the
\* watermark, a remote deletion under the walk, a change that moved a row behind
\* one the walk then never saw, or two sync processes overlapping; and a clean
\* whole walk makes it whole again.  It holds for each order the endpoints are
\* listed in (syncResource, syncResourceParamDefaults).
THEOREM LagExplained == Spec => []LagHasACause
<1>1. Init => SyncInv /\ LagInv
  BY InitInv
<1>2. SyncInv /\ LagInv /\ [Next]_vars => (SyncInv /\ LagInv)'
  BY SyncStepKept
<1>3. SyncInv /\ LagInv => LagHasACause
  BY DEF LagInv
<1> QED BY <1>1, <1>2, <1>3, PTL DEF Spec

-----------------------------------------------------------------------------
(* A full run that nothing disturbs leaves the mirror equal to the API.      *)

\* A lone full run starts at the first offset: it has cleared the cursor.
StartInv(p) ==
    walk[p].alone /\ opt[p].full =>
        /\ pc[p] = "queued" => st.cursor = 0
        /\ Active(p) => walk[p].start = 0

\* What a walk holds is there as long as nothing was deleted.
HeldInv(p) ==
    Active(p) /\ ~walk[p].shrunk =>
        walk[p].seen \cup Items(walk[p].page) \subseteq live

\* A lone full walk of everything that nothing changed under.
Undisturbed(p) ==
    /\ walk[p].complete /\ Prune(p) /\ walk[p].since = 0 /\ walk[p].alone
    /\ walk[p].touched = {} /\ ~walk[p].shrunk

\* Once it has pruned, nothing but what it saw is stored.
CleanInv(p) ==
    pc[p] = "finish" /\ Undisturbed(p) =>
        \A r \in Rows \ walk[p].seen : local[r] = 0

ExactInv == \A p \in Procs : StartInv(p) /\ HeldInv(p) /\ CleanInv(p)

LEMMA ExactInit == Init => ExactInv
  BY DEF Init, ExactInv, StartInv, HeldInv, CleanInv, Active

\* At the end of such a walk every row of the API has been seen.
LEMMA AllSeen ==
    ASSUME SyncInv, NEW p \in Procs, StartInv(p), pc[p] = "finish", Undisturbed(p)
    PROVE  live \subseteq walk[p].seen
<1> SUFFICES ASSUME NEW r \in live PROVE r \in walk[p].seen
  OBVIOUS
<1>1. mod[r] \in Nat /\ mod[r] >= 1
  BY BoundsAssumption DEF SyncInv, TimeInv, TypeOK, live
<1>2. r \in Settled(p)
  <2>1. walk[p].passed = {}
    BY DEF SyncInv, WalkInv, PassedInv, Undisturbed, Active
  <2> QED BY <1>1, <2>1 DEF Settled, Window, Undisturbed
<1>3. walk[p].start = 0
  BY DEF StartInv, Undisturbed, Prune, Active
<1> QED BY <1>2, <1>3 DEF SyncInv, WalkInv, CoverInv, Reached, Active, Undisturbed

LEMMA ExactRemote ==
    ASSUME SyncInv, ExactInv, Remote
    PROVE  ExactInv'
<1> SUFFICES ASSUME NEW p \in Procs
             PROVE  StartInv(p)' /\ HeldInv(p)' /\ CleanInv(p)'
  BY DEF ExactInv
<1>0. pc' = pc /\ opt' = opt /\ st' = st /\ local' = local /\ walk[p] \in Walks
  BY DEF Remote, Tick, Create, Modify, Delete, SyncInv, TypeOK
<1>1. /\ walk'[p].alone = walk[p].alone /\ walk'[p].start = walk[p].start
      /\ walk'[p].seen = walk[p].seen /\ walk'[p].page = walk[p].page
      /\ walk'[p].complete = walk[p].complete /\ walk'[p].since = walk[p].since
      /\ walk[p].touched \subseteq walk'[p].touched
      /\ walk[p].shrunk => walk'[p].shrunk
  BY RemoteWalk DEF SyncInv
<1>2. StartInv(p)'
  BY <1>0, <1>1 DEF ExactInv, StartInv, Active
<1>3. CleanInv(p)'
  BY <1>0, <1>1 DEF ExactInv, CleanInv, Undisturbed, Prune
<1>4. HeldInv(p)'
  <2>1. CASE Tick
    BY <1>0, <1>1, <2>1 DEF Tick, remoteVars, live, ExactInv, HeldInv, Active, Items
  <2>2. ASSUME NEW q \in Rows, Create(q) \/ Modify(q) PROVE HeldInv(p)'
    <3>1. live' = live \cup {q}
      BY <2>2, RemoteEffect DEF SyncInv
    <3> QED BY <1>0, <1>1, <3>1 DEF ExactInv, HeldInv, Active, Items
  <2>3. ASSUME NEW q \in Rows, Delete(q), Active(p) PROVE walk'[p].shrunk
    BY <1>0, <2>3 DEF Delete, Active, Walks
  <2>4. ASSUME NEW q \in Rows, Delete(q) PROVE HeldInv(p)'
    BY <1>0, <2>3, <2>4 DEF HeldInv, Active
  <2> QED BY <1>0, <2>1, <2>2, <2>4 DEF Remote
<1> QED BY <1>2, <1>3, <1>4

\* A step of another process: it finds p not alone, or ends its being alone.
LEMMA ExactOther ==
    ASSUME SyncInv, LagInv, NEW q \in Procs, NEW p \in Procs \ {q},
           StartInv(p), HeldInv(p), CleanInv(p),
           Step(q) \/ Crash(q) \/ \E o \in Options : Begin(q, o)
    PROVE  StartInv(p)' /\ HeldInv(p)' /\ CleanInv(p)'
<1>1. pc'[p] = pc[p] /\ SameWalk(walk'[p], walk[p])
  BY OthersWalk DEF SyncInv
<1>2. UNCHANGED <<ver, mod, pos>> /\ live' = live
  BY OwnRemote, SameRemote
<1>3. HeldInv(p)'
  BY <1>1, <1>2 DEF HeldInv, SameWalk, Active, Items
<1>4. ~walk'[p].alone
  <2>1. CASE \E o \in Options : Begin(q, o)
    <3>1. walk[p] \in Walks
      BY DEF SyncInv, TypeOK
    <3> QED BY <2>1, <3>1 DEF Begin, Walks
  <2>2. CASE Step(q) \/ Crash(q)
    <3>1. pc[q] # "idle"
      BY <2>2 DEF Step, ReadState, MarkAttempt, Fetch, FetchFails, StorePage, StoreFails,
         StopAtCap, ReachEnd, NextPage, Reconcile, ReconcileFails, Finish, Crash
    <3>2. ~walk[p].alone
      BY <3>1, NotAlone DEF LagInv
    <3> QED BY <2>2, <3>2, OthersKept DEF SyncInv
  <2> QED BY <2>1, <2>2
<1> QED BY <1>3, <1>4 DEF StartInv, CleanInv, Undisturbed

LEMMA ExactBegin ==
    ASSUME TypeOK, NEW p \in Procs, NEW o \in Options, Begin(p, o)
    PROVE  StartInv(p)' /\ HeldInv(p)' /\ CleanInv(p)'
<1>1. pc'[p] = "queued" /\ opt'[p] = o
  BY DEF Begin, TypeOK
<1>2. o.full => st'.cursor = 0
  BY DEF Begin, SaveSyncStateAt
<1> QED BY <1>1, <1>2 DEF StartInv, HeldInv, CleanInv, Active

LEMMA ExactReturn ==
    ASSUME TypeOK, NEW p \in Procs, Return(p)
    PROVE  StartInv(p)' /\ HeldInv(p)' /\ CleanInv(p)'
<1>1. pc'[p] = "idle"
  BY DEF Return, TypeOK
<1> QED BY <1>1 DEF StartInv, HeldInv, CleanInv, Active

\* The steps of p itself.
LEMMA ExactOwn ==
    ASSUME SyncInv, NEW p \in Procs, Step(p) \/ Crash(p),
           StartInv(p), HeldInv(p), CleanInv(p)
    PROVE  StartInv(p)' /\ HeldInv(p)' /\ CleanInv(p)'
<1>0. /\ walk[p] \in Walks /\ walk \in [Procs -> Walks] /\ pc \in [Procs -> Points]
      /\ opt \in [Procs -> OptionRecords] /\ live' = live /\ live \subseteq Rows
  BY OwnRemote, SameRemote DEF SyncInv, TypeOK, live
<1>1. CASE Return(p)
  BY <1>1, ExactReturn DEF SyncInv
<1>2. CASE ReadState(p)
  <2>1. /\ walk'[p].alone = walk[p].alone /\ walk'[p].start \in {0, st.cursor}
        /\ walk'[p].seen = walk[p].seen /\ walk'[p].page = walk[p].page
        /\ pc[p] = "queued" /\ pc'[p] = "read" /\ opt' = opt
    BY <1>0, <1>2 DEF ReadState, Walks
  <2>2. walk[p].seen = {} /\ walk[p].page = NoPage
    BY <2>1 DEF SyncInv, WalkInv, QueuedInv
  <2> QED BY <2>1, <2>2 DEF StartInv, HeldInv, CleanInv, Active, Items, NoPage
<1>3. CASE MarkAttempt(p) \/ Reconcile(p)
  <2>1. /\ walk' = walk /\ opt' = opt /\ Active(p)
        /\ MarkAttempt(p) => pc'[p] = "fetch"
    BY <1>0, <1>3 DEF MarkAttempt, Reconcile, Active
  <2>2. StartInv(p)' /\ HeldInv(p)'
    <3>1. pc'[p] # "queued"
      BY <1>0, <1>3 DEF MarkAttempt, Reconcile
    <3> QED BY <1>0, <2>1, <3>1 DEF StartInv, HeldInv, Items
  <2>3. CleanInv(p)'
    <3>1. CASE MarkAttempt(p)
      BY <2>1, <3>1 DEF CleanInv
    <3>2. CASE Reconcile(p)
      BY <2>1, <3>2 DEF CleanInv, Undisturbed, Prune, Reconcile
    <3> QED BY <1>3, <3>1, <3>2
  <2> QED BY <2>2, <2>3
<1>4. CASE Fetch(p)
  <2> DEFINE page == PageOf(walk[p].since, walk[p].cursor)
  <2>1. /\ walk'[p].alone = walk[p].alone /\ walk'[p].start = walk[p].start
        /\ walk'[p].seen = walk[p].seen /\ walk'[p].shrunk = walk[p].shrunk
        /\ walk'[p].page = page /\ walk'[p].complete = (page = NoPage)
        /\ pc'[p] = AfterFetch(p, page) /\ pc[p] = "fetch" /\ opt' = opt
    <3>1. /\ walk'[p] = [walk[p] EXCEPT !.page = page, !.complete = (page = NoPage)]
          /\ pc'[p] = AfterFetch(p, page) /\ pc[p] = "fetch" /\ opt' = opt
      BY <1>0, <1>4 DEF Fetch
    <3> HIDE DEF page
    <3> QED BY <1>0, <3>1 DEF Walks
  <2>2. Items(page) \subseteq live
    BY PageItems DEF Listing, Window, SyncInv
  <2> HIDE DEF page
  <2>3. Active(p) /\ pc'[p] # "queued"
    BY <2>1 DEF Active, AfterFetch
  <2>4. pc'[p] = "finish" => page # NoPage
    <3>1. ~FullPage(NoPage)
      <4>1. Items(NoPage) = {}
        BY DEF Items, NoPage
      <4>2. Limit \in Nat /\ Limit >= 1
        BY LimitAssumption
      <4> QED BY <4>1, <4>2, FS_EmptySet DEF FullPage
    <3> QED BY <2>1, <3>1 DEF AfterFetch, Stuck
  <2>5. CleanInv(p)'
    BY <2>1, <2>4 DEF CleanInv, Undisturbed
  <2>6. HeldInv(p)'
    BY <1>0, <2>1, <2>2, <2>3 DEF HeldInv, Items
  <2> QED BY <2>1, <2>3, <2>5, <2>6 DEF StartInv
<1>5. CASE StorePage(p)
  <2>1. /\ walk'[p].alone = walk[p].alone /\ walk'[p].start = walk[p].start
        /\ walk'[p].seen = walk[p].seen \cup Items(walk[p].page)
        /\ walk'[p].shrunk = walk[p].shrunk /\ walk'[p].page = walk[p].page
        /\ pc[p] = "fetched" /\ pc'[p] = "stored" /\ opt' = opt
    BY <1>0, <1>5 DEF StorePage, SeenSoFar, Walks
  <2> QED BY <1>0, <2>1 DEF StartInv, HeldInv, CleanInv, Active, Items
<1>6. CASE StopAtCap(p)
  <2>1. /\ walk'[p].alone = walk[p].alone /\ walk'[p].start = walk[p].start
        /\ walk'[p].seen = walk[p].seen /\ walk'[p].page = walk[p].page
        /\ walk'[p].shrunk = walk[p].shrunk /\ walk'[p].complete = walk[p].complete
        /\ pc[p] = "stored" /\ pc'[p] = "finish" /\ opt' = opt
    BY <1>0, <1>6 DEF StopAtCap, Walks
  <2>2. ~walk[p].complete
    BY <2>1 DEF SyncInv, WalkInv, CompleteInv
  <2> QED BY <1>0, <2>1, <2>2 DEF StartInv, HeldInv, CleanInv, Active, Items, Undisturbed
<1>7. CASE NextPage(p)
  <2>1. /\ walk'[p].alone = walk[p].alone /\ walk'[p].start = walk[p].start
        /\ walk'[p].seen = walk[p].seen /\ walk'[p].page = NoPage
        /\ walk'[p].shrunk = walk[p].shrunk
        /\ pc[p] = "stored" /\ pc'[p] = "fetch" /\ opt' = opt
    BY <1>0, <1>7 DEF NextPage, Walks
  <2> QED BY <1>0, <2>1 DEF StartInv, HeldInv, CleanInv, Active, Items, NoPage
<1>8. CASE ReachEnd(p)
  <2>1. /\ walk'[p].alone = walk[p].alone /\ walk'[p].start = walk[p].start
        /\ walk'[p].seen = walk[p].seen /\ walk'[p].page = walk[p].page
        /\ walk'[p].shrunk = walk[p].shrunk
        /\ pc[p] = "stored" /\ pc'[p] = "reconcile" /\ opt' = opt
    BY <1>0, <1>8 DEF ReachEnd, Walks
  <2> QED BY <1>0, <2>1 DEF StartInv, HeldInv, CleanInv, Active, Items
<1>9. CASE ReconcileFails(p)
  <2>1. /\ walk'[p].alone = walk[p].alone /\ walk'[p].start = walk[p].start
        /\ walk'[p].seen = walk[p].seen /\ walk'[p].page = walk[p].page
        /\ walk'[p].shrunk = walk[p].shrunk /\ ~walk'[p].complete
        /\ pc[p] = "reconcile" /\ pc'[p] = "finish" /\ opt' = opt
    BY <1>0, <1>9 DEF ReconcileFails, Walks
  <2> QED BY <1>0, <2>1 DEF StartInv, HeldInv, CleanInv, Active, Items, Undisturbed
<1> QED BY <1>1, <1>2, <1>3, <1>4, <1>5, <1>6, <1>7, <1>8, <1>9
        DEF Step, FetchFails, StoreFails, Finish, Crash

LEMMA ExactStep ==
    ASSUME SyncInv, LagInv, ExactInv, [Next]_vars
    PROVE  ExactInv'
<1>1. CASE UNCHANGED vars
  BY <1>1 DEF vars, ExactInv, StartInv, HeldInv, CleanInv, Active, Items, live,
     Undisturbed, Prune
<1>2. CASE Remote
  BY <1>2, ExactRemote
<1>3. ASSUME NEW q \in Procs, Step(q) \/ Crash(q) \/ \E o \in Options : Begin(q, o)
      PROVE  ExactInv'
  <2> SUFFICES ASSUME NEW p \in Procs
               PROVE  StartInv(p)' /\ HeldInv(p)' /\ CleanInv(p)'
    BY DEF ExactInv
  <2>1. CASE p # q
    BY <1>3, <2>1, ExactOther DEF ExactInv
  <2>2. CASE p = q
    BY <1>3, <2>2, ExactOwn, ExactBegin DEF ExactInv, SyncInv
  <2> QED BY <2>1, <2>2
<1> QED BY <1>1, <1>2, <1>3 DEF Next

\* What FullWalkIsExact says of one step.
ExactEnd ==
    \A p \in Procs :
        /\ pc[p] = "finish" /\ walk[p].complete /\ pc'[p] = "idle"
        /\ st' # st /\ Prune(p) /\ walk[p].since = 0 /\ walk[p].alone
        /\ walk[p].touched = {} /\ ~walk[p].shrunk
        => local' = ver

LEMMA ExactEnds ==
    ASSUME SyncInv, LagInv, ExactInv, Next
    PROVE  ExactEnd
<1> SUFFICES ASSUME NEW p \in Procs, pc[p] = "finish", pc'[p] = "idle", st' # st,
                    Undisturbed(p)
             PROVE  local' = ver
  BY DEF ExactEnd, Undisturbed
<1>1. local' = local
  <2>1. CASE Remote
    BY <2>1 DEF Remote, Tick, Create, Modify, Delete
  <2>2. ASSUME NEW q \in Procs \ {p},
               Step(q) \/ Crash(q) \/ \E o \in Options : Begin(q, o)
        PROVE  FALSE
    BY <2>2, OthersWalk DEF SyncInv
  <2>3. ASSUME NEW o \in Options PROVE ~Begin(p, o)
    BY DEF Begin
  <2>4. CASE Step(p) \/ Crash(p)
    BY <2>4 DEF Step, ReadState, MarkAttempt, Fetch, FetchFails, StorePage, StoreFails,
       StopAtCap, ReachEnd, NextPage, Reconcile, ReconcileFails, Finish, Crash
  <2> QED BY <2>1, <2>2, <2>3, <2>4 DEF Next
<1>2. local \in [Rows -> 0..MaxVer] /\ ver \in [Rows -> 0..MaxVer]
  BY DEF SyncInv, TypeOK, Versions
<1>3. ASSUME NEW r \in Rows PROVE local[r] = ver[r]
  <2>1. CASE r \in live
    <3>1. r \in walk[p].seen /\ r \notin walk[p].touched
      BY <2>1, AllSeen DEF ExactInv, Undisturbed
    <3> QED BY <2>1, <3>1 DEF LagInv, SeenInv, Active, Undisturbed
  <2>2. CASE r \notin live
    <3>1. r \notin walk[p].seen
      BY <2>2 DEF ExactInv, HeldInv, Active, Undisturbed
    <3> QED BY <2>2, <3>1 DEF ExactInv, CleanInv, live
  <2> QED BY <2>1, <2>2
<1> QED BY <1>1, <1>2, <1>3

\* FullWalkIsExact: a full run that completes on a quiet API, alone on the
\* database, leaves nothing missing, nothing stale and nothing left over,
\* whatever runs were killed before it (syncResource under --full,
\* reconcileUnseen).
THEOREM FullWalkExact == Spec => FullWalkIsExact
<1>1. Init => SyncInv /\ LagInv /\ ExactInv
  BY InitInv, ExactInit
<1>2. SyncInv /\ LagInv /\ ExactInv /\ [Next]_vars => (SyncInv /\ LagInv /\ ExactInv)'
  BY SyncStepKept, ExactStep
<1>3. SyncInv /\ LagInv /\ ExactInv /\ [Next]_vars => [ExactEnd]_vars
  BY ExactEnds
<1> QED BY <1>1, <1>2, <1>3, PTL DEF Spec, FullWalkIsExact, ExactEnd

-----------------------------------------------------------------------------
(* Lookups and mutations write the mirror too.                              *)

\* What a command holds or the cache keeps is no answer about a row that is
\* yet to be created.
Unborn ==
    \A q \in Lookups, r \in Rows \ born : answer[q][r] = 0 /\ cache[q][r] = 0

MirrorInv == SyncInv /\ LagInv /\ MirrorTypeOK /\ Unborn

LEMMA AnswerTypes ==
    ASSUME TypeOK
    PROVE  Answers \subseteq Versions
<1>1. PageOf(0, 0) \in Versions /\ NoPage \in Versions
  BY PageType
<1>2. \A r \in live : [NoPage EXCEPT ![r] = ver[r]] \in Versions
  BY <1>1 DEF TypeOK, Versions, live
<1> QED BY <1>1, <1>2 DEF Answers

\* An answer of the API is its present state of the rows it names.
LEMMA AnswerIsPresent ==
    ASSUME TypeOK, NEW a \in Answers, NEW r \in Rows
    PROVE  a[r] \in {0, ver[r]} /\ (r \notin live => a[r] = 0)
<1>1. CASE a = PageOf(0, 0)
  BY <1>1 DEF PageOf, Listing, Window, live
<1>2. ASSUME NEW s \in live, a = [NoPage EXCEPT ![s] = ver[s]]
      PROVE  a[r] \in {0, ver[r]} /\ (r \notin live => a[r] = 0)
  BY <1>2 DEF NoPage, live
<1> QED BY <1>1, <1>2 DEF Answers

\* The API only moves on: what was no newer than a row stays no newer.
LEMMA AnswerRemote ==
    ASSUME TypeOK, NEW a \in Versions, Remote,
           \A r \in live : a[r] <= ver[r], \A r \in Rows \ born : a[r] = 0
    PROVE  /\ \A r \in live' : a[r] <= ver'[r]
           /\ \A r \in Rows \ born' : a[r] = 0
<1>0. /\ \A r \in Rows : ver[r] \in 0..MaxVer /\ a[r] \in 0..MaxVer
      /\ live \subseteq born /\ ver \in [Rows -> 0..MaxVer]
      /\ MaxVer \in Nat
  BY BoundsAssumption DEF TypeOK, Versions
<1>1. CASE Tick
  BY <1>1 DEF Tick, remoteVars, live
<1>2. ASSUME NEW q \in Rows, Create(q)
      PROVE  /\ \A r \in live' : a[r] <= ver'[r]
             /\ \A r \in Rows \ born' : a[r] = 0
  BY <1>0, <1>2 DEF Create, live
<1>3. ASSUME NEW q \in Rows, Modify(q)
      PROVE  /\ \A r \in live' : a[r] <= ver'[r]
             /\ \A r \in Rows \ born' : a[r] = 0
  BY <1>0, <1>3 DEF Modify, live
<1>4. ASSUME NEW q \in Rows, Delete(q)
      PROVE  /\ \A r \in live' : a[r] <= ver'[r]
             /\ \A r \in Rows \ born' : a[r] = 0
  BY <1>0, <1>4 DEF Delete, live
<1> QED BY <1>1, <1>2, <1>3, <1>4 DEF Remote

\* A step of a sync process is nobody's answer.
LEMMA OwnBorn ==
    ASSUME NEW p \in Procs, Step(p) \/ Crash(p) \/ (\E o \in Options : Begin(p, o))
    PROVE  UNCHANGED <<ver, born>>
  BY DEF Step, ReadState, MarkAttempt, Fetch, FetchFails, StorePage, StoreFails,
     StopAtCap, ReachEnd, NextPage, Reconcile, ReconcileFails, Finish, Crash,
     Begin, remoteVars

LEMMA AnswersNext ==
    ASSUME TypeOK, MirrorTypeOK, Unborn, [Next]_vars, UNCHANGED writerVars
    PROVE  MirrorTypeOK' /\ Unborn'
<1>1. CASE UNCHANGED <<ver, born>>
  BY <1>1 DEF MirrorTypeOK, Unborn, live, writerVars, Versions
<1>2. CASE Remote
  BY <1>2, AnswerRemote DEF MirrorTypeOK, Unborn, writerVars, Versions
<1>3. [Next]_vars => UNCHANGED <<ver, born>> \/ Remote
  BY OwnBorn DEF Next, vars
<1> QED BY <1>1, <1>2, <1>3

\* The step of MirrorNext that writes the mirror.
LEMMA WriteKept ==
    ASSUME MirrorInv, NEW q \in Lookups, WriteThrough(q)
    PROVE  MirrorInv'
<1>0. /\ TypeOK /\ walk \in [Procs -> Walks] /\ answer[q] \in Versions
      /\ UNCHANGED <<ver, mod, pos, born, clock, st, pc, opt, cache>>
      /\ local' = Stored(answer[q], Items(answer[q]))
      /\ live' = live
  BY DEF MirrorInv, SyncInv, TypeOK, MirrorTypeOK, WriteThrough, remoteVars, live
<1>1. NoPage \in Versions
  BY <1>0, PageType
<1>2. MirrorTypeOK' /\ Unborn'
  <2>1. answer' \in [Lookups -> Versions]
    BY <1>1 DEF MirrorInv, MirrorTypeOK, WriteThrough
  <2>2. \A o \in Lookups, r \in Rows : answer'[o][r] \in {0, answer[o][r]}
    BY DEF MirrorInv, MirrorTypeOK, WriteThrough, NoPage
  <2>3. \A r \in live : ver[r] \in Nat /\ r \in Rows
    BY <1>0, BoundsAssumption DEF TypeOK, Versions, live
  <2> QED BY <1>0, <2>1, <2>2, <2>3 DEF MirrorInv, MirrorTypeOK, Unborn
<1>3. /\ walk' \in [Procs -> Walks]
      /\ \A p \in Procs : SameWalk(walk'[p], walk[p])
      /\ \A p \in Procs : walk'[p].alone => walk'[p] = walk[p]
  <2>1. \A w \in Walks : LET v == [w EXCEPT !.alone = FALSE]
                         IN  v \in Walks /\ SameWalk(v, w) /\ ~v.alone
    BY DEF Walks, SameWalk
  <2>2. \A w \in Walks : SameWalk(w, w)
    BY DEF SameWalk
  <2>3. CASE Late(q)
    BY <1>0, <2>1, <2>3 DEF WriteThrough
  <2>4. CASE ~Late(q)
    BY <1>0, <2>2, <2>4 DEF WriteThrough
  <2> QED BY <2>3, <2>4
<1>4. TypeOK'
  <2>1. local' \in Versions
    BY <1>0 DEF TypeOK, Stored, Items, Versions
  <2>2. causes' \subseteq {"resumed", "narrowed", "shrunk", "reordered", "overlap", "late"}
    BY <1>0 DEF WriteThrough, TypeOK
  <2> QED BY <1>0, <1>3, <2>1, <2>2 DEF TypeOK
<1>5. SyncInv'
  <2>1. TimeInv'
    BY <1>0, <1>3 DEF MirrorInv, SyncInv, TimeInv, Active, SameWalk
  <2>2. \A p \in Procs : WalkInv(p)'
    BY <1>0, <1>3, WalkFrame DEF MirrorInv, SyncInv
  <2> QED BY <1>4, <2>1, <2>2 DEF SyncInv
\* A row that is up to date stays so under an answer that is not late.
<1>6. ASSUME ~Late(q), NEW r \in live, local[r] = ver[r]
      PROVE  local'[r] = ver'[r]
  <2>1. /\ r \in Rows /\ answer[q][r] \in Nat /\ ver[r] \in Nat
        /\ answer[q][r] <= ver[r]
    BY <1>0, BoundsAssumption DEF MirrorInv, MirrorTypeOK, TypeOK, Versions, live
  <2>2. r \in Items(answer[q]) => answer[q][r] = ver[r]
    BY <1>6, <2>1 DEF Late
  <2> QED BY <1>0, <1>6, <2>1, <2>2 DEF Stored
<1>7. \A p \in Procs : walk'[p].alone => walk' = walk /\ causes' = causes /\ ~Late(q)
  <2>1. \A w \in Walks : ~[w EXCEPT !.alone = FALSE].alone
    BY DEF Walks
  <2> QED BY <1>0, <2>1 DEF WriteThrough
<1>8. ASSUME NEW p \in Procs PROVE SeenInv(p)' /\ LoneInv(p)'
  <2>1. CASE ~walk'[p].alone
    BY <2>1 DEF SeenInv, LoneInv
  <2>2. CASE walk'[p].alone
    <3>1. walk'[p] = walk[p] /\ ~Late(q)
      BY <1>7, <2>2
    <3>2. SeenInv(p)'
      BY <1>0, <1>6, <3>1 DEF MirrorInv, LagInv, SeenInv, Active
    <3>3. LoneInv(p)'
      BY <1>0, <3>1 DEF MirrorInv, LagInv, LoneInv, Active, Quiet
    <3> QED BY <3>2, <3>3
  <2> QED BY <2>1, <2>2
<1>9. causes' = {} => ~Late(q) /\ walk' = walk /\ causes = {}
  BY DEF WriteThrough
<1>10. AloneInv'
  BY <1>0, <1>9 DEF MirrorInv, LagInv, AloneInv
<1>11. LagHasACause'
  <2> SUFFICES ASSUME causes' = {} PROVE WatermarkSound'
    BY DEF LagHasACause
  <2>1. WatermarkSound
    BY <1>9 DEF MirrorInv, LagInv, LagHasACause
  <2> QED BY <1>0, <1>6, <1>9, <2>1 DEF WatermarkSound
<1>12. LagInv'
  BY <1>8, <1>10, <1>11 DEF LagInv
<1> QED BY <1>2, <1>5, <1>12 DEF MirrorInv

LEMMA MirrorStep == MirrorInv /\ [MirrorNext]_<<vars, writerVars>> => MirrorInv'
<1> SUFFICES ASSUME MirrorInv, [MirrorNext]_<<vars, writerVars>> PROVE MirrorInv'
  OBVIOUS
<1>0. /\ TypeOK /\ NoPage \in Versions /\ MirrorTypeOK /\ Unborn
      /\ \A r \in live : ver[r] \in Nat /\ r \in Rows /\ r \in born
  <2>1. TypeOK /\ MirrorTypeOK /\ Unborn
    BY DEF MirrorInv, SyncInv
  <2> QED BY <2>1, PageType, BoundsAssumption DEF TypeOK, Versions, live
<1>1. CASE [Next]_vars /\ UNCHANGED writerVars
  BY <1>0, <1>1, AnswersNext, SyncStepKept DEF MirrorInv
<1>2. ASSUME UNCHANGED vars, MirrorTypeOK', Unborn' PROVE MirrorInv'
  BY <1>2, SyncStepKept DEF MirrorInv
<1>3. ASSUME NEW q \in Lookups, Look(q) PROVE MirrorInv'
  <2>1. PICK a \in Answers : /\ answer' = [answer EXCEPT ![q] = a]
                             /\ cache' = [cache EXCEPT ![q] = a]
    BY <1>3 DEF Look
  <2>2. /\ a \in Versions
        /\ \A r \in Rows : a[r] \in {0, ver[r]}
        /\ \A r \in Rows \ live : a[r] = 0
    BY <1>0, AnswerTypes, AnswerIsPresent
  <2>3. UNCHANGED vars /\ live' = live /\ UNCHANGED <<ver, born>>
    BY <1>3 DEF Look, vars, live, remoteVars
  <2>4. MirrorTypeOK'
    BY <1>0, <2>1, <2>2, <2>3 DEF MirrorTypeOK
  <2>5. live \subseteq born
    BY <1>0
  <2>6. Unborn'
    BY <1>0, <2>1, <2>2, <2>3, <2>5 DEF Unborn, MirrorTypeOK
  <2> QED BY <1>2, <2>3, <2>4, <2>6
<1>4. ASSUME NEW q \in Lookups, LookCached(q) \/ EntryExpires(q) \/ DropAnswer(q)
      PROVE  MirrorInv'
  <2>1. UNCHANGED vars /\ live' = live /\ UNCHANGED <<ver, born>>
    BY <1>4 DEF LookCached, EntryExpires, DropAnswer, vars, live, remoteVars
  <2>2. \A r \in Rows : NoPage[r] = 0
    BY DEF NoPage
  <2>3. MirrorTypeOK'
    BY <1>0, <1>4, <2>1, <2>2
       DEF MirrorTypeOK, LookCached, EntryExpires, DropAnswer
  <2>4. Unborn'
    BY <1>0, <1>4, <2>1, <2>2
       DEF MirrorTypeOK, Unborn, LookCached, EntryExpires, DropAnswer
  <2> QED BY <1>2, <2>1, <2>3, <2>4
<1>5. ASSUME NEW q \in Lookups, NEW r \in Rows, Mutate(q, r) PROVE MirrorInv'
  <2>1. Remote /\ [Next]_vars
    BY <1>5 DEF Mutate, Remote, Next
  <2>2. SyncInv' /\ LagInv'
    BY <2>1, SyncStepKept DEF MirrorInv
  <2>3. /\ TypeOK' /\ r \in live' /\ live' \subseteq born' /\ live' \subseteq Rows
        /\ \A s \in Rows : ver'[s] \in 0..MaxVer
    <3>1. TypeOK'
      BY <2>2 DEF SyncInv
    <3>2. r \in live'
      BY <1>0, <1>5, RemoteEffect, <2>2 DEF Mutate, MirrorInv, SyncInv
    <3> QED BY <3>1, <3>2 DEF TypeOK, Versions, live
  <2>4. /\ \A o \in Lookups : \A s \in live' : answer[o][s] <= ver'[s]
        /\ \A o \in Lookups : \A s \in Rows \ born' : answer[o][s] = 0
    BY <1>0, <2>1, AnswerRemote DEF MirrorTypeOK, Unborn
  <2>5. /\ answer' = [answer EXCEPT ![q] = [NoPage EXCEPT ![r] = ver'[r]]]
        /\ cache' = [o \in Lookups |-> NoPage]
    BY <1>5 DEF Mutate
  <2>6. /\ [NoPage EXCEPT ![r] = ver'[r]] \in Versions
        /\ \A s \in Rows : [NoPage EXCEPT ![r] = ver'[r]][s] \in {0, ver'[s]}
        /\ \A s \in Rows \ {r} : [NoPage EXCEPT ![r] = ver'[r]][s] = 0
        /\ \A s \in Rows : NoPage[s] = 0
    <3>1. ver'[r] \in 0..MaxVer /\ r \in Rows
      BY <2>3
    <3>2. [NoPage EXCEPT ![r] = ver'[r]] \in [Rows -> 0..MaxVer]
      BY <1>0, <3>1 DEF Versions
    <3>3. \A s \in Rows : NoPage[s] = 0
      BY DEF NoPage
    <3>4. \A s \in Rows :
             [NoPage EXCEPT ![r] = ver'[r]][s] = IF s = r THEN ver'[r] ELSE 0
      BY DEF NoPage
    <3> QED BY <3>1, <3>2, <3>3, <3>4 DEF Versions
  <2>7. \A s \in live' : ver'[s] \in Nat
    BY <2>3, BoundsAssumption
  <2>8. MirrorTypeOK'
    BY <1>0, <2>3, <2>4, <2>5, <2>6, <2>7 DEF MirrorTypeOK
  <2>9. Unborn'
    BY <1>0, <2>3, <2>4, <2>5, <2>6 DEF MirrorTypeOK, Unborn
  <2> QED BY <2>2, <2>8, <2>9 DEF MirrorInv
<1>6. ASSUME UNCHANGED <<vars, writerVars>> PROVE MirrorInv'
  BY <1>1, <1>6
<1> QED BY <1>1, <1>3, <1>4, <1>5, <1>6, WriteKept DEF MirrorNext

LEMMA MirrorStart == MirrorInit => MirrorInv
<1> SUFFICES ASSUME MirrorInit PROVE MirrorInv
  OBVIOUS
<1>1. SyncInv /\ LagInv
  BY InitInv DEF MirrorInit
<1>2. NoPage \in Versions /\ \A r \in live : ver[r] \in Nat /\ r \in Rows
  BY <1>1, PageType, BoundsAssumption DEF SyncInv, TypeOK, Versions, live
<1>3. MirrorTypeOK /\ Unborn
  BY <1>2 DEF MirrorInit, MirrorTypeOK, Unborn, NoPage
<1> QED BY <1>1, <1>3 DEF MirrorInv

\* LagHasACause holds of the whole mirror: whatever lookups, cached answers and
\* mutations write between and under the sync walks, a change the watermark
\* claims is missing only for a recorded cause, of which a late answer is one
\* (writeThroughCache, writeMutationResponseToStore, syncResource); and what
\* is stored is never ahead of the API.
THEOREM MirrorLagExplained == MirrorSpec => [](LagHasACause /\ MirrorTypeOK)
<1>1. MirrorInit => MirrorInv
  BY MirrorStart
<1>2. MirrorInv => LagHasACause /\ MirrorTypeOK
  BY DEF MirrorInv, LagInv
<1> QED BY <1>1, <1>2, MirrorStep, PTL DEF MirrorSpec

\* PrunesOnlyGone holds of the whole mirror: no lookup or mutation removes a
\* row, and none makes a sync prune one it should keep (reconcileUnseen).
THEOREM MirrorPruneExplained == MirrorSpec => PrunesOnlyGone
<1>1. MirrorInit => MirrorInv
  BY MirrorStart
<1>2. MirrorInv /\ [MirrorNext]_<<vars, writerVars>> => [Explained]_vars
  <2> SUFFICES ASSUME MirrorInv, MirrorNext, ~UNCHANGED vars PROVE Explained
    BY DEF writerVars
  <2>1. CASE Next
    BY <2>1, PruneStep DEF MirrorInv
  <2>2. ASSUME NEW q \in Lookups, WriteThrough(q) PROVE Explained
    BY <2>2 DEF WriteThrough, Stored, Items, Explained, Removed
  <2>3. ASSUME NEW q \in Lookups, NEW r \in Rows, Mutate(q, r) PROVE Next
    BY <2>3 DEF Mutate, Next, Remote
  <2> QED BY <2>1, <2>2, <2>3
          DEF MirrorNext, Look, LookCached, EntryExpires, DropAnswer
<1> QED BY <1>1, <1>2, MirrorStep, PTL DEF MirrorSpec, PrunesOnlyGone, Explained

-----------------------------------------------------------------------------
(* A full walk stays exact while answers that are not late are stored.      *)

\* Such an answer names rows the API has, and a walk that ends undisturbed has
\* seen every one of them.
LEMMA ExactWrite ==
    ASSUME MirrorInv, ExactInv, NEW q \in Lookups, WriteThrough(q)
    PROVE  ExactInv'
<1> SUFFICES ASSUME NEW p \in Procs
             PROVE  StartInv(p)' /\ HeldInv(p)' /\ CleanInv(p)'
  BY DEF ExactInv
<1>0. /\ UNCHANGED <<ver, mod, pos, st, pc, opt>> /\ live' = live
      /\ local' = Stored(answer[q], Items(answer[q]))
      /\ walk[p] \in Walks /\ StartInv(p) /\ HeldInv(p) /\ CleanInv(p)
  BY DEF MirrorInv, SyncInv, TypeOK, WriteThrough, remoteVars, live, ExactInv
<1>1. \/ walk'[p] = walk[p] /\ ~Late(q)
      \/ walk'[p] = [walk[p] EXCEPT !.alone = FALSE]
  BY DEF WriteThrough
<1>2. SameWalk(walk'[p], walk[p]) /\ (walk'[p].alone => walk'[p] = walk[p] /\ ~Late(q))
  BY <1>0, <1>1 DEF SameWalk, Walks
<1>3. StartInv(p)'
  BY <1>0, <1>2 DEF StartInv, Active
<1>4. HeldInv(p)'
  BY <1>0, <1>2 DEF HeldInv, Active, Items, SameWalk
<1>5. CleanInv(p)'
  <2> SUFFICES ASSUME pc[p] = "finish", Undisturbed(p)', NEW r \in Rows \ walk'[p].seen
               PROVE  local'[r] = 0
    BY <1>0 DEF CleanInv
  <2>1. walk'[p] = walk[p] /\ ~Late(q)
    BY <1>2 DEF Undisturbed
  <2>2. Undisturbed(p)
    BY <1>0, <2>1 DEF Undisturbed, Prune
  <2>3. local[r] = 0 /\ r \notin live
    BY <1>0, <2>1, <2>2, AllSeen DEF CleanInv, MirrorInv
  <2> QED BY <1>0, <2>1, <2>3 DEF Stored, Late
<1> QED BY <1>3, <1>4, <1>5

LEMMA MirrorExactStep ==
    ASSUME MirrorInv, ExactInv, [MirrorNext]_<<vars, writerVars>>
    PROVE  ExactInv'
<1>1. CASE [Next]_vars
  BY <1>1, ExactStep DEF MirrorInv
<1>2. ASSUME NEW q \in Lookups, Look(q) \/ LookCached(q) \/ EntryExpires(q) \/ DropAnswer(q)
      PROVE  [Next]_vars
  BY <1>2 DEF Look, LookCached, EntryExpires, DropAnswer
<1>3. ASSUME NEW q \in Lookups, NEW r \in Rows, Mutate(q, r) PROVE [Next]_vars
  BY <1>3 DEF Mutate, Next, Remote
<1> QED BY <1>1, <1>2, <1>3, ExactWrite DEF MirrorNext

\* FullWalkIsExact holds of the whole mirror: what lookups and mutations store
\* while a full run walks leaves nothing over and nothing stale at its end,
\* unless an answer among them is late (writeThroughCache,
\* writeMutationResponseToStore, syncResource under --full).
THEOREM MirrorFullWalkExact == MirrorSpec => FullWalkIsExact
<1>1. MirrorInit => MirrorInv /\ ExactInv
  BY MirrorStart, ExactInit DEF MirrorInit
<1>2. MirrorInv /\ ExactInv /\ [MirrorNext]_<<vars, writerVars>>
         => (MirrorInv /\ ExactInv)'
  BY MirrorStep, MirrorExactStep
<1>3. MirrorInv /\ ExactInv /\ [MirrorNext]_<<vars, writerVars>> => [ExactEnd]_vars
  <2> SUFFICES ASSUME MirrorInv, ExactInv, MirrorNext, ~UNCHANGED vars PROVE ExactEnd
    BY DEF writerVars
  <2>1. CASE Next
    BY <2>1, ExactEnds DEF MirrorInv
  <2>2. ASSUME NEW q \in Lookups, WriteThrough(q) PROVE ExactEnd
    BY <2>2 DEF WriteThrough, ExactEnd
  <2>3. ASSUME NEW q \in Lookups, NEW r \in Rows, Mutate(q, r) PROVE Next
    BY <2>3 DEF Mutate, Next, Remote
  <2> QED BY <2>1, <2>2, <2>3
          DEF MirrorNext, Look, LookCached, EntryExpires, DropAnswer
<1> QED BY <1>1, <1>2, <1>3, PTL DEF MirrorSpec, FullWalkIsExact, ExactEnd

-----------------------------------------------------------------------------
(* When a stored row may go back to an older version.                       *)

\* a holds no version the API has not had, and no row that is yet to be created.
NotAhead(a) ==
    /\ \A r \in live : a[r] <= ver[r]
    /\ \A r \in Rows \ born : a[r] = 0

\* Neither the store nor the page a walk holds is ahead of the API.
VersionInv == NotAhead(local) /\ \A p \in Procs : NotAhead(walk[p].page)

LEMMA NoPageBehind == TypeOK => NotAhead(NoPage)
  BY BoundsAssumption DEF TypeOK, Versions, NotAhead, NoPage, live

LEMMA PageNotAhead ==
    ASSUME TypeOK, NEW s, NEW off
    PROVE  NotAhead(PageOf(s, off))
<1>1. \A r \in Rows : PageOf(s, off)[r] \in {0, ver[r]} /\ (r \notin live => PageOf(s, off)[r] = 0)
  BY DEF PageOf, Listing, Window, live
<1>2. live \subseteq born /\ live \subseteq Rows /\ \A r \in live : ver[r] \in Nat
  BY BoundsAssumption DEF TypeOK, Versions, live
<1> QED BY <1>1, <1>2 DEF NotAhead

\* Storing rows of such an answer leaves the store no further ahead.
LEMMA StoredNotAhead ==
    ASSUME NotAhead(local), NEW a, NotAhead(a), NEW rows, live \subseteq Rows
    PROVE  NotAhead(Stored(a, rows))
  BY DEF NotAhead, Stored

LEMMA VersionRemote ==
    ASSUME TypeOK, VersionInv, Remote
    PROVE  VersionInv'
<1>1. local' = local /\ local \in Versions
  BY DEF TypeOK, Remote, Tick, Create, Modify, Delete
<1>2. NotAhead(local)'
  BY <1>1, AnswerRemote DEF VersionInv, NotAhead
<1>3. ASSUME NEW p \in Procs PROVE NotAhead(walk[p].page)'
  <2>1. walk[p] \in Walks /\ walk[p].page \in Versions
    BY DEF TypeOK, Walks
  <2>2. walk'[p].page = walk[p].page
    BY RemoteWalk
  <2> QED BY <2>1, <2>2, AnswerRemote DEF VersionInv, NotAhead
<1> QED BY <1>2, <1>3 DEF VersionInv

\* The page a step of p leaves in its walk, and in the others'.
LEMMA PagesKept ==
    ASSUME TypeOK, NEW p \in Procs, Step(p) \/ Crash(p) \/ \E o \in Options : Begin(p, o)
    PROVE  /\ \A q \in Procs \ {p} : walk'[q].page = walk[q].page
           /\ \/ walk'[p].page \in {walk[p].page, NoPage}
              \/ walk'[p].page = PageOf(walk[p].since, walk[p].cursor)
<1>0. walk \in [Procs -> Walks] /\ walk[p] \in Walks
  BY DEF TypeOK
<1>1. \A q \in Procs \ {p} : walk'[q].page = walk[q].page
  BY OthersWalk DEF SameWalk
<1>2. CASE Return(p) \/ \E o \in Options : Begin(p, o)
  BY <1>0, <1>1, <1>2 DEF Return, Begin, NoWalk
<1>3. CASE Fetch(p)
  BY <1>0, <1>1, <1>3 DEF Fetch, Walks
<1>4. CASE ReadState(p) \/ NextPage(p)
  <2>1. CASE ReadState(p)
    BY <1>0, <1>1, <2>1 DEF ReadState, Walks
  <2>2. CASE NextPage(p)
    BY <1>0, <1>1, <2>2 DEF NextPage, Walks
  <2> QED BY <1>4, <2>1, <2>2
<1>5. CASE StopAtCap(p) \/ ReachEnd(p) \/ ReconcileFails(p)
  <2>1. walk'[p].page = walk[p].page
    BY <1>0, <1>5 DEF StopAtCap, ReachEnd, ReconcileFails, Walks
  <2> QED BY <1>1, <2>1
<1>6. CASE StorePage(p) \/ MarkAttempt(p) \/ Reconcile(p)
  <2>1. walk'[p].page = walk[p].page
    BY <1>0, <1>6 DEF StorePage, MarkAttempt, Reconcile, Walks
  <2> QED BY <1>1, <2>1
<1> QED BY <1>2, <1>3, <1>4, <1>5, <1>6
        DEF Step, FetchFails, StoreFails, Finish, Crash

\* What a step of p may do to the stored rows.
LEMMA RowsKept ==
    ASSUME NEW p \in Procs, Step(p) \/ Crash(p) \/ \E o \in Options : Begin(p, o)
    PROVE  \/ local' = local
           \/ /\ pc[p] = "fetched"
              /\ \E rows \in SUBSET Items(walk[p].page) :
                    local' = Stored(walk[p].page, rows)
           \/ Reconcile(p)
<1>1. CASE StorePage(p) \/ StoreFails(p)
  BY <1>1 DEF StorePage, StoreFails
<1> QED BY <1>1 DEF Step, ReadState, MarkAttempt, Fetch, FetchFails, StopAtCap, ReachEnd,
           NextPage, ReconcileFails, Finish, Crash, Begin

LEMMA VersionStep ==
    ASSUME MirrorInv, VersionInv, [MirrorNext]_<<vars, writerVars>>
    PROVE  VersionInv'
<1>0. /\ TypeOK /\ live \subseteq Rows
      /\ NotAhead(local) /\ \A p \in Procs : NotAhead(walk[p].page)
  BY DEF MirrorInv, SyncInv, live, VersionInv
\* Where the API does not change, what was not ahead of it stays so.
<1>1. ASSUME UNCHANGED <<ver, born>>, NotAhead(local'), \A p \in Procs : NotAhead(walk'[p].page)
      PROVE  VersionInv'
  BY <1>1 DEF VersionInv, NotAhead, live
<1>2. CASE Remote
  BY <1>0, <1>2, VersionRemote
<1>3. ASSUME NEW p \in Procs, Step(p) \/ Crash(p) \/ \E o \in Options : Begin(p, o)
      PROVE  VersionInv'
  <2>1. UNCHANGED <<ver, born>>
    BY <1>3, OwnBorn
  <2>2. NotAhead(local')
    <3>1. CASE local' = local
      BY <1>0, <3>1
    <3>2. ASSUME NEW rows, local' = Stored(walk[p].page, rows) PROVE NotAhead(local')
      BY <1>0, <3>2, StoredNotAhead
    <3>3. CASE Reconcile(p)
      <4>1. /\ \A r \in Rows : local'[r] \in {0, local[r]}
            /\ \A r \in live : ver[r] \in Nat
        BY <1>0, <3>3, BoundsAssumption DEF Reconcile, TypeOK, Versions
      <4> QED BY <1>0, <4>1 DEF NotAhead
    <3> QED BY <1>3, <3>1, <3>2, <3>3, RowsKept
  <2>3. ASSUME NEW q \in Procs PROVE NotAhead(walk'[q].page)
    BY <1>0, <1>3, PagesKept, PageNotAhead, NoPageBehind
  <2> QED BY <1>1, <2>1, <2>2, <2>3
<1>4. ASSUME NEW q \in Lookups, WriteThrough(q) PROVE VersionInv'
  <2>1. NotAhead(answer[q])
    BY DEF MirrorInv, MirrorTypeOK, Unborn, NotAhead
  <2>2. UNCHANGED <<ver, born>> /\ NotAhead(local')
    BY <1>0, <1>4, <2>1, StoredNotAhead DEF WriteThrough, remoteVars
  <2>3. ASSUME NEW p \in Procs PROVE NotAhead(walk'[p].page)
    <3>1. walk[p] \in Walks
      BY <1>0 DEF TypeOK
    <3>2. walk'[p].page = walk[p].page
      BY <1>4, <3>1 DEF WriteThrough, Walks
    <3> QED BY <1>0, <3>2
  <2> QED BY <1>1, <2>2, <2>3
<1>5. CASE UNCHANGED vars
  BY <1>0, <1>1, <1>5 DEF vars, remoteVars
<1>6. ASSUME NEW q \in Lookups, NEW r \in Rows, Mutate(q, r) PROVE Remote
  BY <1>6 DEF Mutate, Remote
<1> QED BY <1>2, <1>3, <1>4, <1>5, <1>6
        DEF MirrorNext, Next, Look, LookCached, EntryExpires, DropAnswer

LEMMA VersionStart ==
    ASSUME MirrorInit, TypeOK
    PROVE  VersionInv
<1>1. local = NoPage /\ \A p \in Procs : walk[p].page = NoPage
  BY DEF MirrorInit, Init, NoPage, NoWalk
<1> QED BY <1>1, NoPageBehind DEF VersionInv

\* What GoesBackOnlyAhead says of one step.
BackAhead ==
    \A r \in live :
        local'[r] # 0 /\ local'[r] < local[r] =>
           \/ "late" \in causes'
           \/ \E p \in Procs : pc[p] = "fetched" /\ walk[p].req <= mod[r]

LEMMA BackStep ==
    ASSUME MirrorInv, VersionInv, MirrorNext
    PROVE  BackAhead
<1> SUFFICES ASSUME NEW r \in live, local'[r] # 0, local'[r] < local[r]
             PROVE  \/ "late" \in causes'
                    \/ \E p \in Procs : pc[p] = "fetched" /\ walk[p].req <= mod[r]
  BY DEF BackAhead
<1>0. /\ r \in Rows /\ local[r] \in Nat /\ ver[r] \in Nat /\ local[r] <= ver[r]
      /\ local' # local
  BY BoundsAssumption DEF MirrorInv, SyncInv, TypeOK, Versions, live, VersionInv, NotAhead
<1>1. ASSUME Remote PROVE FALSE
  BY <1>0, <1>1 DEF Remote, Tick, Create, Modify, Delete
<1>2. ASSUME NEW p \in Procs, Step(p) \/ Crash(p) \/ \E o \in Options : Begin(p, o)
      PROVE  pc[p] = "fetched" /\ walk[p].req <= mod[r]
  <2>1. CASE Reconcile(p)
    BY <1>0, <2>1 DEF Reconcile
  <2>2. ASSUME NEW rows \in SUBSET Items(walk[p].page), pc[p] = "fetched",
               local' = Stored(walk[p].page, rows)
        PROVE  walk[p].req <= mod[r]
    <3>1. local'[r] = walk[p].page[r] /\ walk[p].page[r] # 0
      BY <1>0, <2>2 DEF Stored, Items
    <3>2. walk[p].page[r] # ver[r]
      BY <1>0, <3>1
    <3>3. r \in walk[p].touched
      BY <2>2, <3>1, <3>2 DEF MirrorInv, SyncInv, WalkInv, PageInv, Active
    <3> QED BY <2>2, <3>3 DEF MirrorInv, SyncInv, WalkInv, TouchedInv, Active
  <2> QED BY <1>0, <1>2, <2>1, <2>2, RowsKept
<1>3. ASSUME NEW q \in Lookups, WriteThrough(q) PROVE "late" \in causes'
  <2>1. r \in Items(answer[q]) /\ answer[q][r] < local[r]
    BY <1>0, <1>3 DEF WriteThrough, Stored, Items
  <2>2. answer[q][r] \in Nat
    BY <1>0, BoundsAssumption DEF MirrorInv, MirrorTypeOK, Versions
  <2>3. Late(q)
    BY <1>0, <2>1, <2>2 DEF Late
  <2> QED BY <1>3, <2>3 DEF WriteThrough
<1>4. ASSUME NEW q \in Lookups, NEW s \in Rows, Mutate(q, s) PROVE FALSE
  BY <1>1, <1>4 DEF Mutate, Remote
<1> QED BY <1>0, <1>1, <1>2, <1>3, <1>4
        DEF MirrorNext, Next, Look, LookCached, EntryExpires, DropAnswer, vars

\* GoesBackOnlyAhead: a row goes back to an older version in the store only
\* where the next incremental run fetches it again, its change being later
\* than the beginning of the walk whose page overwrote it, or by a late answer
\* (UpsertBatchDetailed under syncResource, writeThroughCache).
THEOREM GoesBackExplained == MirrorSpec => GoesBackOnlyAhead
<1>1. MirrorInit => MirrorInv /\ VersionInv
  BY MirrorStart, VersionStart DEF MirrorInv, SyncInv
<1>2. MirrorInv /\ VersionInv /\ [MirrorNext]_<<vars, writerVars>>
         => (MirrorInv /\ VersionInv)'
  BY MirrorStep, VersionStep
<1>3. MirrorInv /\ VersionInv /\ [MirrorNext]_<<vars, writerVars>>
         => [BackAhead]_<<vars, writerVars>>
  BY BackStep
<1> QED BY <1>1, <1>2, <1>3, PTL DEF MirrorSpec, GoesBackOnlyAhead, BackAhead

=============================================================================
