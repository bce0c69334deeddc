------------------------ MODULE DependentSync_proofs ------------------------
(***************************************************************************)
(* Proofs about DependentSync, for any parents, children, number of        *)
(* workers, page size and faults:                                          *)
(*   DependentTyped    the state keeps its shape, and no page is asked for *)
(*                     past the end of what a parent ever had;             *)
(*   ResultsHonest     a returned run tells what happened;                 *)
(*   CompleteCovered, DeletionsMirrored                                    *)
(*                     what the readiness flag stands for;                 *)
(*   SweepsExplained   what a partition sweep removes.                     *)
(* PoolInv says that every parent has one owner at a time: the channel, a  *)
(* worker or its report.  So what WalkInv says of one worker's walk, and   *)
(* DoneInv of a finished one, is disturbed by the API alone, and by        *)
(* nothing unless the listing shrinks.                                     *)
(***************************************************************************)
EXTENDS DependentSync, FunctionTheorems, FiniteSetTheorems, TLAPS

Busy(w) == worker[w].at \in {"fetch", "store", "reconcile"}

Sent == reports \cup drained

-----------------------------------------------------------------------------
(* The invariant.                                                           *)

\* What is stored or listed was created, and history begins with the run.
RemoteInv ==
    /\ \A p \in Parents : kids[p] \subseteq born[p] /\ mirror[p] \subseteq born[p]
    /\ phase = "idle" => shrunk = {} /\ \A p \in Parents : fresh[p] = {}

\* There is a pool only while the collector drains it.
IdleInv ==
    phase # "drain" =>
        /\ snapshot = {} /\ jobs = {} /\ reports = {} /\ drained = {}
        /\ \A w \in Workers : worker[w] = Off

\* A parent is queued, or one worker's, or reported, once.
PoolInv ==
    /\ \A w \in Workers : Busy(w) => worker[w].parent \in snapshot \ jobs
    /\ \A v, w \in Workers :
          Busy(v) /\ Busy(w) /\ worker[v].parent = worker[w].parent => v = w
    /\ \A r \in Sent : /\ r.parent \in snapshot \ jobs
                       /\ \A w \in Workers : Busy(w) => worker[w].parent # r.parent
                       /\ \A q \in Sent : q.parent = r.parent => q = r

\* A child no page has shown yet lies at or beyond the offset.
Unreached(w, k) ==
    LET me == worker[w]
    IN  \/ me.at = "fetch" /\ me.offset <= Rank(me.parent, k)
        \/ me.at = "store" /\ FullPage(me.page)
                           /\ me.offset + Limit <= Rank(me.parent, k)

\* One walk over the children of p.
WalkInv(w) ==
    LET me == worker[w]
        p  == worker[w].parent
    IN  Busy(w) =>
            /\ me.seen \subseteq mirror[p] /\ me.page \subseteq born[p]
            /\ mirror[p] \cap fresh[p] \subseteq me.seen
            /\ me.at = "store" /\ FullPage(me.page) =>
                  me.offset + Limit <= Cardinality(born[p])
            /\ me.at = "fetch" => me.page = {}
            /\ p \notin shrunk =>
                  /\ me.seen \cup me.page \subseteq kids[p]
                  /\ \A k \in kids[p] \ fresh[p] :
                        k \in me.seen \cup me.page \/ Unreached(w, k)
            /\ me.at = "reconcile" => me.page \subseteq me.seen

\* What a complete walk leaves.
Covered(p) ==
    p \notin shrunk => /\ kids[p] \ fresh[p] \subseteq mirror[p]
                       /\ prune => mirror[p] \cap Scoped \subseteq kids[p]

DoneInv == \A r \in Sent : r.end = "complete" => Covered(r.parent)

\* A child created since the run began is stored by the walk alone.
UntakenInv ==
    \A p \in Parents : phase # "drain" \/ p \in jobs => mirror[p] \cap fresh[p] = {}

DepInv ==
    /\ TypeOK /\ RemoteInv /\ IdleInv /\ PoolInv
    /\ \A w \in Workers : WalkInv(w)
    /\ DoneInv /\ UntakenInv

-----------------------------------------------------------------------------
(* The listing of a set K of children, newest first: ranks have no gaps, a  *)
(* page before a rank is full, and a full page lies within the listing.     *)

Newer(K, k) == {j \in K : j > k}

Place(K, k) == Cardinality(Newer(K, k))

Slice(K, off) == {k \in K : off <= Place(K, k) /\ Place(K, k) < off + Limit}

LEMMA PlaceType ==
    ASSUME NEW K \in SUBSET Kids, NEW k
    PROVE  IsFiniteSet(K) /\ IsFiniteSet(Newer(K, k)) /\ Place(K, k) \in Nat
<1>1. IsFiniteSet(K)
    BY FS_Subset, KidsAssumption
<1>2. IsFiniteSet(Newer(K, k))
    BY <1>1, FS_Subset DEF Newer
<1> QED BY <1>1, <1>2, FS_CardinalityType DEF Place

LEMMA PlaceStrict ==
    ASSUME NEW K \in SUBSET Kids, NEW j \in K, NEW k \in K, j > k
    PROVE  Place(K, j) < Place(K, k)
<1>1. \A i \in K : i \in Nat
    BY KidsAssumption
<1>2. Newer(K, j) \in SUBSET Newer(K, k) /\ j \in Newer(K, k) /\ j \notin Newer(K, j)
    BY <1>1 DEF Newer
<1>3. /\ Cardinality(Newer(K, j)) <= Cardinality(Newer(K, k))
      /\ Cardinality(Newer(K, j)) # Cardinality(Newer(K, k))
    BY <1>2, PlaceType, FS_Subset
<1> QED BY <1>3, PlaceType DEF Place

LEMMA PlacesDiffer ==
    ASSUME NEW K \in SUBSET Kids, NEW j \in K, NEW k \in K, Place(K, j) = Place(K, k)
    PROVE  j = k
<1>1. j \in Nat /\ k \in Nat /\ Place(K, j) \in Nat
    BY KidsAssumption, PlaceType
<1>2. ~(j > k) /\ ~(k > j)
    BY <1>1, PlaceStrict
<1> QED BY <1>1, <1>2

LEMMA PlacesFilled ==
    ASSUME NEW K \in SUBSET Kids, NEW k \in K, NEW n \in 0 .. Place(K, k) - 1
    PROVE  \E j \in K : Place(K, j) = n
<1> DEFINE T == 0 .. Place(K, k) - 1
           f == [j \in Newer(K, k) |-> Place(K, j)]
<1>1. Place(K, k) \in Nat /\ IsFiniteSet(Newer(K, k)) /\ Newer(K, k) \subseteq K
    BY PlaceType DEF Newer
<1>2. f \in [Newer(K, k) -> T]
  <2> SUFFICES ASSUME NEW j \in Newer(K, k) PROVE Place(K, j) \in T
    OBVIOUS
  <2>1. Place(K, j) < Place(K, k)
    BY PlaceStrict DEF Newer
  <2> QED BY <1>1, <2>1, PlaceType
<1>3. \A a, c \in Newer(K, k) : f[a] = f[c] => a = c
    BY <1>1, PlacesDiffer
<1>4. f \in Injection(Newer(K, k), T)
    BY <1>2, <1>3, Fun_IsInj
<1>5. IsFiniteSet(T) /\ Cardinality(T) = Place(K, k)
    BY <1>1, FS_Interval
<1>6. f \in Surjection(Newer(K, k), T)
    BY <1>4, <1>5, FS_Injection DEF Place
<1>7. \E j \in Newer(K, k) : f[j] = n
  <2>1. n \in T
    OBVIOUS
  <2> HIDE DEF f, T
  <2>2. \A m \in T : \E j \in Newer(K, k) : f[j] = m
    BY <1>6 DEF Surjection
  <2> QED BY <2>1, <2>2
<1> QED BY <1>1, <1>7

LEMMA SliceFilled ==
    ASSUME NEW K \in SUBSET Kids, NEW off \in Nat, NEW k \in K, off + Limit <= Place(K, k)
    PROVE  Cardinality(Slice(K, off)) >= Limit
<1> DEFINE L == Slice(K, off)
           T == off .. off + Limit - 1
           g == [j \in L |-> Place(K, j)]
<1>0. Limit \in Nat /\ Limit >= 1
    BY PagesAssumption
<1>1. Limit \in Nat /\ Limit >= 1 /\ Place(K, k) \in Nat
    BY <1>0, PlaceType
<1>2. L \in SUBSET K
    BY DEF Slice
<1>3. IsFiniteSet(L) /\ Cardinality(L) \in Nat
    BY <1>2, PlaceType, FS_Subset, FS_CardinalityType
<1>4. g \in [L -> T]
    BY <1>1, PlaceType DEF Slice
<1>5. \A n \in T : \E j \in L : g[j] = n
  <2> SUFFICES ASSUME NEW n \in T PROVE \E j \in L : g[j] = n
    OBVIOUS
  <2>1. n \in 0 .. Place(K, k) - 1
    BY <1>1
  <2>2. PICK j \in K : Place(K, j) = n
    BY <2>1, PlacesFilled
  <2>3. j \in L
    BY <2>2, <1>1 DEF Slice
  <2> QED BY <2>2, <2>3
<1>6. g \in Surjection(L, T)
    BY <1>4, <1>5, Fun_IsSurj
<1>7. Cardinality(T) <= Cardinality(L)
    BY <1>3, <1>6, FS_Surjection
<1>8. Cardinality(T) = Limit
    BY <1>1, FS_Interval
<1> QED BY <1>3, <1>7, <1>8

\* A full page takes every place of its range, so the listing is that long.
LEMMA FullSlice ==
    ASSUME NEW K \in SUBSET Kids, NEW off \in Nat, Cardinality(Slice(K, off)) >= Limit
    PROVE  off + Limit <= Cardinality(K)
<1> DEFINE L == Slice(K, off)
           T == off .. off + Limit - 1
           g == [j \in L |-> Place(K, j)]
<1>1. Limit \in Nat /\ Limit >= 1
    BY PagesAssumption
<1>2. L \in SUBSET K
    BY DEF Slice
<1>3. g \in [L -> T]
  <2> SUFFICES ASSUME NEW j \in L PROVE Place(K, j) \in T
    OBVIOUS
  <2>1. Place(K, j) \in Nat
    BY PlaceType
  <2> QED BY <1>1, <2>1 DEF Slice
<1>4. \A a, c \in L : g[a] = g[c] => a = c
    BY <1>2, PlacesDiffer
<1>5. g \in Injection(L, T)
    BY <1>3, <1>4, Fun_IsInj
<1>6. IsFiniteSet(T) /\ Cardinality(T) = Limit
    BY <1>1, FS_Interval
<1>7. IsFiniteSet(L) /\ Cardinality(L) \in Nat
    BY <1>2, PlaceType, FS_Subset, FS_CardinalityType
<1>8. g \in Surjection(L, T)
  <2>1. Cardinality(L) <= Cardinality(T)
    BY <1>5, <1>6, FS_Injection
  <2>2. Cardinality(L) = Cardinality(T)
    BY <1>1, <1>6, <1>7, <2>1
  <2> QED BY <1>5, <1>6, <2>2, FS_Injection
<1>9. PICK k \in K : Place(K, k) = off + Limit - 1
  <2>1. off + Limit - 1 \in T
    BY <1>1
  <2>2. \A m \in T : \E j \in L : g[j] = m
    <3> HIDE DEF g, T, L
    <3> QED BY <1>8 DEF Surjection
  <2> QED BY <1>2, <2>1, <2>2
<1>10. /\ IsFiniteSet(Newer(K, k) \cup {k})
       /\ Cardinality(Newer(K, k) \cup {k}) = Cardinality(Newer(K, k)) + 1
  <2>1. k \notin Newer(K, k)
    BY KidsAssumption DEF Newer
  <2> QED BY <2>1, PlaceType, FS_AddElement
<1>11. Newer(K, k) \cup {k} \in SUBSET K
    BY DEF Newer
<1>12. Cardinality(Newer(K, k) \cup {k}) <= Cardinality(K)
    BY <1>11, PlaceType, FS_Subset
<1> QED BY <1>1, <1>9, <1>10, <1>12 DEF Place

\* A child that is added moves the others away from the head.
LEMMA PlaceGrows ==
    ASSUME NEW K \in SUBSET Kids, NEW M \in SUBSET Kids, K \subseteq M, NEW k
    PROVE  Place(K, k) <= Place(M, k)
<1>1. Newer(K, k) \in SUBSET Newer(M, k)
    BY DEF Newer
<1> QED BY <1>1, PlaceType, FS_Subset DEF Place

LEMMA SizeGrows ==
    ASSUME NEW K \in SUBSET Kids, NEW M \in SUBSET Kids, K \subseteq M
    PROVE  /\ Cardinality(K) \in Nat /\ Cardinality(M) \in Nat
           /\ Cardinality(K) <= Cardinality(M)
BY PlaceType, FS_Subset, FS_CardinalityType

-----------------------------------------------------------------------------
(* Workers and parents.                                                     *)

WorkerRecords ==
    [at : {"gone", "take", "fetch", "store", "reconcile"}, parent : Parents \cup {"none"},
     offset : Nat, page : SUBSET Kids, prev : SUBSET Kids, seen : SUBSET Kids, pages : Nat]

LEMMA Idlers == Off \in WorkerRecords /\ Ready \in WorkerRecords
BY DEF Off, Ready, WorkerRecords

\* What a worker carries, field by field.
LEMMA WorkerType ==
    ASSUME TypeOK, NEW w \in Workers
    PROVE  /\ worker[w] \in WorkerRecords
           /\ worker[w].offset \in Nat /\ worker[w].pages \in Nat
           /\ worker[w].page \in SUBSET Kids /\ worker[w].prev \in SUBSET Kids
           /\ worker[w].seen \in SUBSET Kids
<1>1. worker[w] \in WorkerRecords
    BY DEF TypeOK, WorkerRecords
<1> QED BY <1>1 DEF WorkerRecords

LEMMA RankIsPlace ==
    \A p, k : Rank(p, k) = Place(kids[p], k)
BY DEF Rank, Place, Newer

LEMMA PageIsSlice ==
    \A p, off : PageOf(p, off) = Slice(kids[p], off)
BY RankIsPlace DEF PageOf, Slice

\* A worker that is not busy satisfies what is said of a walk.
LEMMA NotBusy ==
    ASSUME NEW w \in Workers, worker[w] \in {Off, Ready}
    PROVE  ~Busy(w) /\ worker[w].offset = 0 /\ worker[w].parent = "none"
BY DEF Busy, Off, Ready

-----------------------------------------------------------------------------
(* The steps of one worker.                                                 *)

\* What every step of a worker leaves alone.
OwnStep(w) ==
    /\ UNCHANGED <<remoteVars, table, attempt, phase, runVars, cancelled, drained, result>>
    /\ \A v \in Workers \ {w} : worker'[v] = worker[v]
    /\ mirror' \in [Parents -> SUBSET Kids]
    /\ \A p \in Parents : p # worker[w].parent => mirror'[p] = mirror[p]
    /\ Busy(w) => mirror'[worker[w].parent] \subseteq born[worker[w].parent]

\* The walks of the others go on as they were.
LEMMA OtherWalks ==
    ASSUME DepInv, NEW w \in Workers, Busy(w), OwnStep(w), NEW v \in Workers \ {w}
    PROVE  WalkInv(v)'
<1>1. Busy(v)' <=> Busy(v)
    BY DEF Busy, OwnStep
<1>2. Busy(v) => /\ worker[v].parent # worker[w].parent /\ worker[v].parent \in Parents
    BY DEF DepInv, PoolInv, TypeOK
<1>3. Busy(v) => mirror'[worker[v].parent] = mirror[worker[v].parent]
    BY <1>2 DEF OwnStep
<1>4. worker'[v] = worker[v] /\ UNCHANGED <<kids, born, fresh, shrunk>>
    BY DEF OwnStep, remoteVars
<1>5. \A k : Unreached(v, k)' <=> Unreached(v, k)
    BY <1>4 DEF Unreached, FullPage, Rank
<1> QED BY <1>1, <1>3, <1>4, <1>5 DEF DepInv, WalkInv, FullPage

\* Reports already sent are about other parents.
LEMMA OtherReports ==
    ASSUME DepInv, NEW w \in Workers, Busy(w), OwnStep(w),
           NEW r \in Sent, r.end = "complete"
    PROVE  Covered(r.parent)'
<1>1. Covered(r.parent) /\ r.parent # worker[w].parent /\ r.parent \in Parents
    BY DEF DepInv, DoneInv, PoolInv, TypeOK
<1> QED BY <1>1 DEF Covered, OwnStep, remoteVars, runVars

LEMMA OwnUntaken ==
    ASSUME DepInv, NEW w \in Workers, Busy(w), OwnStep(w), UNCHANGED jobs
    PROVE  UntakenInv'
<1>1. phase = "drain" /\ phase' = phase /\ jobs' = jobs /\ fresh' = fresh
  <2>1. worker[w] # Off
    BY DEF Busy, Off
  <2> QED BY <2>1 DEF DepInv, IdleInv, OwnStep, remoteVars
<1>2. worker[w].parent \notin jobs
    BY DEF DepInv, PoolInv
<1>3. \A p \in Parents : p \in jobs => mirror'[p] = mirror[p] /\ mirror[p] \cap fresh[p] = {}
    BY <1>2 DEF DepInv, UntakenInv, OwnStep
<1> QED BY <1>1, <1>3 DEF UntakenInv

LEMMA OwnTypes ==
    ASSUME DepInv, NEW w \in Workers, OwnStep(w), UNCHANGED jobs, NEW r \in WorkerRecords,
           worker' = [worker EXCEPT ![w] = r], reports' \subseteq Report,
           r.parent \in Parents => r.offset <= Cardinality(born[r.parent])
    PROVE  TypeOK'
<1>1. worker' \in [Workers -> WorkerRecords]
    BY DEF DepInv, TypeOK, WorkerRecords
<1>2. OffsetsInRange'
    BY DEF DepInv, TypeOK, OffsetsInRange, OwnStep, remoteVars
<1> QED BY <1>1, <1>2 DEF DepInv, TypeOK, OwnStep, remoteVars, runVars, WorkerRecords

LEMMA OwnRemote ==
    ASSUME DepInv, NEW w \in Workers, Busy(w), OwnStep(w)
    PROVE  RemoteInv' /\ IdleInv'
<1>1. phase = "drain" /\ phase' = phase
  <2>1. worker[w] # Off
    BY DEF Busy, Off
  <2> QED BY <2>1 DEF DepInv, IdleInv, OwnStep
<1>2. \A p \in Parents : kids'[p] \subseteq born'[p] /\ mirror'[p] \subseteq born'[p]
    BY DEF DepInv, RemoteInv, OwnStep, remoteVars
<1> QED BY <1>1, <1>2 DEF RemoteInv, IdleInv

\* A walk goes on.
LEMMA WalksOn ==
    ASSUME DepInv, NEW w \in Workers, Busy(w), OwnStep(w), UNCHANGED <<jobs, reports>>,
           NEW r \in WorkerRecords, worker' = [worker EXCEPT ![w] = r],
           r.parent = worker[w].parent, r.at \in {"fetch", "store", "reconcile"},
           r.offset <= Cardinality(born[r.parent]), WalkInv(w)'
    PROVE  DepInv'
<1>1. TypeOK'
    BY OwnTypes DEF DepInv, TypeOK
<1>2. worker'[w] = r
    BY DEF DepInv, TypeOK
<1>3. /\ \A v \in Workers : Busy(v)' <=> Busy(v)
      /\ \A v \in Workers : worker'[v].parent = worker[v].parent
    BY <1>2 DEF Busy, OwnStep
<1>4. Sent' = Sent /\ snapshot' = snapshot
    BY DEF Sent, OwnStep, runVars
<1>5. PoolInv'
    BY <1>3, <1>4 DEF DepInv, PoolInv
<1>6. \A v \in Workers : WalkInv(v)'
    BY OtherWalks
<1>7. DoneInv'
    BY <1>4, OtherReports DEF DoneInv
<1>8. RemoteInv' /\ IdleInv' /\ UntakenInv'
    BY OwnRemote, OwnUntaken
<1> QED BY <1>1, <1>5, <1>6, <1>7, <1>8 DEF DepInv

\* A walk ends with its report.
LEMMA SendsOff ==
    ASSUME DepInv, NEW w \in Workers, Busy(w), OwnStep(w), UNCHANGED jobs,
           NEW end \in Ends, Send(w, end),
           NEW p \in Parents, p = worker[w].parent, end = "complete" => Covered(p)'
    PROVE  DepInv'
<1> DEFINE r == [parent |-> p, end |-> end]
<1>1. p \in snapshot \ jobs /\ p \in Parents
    BY DEF DepInv, PoolInv, TypeOK
<1>2. worker'[w] = Ready /\ reports' = reports \cup {r} /\ ~Busy(w)'
    BY DEF Send, DepInv, TypeOK, Busy, Ready, Off
<1>3. r \in Report
    BY <1>1 DEF Report
<1>4. Ready.parent = "none" /\ Ready.offset = 0
    BY DEF Ready, Off
<1>5. TypeOK'
  <2>1. Ready.parent \in Parents => Ready.offset <= Cardinality(born[Ready.parent])
    BY <1>4, SizeGrows DEF DepInv, TypeOK
  <2> QED BY <1>2, <1>3, <2>1, Idlers, OwnTypes DEF Send, DepInv, TypeOK
<1>6. Sent' = Sent \cup {r} /\ UNCHANGED <<snapshot, jobs>>
    BY <1>2 DEF Sent, OwnStep, runVars
<1>7. \A v \in Workers : Busy(v)' => v # w /\ Busy(v) /\ worker'[v] = worker[v]
    BY <1>2 DEF Busy, OwnStep
<1>8. \A q \in Sent : q.parent # p
    BY DEF DepInv, PoolInv
<1>9. r.parent = p /\ r.end = end
    OBVIOUS
<1>10. PoolInv'
  <2> HIDE DEF r
  <2>1. \A v \in Workers : Busy(v)' => worker'[v].parent \in snapshot' \ jobs'
    BY <1>6, <1>7 DEF DepInv, PoolInv
  <2>2. \A u, v \in Workers :
            Busy(u)' /\ Busy(v)' /\ worker'[u].parent = worker'[v].parent => u = v
    BY <1>7 DEF DepInv, PoolInv
  <2>3. ASSUME NEW q \in Sent'
        PROVE  /\ q.parent \in snapshot' \ jobs'
               /\ \A v \in Workers : Busy(v)' => worker'[v].parent # q.parent
               /\ \A z \in Sent' : z.parent = q.parent => z = q
    <3>1. CASE q = r
      <4>1. \A v \in Workers : Busy(v)' => worker'[v].parent # p
        BY <1>7 DEF DepInv, PoolInv
      <4> QED BY <1>1, <1>6, <1>8, <1>9, <3>1, <4>1
    <3>2. CASE q \in Sent
      BY <1>6, <1>7, <1>8, <1>9, <3>2 DEF DepInv, PoolInv
    <3> QED BY <1>6, <2>3, <3>1, <3>2
  <2> QED BY <2>1, <2>2, <2>3 DEF PoolInv
<1>11. ASSUME NEW v \in Workers PROVE WalkInv(v)'
  <2>1. CASE v = w
    BY <1>2, <2>1 DEF WalkInv
  <2> QED BY <2>1, OtherWalks
<1>12. DoneInv'
  <2> HIDE DEF r
  <2> SUFFICES ASSUME NEW q \in Sent', q.end = "complete"
               PROVE  Covered(q.parent)'
    BY DEF DoneInv
  <2>1. CASE q \in Sent
    BY <2>1, OtherReports
  <2>2. CASE q = r
    BY <1>9, <2>2
  <2> QED BY <1>6, <2>1, <2>2
<1>13. RemoteInv' /\ IdleInv' /\ UntakenInv'
    BY OwnRemote, OwnUntaken
<1> QED BY <1>5, <1>10, <1>11, <1>12, <1>13 DEF DepInv

LEMMA BusyFacts ==
    ASSUME DepInv, NEW w \in Workers, Busy(w)
    PROVE  /\ worker[w].parent \in Parents /\ worker[w] \in WorkerRecords
           /\ worker[w].offset \in Nat /\ worker[w].pages \in Nat
           /\ worker[w].page \in SUBSET Kids /\ worker[w].seen \in SUBSET Kids
           /\ worker[w].page \subseteq born[worker[w].parent]
           /\ worker[w].offset <= Cardinality(born[worker[w].parent])
<1>1. worker[w].parent \in Parents
    BY DEF DepInv, PoolInv, TypeOK
<1>2. worker[w].page \subseteq born[worker[w].parent]
    BY DEF DepInv, WalkInv
<1>3. worker[w].offset <= Cardinality(born[worker[w].parent])
    BY <1>1 DEF DepInv, TypeOK, OffsetsInRange
<1> QED BY <1>1, <1>2, <1>3, WorkerType DEF DepInv

\* A worker that only sends has changed nothing else.
LEMMA SendsOnly ==
    ASSUME DepInv, NEW w \in Workers, Busy(w), NEW end \in Ends \ {"complete"}, Send(w, end),
           UNCHANGED <<remoteVars, table, mirror, attempt, phase, runVars, cancelled, jobs,
                       drained, result>>
    PROVE  DepInv'
<1>1. PICK p \in Parents : p = worker[w].parent
    BY BusyFacts
<1>2. OwnStep(w)
    BY <1>1 DEF OwnStep, Send, DepInv, TypeOK, RemoteInv
<1> QED BY <1>1, <1>2, SendsOff

\* What the invariant asks of the walk a worker is given.
LEMMA Walking ==
    ASSUME NEW w \in Workers, NEW r \in WorkerRecords, NEW p, worker'[w] = r, r.parent = p,
           /\ r.seen \subseteq mirror'[p] /\ r.page \subseteq born'[p]
           /\ mirror'[p] \cap fresh'[p] \subseteq r.seen,
           r.at = "store" /\ FullPage(r.page) => r.offset + Limit <= Cardinality(born'[p]),
           r.at = "fetch" => r.page = {},
           r.at = "reconcile" => r.page \subseteq r.seen,
           p \notin shrunk' =>
               /\ r.seen \cup r.page \subseteq kids'[p]
               /\ \A k \in kids'[p] \ fresh'[p] :
                     \/ k \in r.seen \cup r.page
                     \/ r.at = "fetch" /\ r.offset <= Rank(p, k)'
                     \/ r.at = "store" /\ FullPage(r.page) /\ r.offset + Limit <= Rank(p, k)'
    PROVE  WalkInv(w)'
<1>1. \A k : \/ r.at = "fetch" /\ r.offset <= Rank(p, k)'
             \/ r.at = "store" /\ FullPage(r.page) /\ r.offset + Limit <= Rank(p, k)'
             => Unreached(w, k)'
    BY DEF Unreached, Rank, FullPage
<1> QED BY <1>1 DEF WalkInv, FullPage

LEMMA FetchKeeps ==
    ASSUME DepInv, NEW w \in Workers, Fetch(w)
    PROVE  DepInv'
<1> DEFINE page == PageOf(worker[w].parent, worker[w].offset)
<1>1. Busy(w) /\ worker[w].at = "fetch"
    BY DEF Fetch, Busy
<1>2. PICK p \in Parents : p = worker[w].parent
    BY <1>1, BusyFacts
<1>3. CASE Send(w, "stuck") /\ UNCHANGED <<remoteVars, table, mirror, attempt, phase, runVars,
                                          cancelled, jobs, drained, result>>
  <2>1. "stuck" \in Ends \ {"complete"}
    BY DEF Ends
  <2> QED BY <1>1, <1>3, <2>1, SendsOnly
<1>4. CASE worker' = [worker EXCEPT ![w] = [@ EXCEPT !.page = page,
                              !.at = IF page = {} THEN "reconcile" ELSE "store"]]
           /\ UNCHANGED <<remoteVars, table, mirror, attempt, phase, runVars,
                          cancelled, jobs, reports, drained, result>>
  <2> DEFINE at == IF page = {} THEN "reconcile" ELSE "store"
  <2>1. /\ kids[p] \in SUBSET Kids /\ born[p] \in SUBSET Kids /\ kids[p] \subseteq born[p]
        /\ worker[w].offset \in Nat /\ worker[w].seen \in SUBSET Kids
        /\ worker[w].offset <= Cardinality(born[p])
    BY <1>1, <1>2, BusyFacts DEF DepInv, TypeOK, RemoteInv
  <2>2. page = Slice(kids[p], worker[w].offset) /\ page \subseteq kids[p]
    BY <1>2, PageIsSlice DEF Slice
  <2> DEFINE r == [worker[w] EXCEPT !.page = page, !.at = at]
  <2>3. /\ r \in WorkerRecords
        /\ r.parent = p /\ r.offset = worker[w].offset /\ r.seen = worker[w].seen
        /\ r.page = page /\ r.at = at
    <3>1. worker[w] \in WorkerRecords /\ page \in SUBSET Kids
                    /\ at \in {"fetch", "store", "reconcile"}
      BY <1>1, <2>1, <2>2, BusyFacts
    <3>2. r = [worker[w] EXCEPT !.page = page, !.at = at]
      OBVIOUS
    <3> HIDE DEF page, at, r
    <3> QED BY <1>2, <3>1, <3>2 DEF WorkerRecords
  <2>4. worker' = [worker EXCEPT ![w] = r] /\ worker'[w] = r
    BY <1>4 DEF DepInv, TypeOK
  <2> HIDE DEF r
  <2>5. OwnStep(w)
    BY <1>2, <1>4, <2>4 DEF OwnStep, DepInv, TypeOK, RemoteInv
  <2> HIDE DEF page
  <2>6. FullPage(page) => /\ at = "store"
                          /\ worker[w].offset + Limit <= Cardinality(born[p])
    <3> SUFFICES ASSUME FullPage(page)
                 PROVE  /\ at = "store"
                        /\ worker[w].offset + Limit <= Cardinality(born[p])
      OBVIOUS
    <3>1. Limit \in Nat /\ Limit >= 1
      BY PagesAssumption
    <3>2. page # {}
      <4>1. Cardinality({}) = 0
        BY FS_EmptySet
      <4> QED BY <3>1, <4>1 DEF FullPage
    <3>3. worker[w].offset + Limit <= Cardinality(kids[p])
      BY <2>1, <2>2, FullSlice DEF FullPage
    <3>4. /\ Cardinality(kids[p]) <= Cardinality(born[p])
          /\ Cardinality(kids[p]) \in Nat /\ Cardinality(born[p]) \in Nat
      BY <2>1, SizeGrows
    <3> QED BY <2>1, <3>1, <3>2, <3>3, <3>4
  <2>7. ASSUME p \notin shrunk, NEW k \in kids[p] \ fresh[p]
        PROVE  \/ k \in worker[w].seen \cup page
               \/ at = "store" /\ FullPage(page)
                               /\ worker[w].offset + Limit <= Rank(p, k)
    <3>1. k \in worker[w].seen \/ worker[w].offset <= Rank(p, k)
      BY <1>1, <1>2, <2>7 DEF DepInv, WalkInv, Unreached
    <3>2. Rank(p, k) = Place(kids[p], k) /\ Rank(p, k) \in Nat /\ Limit \in Nat
      BY <2>1, RankIsPlace, PlaceType, PagesAssumption
    <3>3. CASE worker[w].offset <= Rank(p, k) /\ Rank(p, k) < worker[w].offset + Limit
      BY <2>2, <3>2, <3>3 DEF Slice
    <3>4. CASE worker[w].offset + Limit <= Rank(p, k)
      <4>1. FullPage(page)
        BY <2>1, <2>2, <3>2, <3>4, SliceFilled DEF FullPage
      <4> QED BY <2>6, <3>4, <4>1
    <3> QED BY <2>1, <3>1, <3>2, <3>3, <3>4
  <2>8. worker'[w].parent = p
    BY <2>3, <2>4
  <2>9. UNCHANGED <<kids, born, fresh, shrunk, mirror>>
    BY <1>4 DEF remoteVars
  <2>10. WalkInv(w)'
    <3>1. /\ worker[w].seen \subseteq mirror[p]
          /\ mirror[p] \cap fresh[p] \subseteq worker[w].seen
          /\ p \notin shrunk => worker[w].seen \subseteq kids[p]
      BY <1>1, <1>2 DEF DepInv, WalkInv
    <3>2. p \notin shrunk' =>
              /\ r.seen \cup r.page \subseteq kids'[p]
              /\ \A k \in kids'[p] \ fresh'[p] :
                    \/ k \in r.seen \cup r.page
                    \/ r.at = "fetch" /\ r.offset <= Rank(p, k)'
                    \/ r.at = "store" /\ FullPage(r.page)
                                      /\ r.offset + Limit <= Rank(p, k)'
      BY <2>2, <2>3, <2>7, <2>9, <3>1 DEF Rank
    <3>3. r.at = "store" /\ FullPage(r.page) => r.offset + Limit <= Cardinality(born'[p])
      BY <2>3, <2>6, <2>9
    <3>4. r.at # "fetch" /\ (r.at = "reconcile" => r.page = {})
      BY <2>3
    <3>5. r.page \subseteq born'[p]
      BY <2>1, <2>2, <2>3, <2>9
    <3> QED BY <2>3, <2>4, <2>9, <3>1, <3>2, <3>3, <3>4, <3>5, Walking
  <2> QED BY <1>1, <1>2, <1>4, <2>1, <2>3, <2>4, <2>5, <2>10, WalksOn
<1> QED BY <1>3, <1>4 DEF Fetch

LEMMA FetchFailsKeeps ==
    ASSUME DepInv, NEW w \in Workers, FetchFails(w)
    PROVE  DepInv'
<1>1. PICK end \in Ends \ {"complete"} : Send(w, end)
    BY DEF FetchFails, Ends, Failures
<1> QED BY <1>1, SendsOnly DEF FetchFails, Busy

LEMMA ReconcileFailsKeeps ==
    ASSUME DepInv, NEW w \in Workers, ReconcileFails(w)
    PROVE  DepInv'
BY SendsOnly DEF ReconcileFails, Busy, Ends, Failures

\* Rows of the worker's own parent are added to the mirror.
LEMMA RowsAdded ==
    ASSUME DepInv, NEW w \in Workers, Busy(w), NEW rows \in SUBSET worker[w].page,
           NEW p \in Parents, p = worker[w].parent,
           mirror' = [mirror EXCEPT ![p] = @ \cup rows],
           UNCHANGED <<remoteVars, table, attempt, phase, runVars, cancelled, drained, result>>,
           \A v \in Workers \ {w} : worker'[v] = worker[v]
    PROVE  OwnStep(w) /\ mirror'[p] = mirror[p] \cup rows
<1>1. worker[w].page \in SUBSET Kids /\ worker[w].page \subseteq born[p]
    BY BusyFacts
<1>2. mirror \in [Parents -> SUBSET Kids] /\ mirror[p] \subseteq born[p]
    BY DEF DepInv, TypeOK, RemoteInv
<1> QED BY <1>1, <1>2 DEF OwnStep

LEMMA StoreFailsKeeps ==
    ASSUME DepInv, NEW w \in Workers, StoreFails(w)
    PROVE  DepInv'
<1>1. Busy(w)
    BY DEF StoreFails, Busy
<1>2. PICK p \in Parents : p = worker[w].parent
    BY <1>1, BusyFacts
<1>3. PICK end \in Ends \ {"complete"}, rows \in SUBSET worker[w].page :
          Send(w, end) /\ mirror' = [mirror EXCEPT ![p] = @ \cup rows]
  <2>1. PICK end \in Faults \cap {"upsert_error", "typed_failure", "lost_items"} :
            /\ \E rows \in SUBSET worker[w].page :
                  mirror' = [mirror EXCEPT ![worker[w].parent] = @ \cup rows]
            /\ Send(w, end)
    BY DEF StoreFails
  <2>2. end \in Ends \ {"complete"}
    BY DEF Ends, Failures
  <2> QED BY <1>2, <2>1, <2>2
<1>4. \A v \in Workers \ {w} : worker'[v] = worker[v]
    BY <1>3 DEF Send, DepInv, TypeOK
<1>5. UNCHANGED <<remoteVars, table, attempt, phase, runVars, cancelled, jobs, drained, result>>
    BY DEF StoreFails
<1>6. OwnStep(w)
    BY <1>1, <1>2, <1>3, <1>4, <1>5, RowsAdded
<1> QED BY <1>1, <1>2, <1>3, <1>5, <1>6, SendsOff

LEMMA StorePageKeeps ==
    ASSUME DepInv, NEW w \in Workers, StorePage(w)
    PROVE  DepInv'
<1> DEFINE me == worker[w]
           capped == maxPages > 0 /\ me.pages + 1 >= maxPages
           next == [me EXCEPT !.seen = @ \cup me.page, !.pages = @ + 1]
           onward == [next EXCEPT !.at = "fetch", !.prev = me.page, !.page = {},
                                  !.offset = NextOffset(@)]
           last == [next EXCEPT !.at = "reconcile"]
<1>1. Busy(w) /\ me.at = "store"
    BY DEF StorePage, Busy
<1>2. PICK p \in Parents : p = worker[w].parent
    BY <1>1, BusyFacts
<1>3. /\ me \in WorkerRecords /\ me.page \in SUBSET Kids /\ me.seen \in SUBSET Kids
      /\ me.page \subseteq born[p] /\ me.offset \in Nat /\ me.pages \in Nat
      /\ me.offset <= Cardinality(born[p]) /\ Limit \in Nat
    BY <1>1, <1>2, BusyFacts, PagesAssumption
<1>4. /\ UNCHANGED <<remoteVars, table, attempt, phase, runVars, cancelled, jobs, drained,
                     result>>
      /\ UNCHANGED <<kids, born, fresh, shrunk>>
      /\ mirror' = [mirror EXCEPT ![p] = @ \cup me.page]
    BY <1>2 DEF StorePage, remoteVars
<1>5. \/ Send(w, "cap")
      \/ /\ FullPage(me.page) /\ worker' = [worker EXCEPT ![w] = onward]
         /\ UNCHANGED reports
      \/ /\ ~FullPage(me.page) /\ worker' = [worker EXCEPT ![w] = last]
         /\ UNCHANGED reports
    BY DEF StorePage
<1>6. \A v \in Workers \ {w} : worker'[v] = worker[v]
    BY <1>5 DEF Send, DepInv, TypeOK
<1>7. OwnStep(w) /\ mirror'[p] = mirror[p] \cup me.page
  <2>1. PICK rows \in SUBSET worker[w].page : rows = me.page
    OBVIOUS
  <2>2. UNCHANGED <<remoteVars, table, attempt, phase, runVars, cancelled, drained, result>>
    BY <1>4
  <2>3. mirror' = [mirror EXCEPT ![p] = @ \cup rows]
    BY <1>4, <2>1
  <2>4. Busy(w)
    BY <1>1
  <2>5. OwnStep(w) /\ mirror'[p] = mirror[p] \cup rows
    BY <1>2, <1>6, <2>2, <2>3, <2>4, RowsAdded
  <2> QED BY <2>1, <2>5
<1>8. /\ me.seen \subseteq mirror[p] /\ mirror[p] \cap fresh[p] \subseteq me.seen
      /\ FullPage(me.page) => me.offset + Limit <= Cardinality(born[p])
      /\ p \notin shrunk =>
            /\ me.seen \cup me.page \subseteq kids[p]
            /\ \A k \in kids[p] \ fresh[p] :
                  \/ k \in me.seen \cup me.page
                  \/ FullPage(me.page) /\ me.offset + Limit <= Rank(p, k)
    BY <1>1, <1>2 DEF DepInv, WalkInv, Unreached
<1>9. \A k : Rank(p, k)' = Rank(p, k)
    BY <1>4 DEF Rank
<1>10. CASE Send(w, "cap")
  <2>1. "cap" \in Ends \ {"complete"}
    BY DEF Ends
  <2> QED BY <1>1, <1>2, <1>4, <1>7, <1>10, <2>1, SendsOff
<1>11. CASE /\ FullPage(me.page) /\ worker' = [worker EXCEPT ![w] = onward]
            /\ UNCHANGED reports
  <2> DEFINE r == onward
  <2>1. /\ r \in WorkerRecords /\ r.parent = p /\ r.offset = me.offset + Limit
        /\ r.seen = me.seen \cup me.page /\ r.page = {} /\ r.at = "fetch"
    <3>1. me.offset + Limit \in Nat /\ me.pages + 1 \in Nat /\ me.seen \cup me.page \in SUBSET Kids
      BY <1>3
    <3>2. r = [me EXCEPT !.seen = me.seen \cup me.page, !.pages = me.pages + 1,
                         !.at = "fetch", !.prev = me.page, !.page = {},
                         !.offset = me.offset + Limit]
      BY <1>3 DEF WorkerRecords, NextOffset
    <3> HIDE DEF r
    <3>3. r \in WorkerRecords
      BY <1>3, <3>1, <3>2 DEF WorkerRecords
    <3> QED BY <1>2, <1>3, <3>2, <3>3 DEF WorkerRecords
  <2>2. worker' = [worker EXCEPT ![w] = r] /\ worker'[w] = r
    BY <1>11 DEF DepInv, TypeOK
  <2> HIDE DEF r, me
  <2>3. p \notin shrunk' =>
            /\ r.seen \cup r.page \subseteq kids'[p]
            /\ \A k \in kids'[p] \ fresh'[p] :
                  k \in r.seen \cup r.page \/ r.offset <= Rank(p, k)'
    BY <1>4, <1>8, <1>9, <2>1
  <2>4. WalkInv(w)'
    <3>1. r.page \subseteq born'[p]
      BY <2>1
    <3>2. r.seen \subseteq mirror'[p] /\ mirror'[p] \cap fresh'[p] \subseteq r.seen
      BY <1>4, <1>7, <1>8, <2>1
    <3> QED BY <2>1, <2>2, <2>3, <3>1, <3>2, Walking
  <2>5. r.offset <= Cardinality(born[r.parent])
    BY <1>8, <1>11, <2>1
  <2>6. UNCHANGED <<jobs, reports>>
    BY <1>4, <1>11
  <2>7. r.at \in {"fetch", "store", "reconcile"} /\ r.parent = worker[w].parent
    BY <1>2, <2>1
  <2> QED BY <1>1, <1>7, <2>1, <2>2, <2>4, <2>5, <2>6, <2>7, WalksOn
<1>12. CASE /\ ~FullPage(me.page) /\ worker' = [worker EXCEPT ![w] = last]
            /\ UNCHANGED reports
  <2> DEFINE r == last
  <2>1. /\ r \in WorkerRecords /\ r.parent = p /\ r.offset = me.offset
        /\ r.seen = me.seen \cup me.page /\ r.page = me.page /\ r.at = "reconcile"
    <3>1. me.pages + 1 \in Nat /\ me.seen \cup me.page \in SUBSET Kids
      BY <1>3
    <3>2. r = [me EXCEPT !.seen = me.seen \cup me.page, !.pages = me.pages + 1,
                         !.at = "reconcile"]
      BY <1>3 DEF WorkerRecords
    <3> HIDE DEF r
    <3>3. r \in WorkerRecords
      BY <1>3, <3>1, <3>2 DEF WorkerRecords
    <3> QED BY <1>2, <1>3, <3>2, <3>3 DEF WorkerRecords
  <2>2. worker' = [worker EXCEPT ![w] = r] /\ worker'[w] = r
    BY <1>12 DEF DepInv, TypeOK
  <2> HIDE DEF r, me
  <2>3. p \notin shrunk' =>
            /\ r.seen \cup r.page \subseteq kids'[p]
            /\ \A k \in kids'[p] \ fresh'[p] : k \in r.seen \cup r.page
    BY <1>4, <1>8, <1>12, <2>1
  <2>4. WalkInv(w)'
    <3>1. r.page \subseteq born'[p] /\ r.page \subseteq r.seen
      BY <1>3, <1>4, <2>1
    <3>2. r.seen \subseteq mirror'[p] /\ mirror'[p] \cap fresh'[p] \subseteq r.seen
      BY <1>4, <1>7, <1>8, <2>1
    <3> QED BY <2>1, <2>2, <2>3, <3>1, <3>2, Walking
  <2>5. r.offset <= Cardinality(born[r.parent])
    BY <1>3, <2>1
  <2>6. UNCHANGED <<jobs, reports>>
    BY <1>4, <1>12
  <2>7. r.at \in {"fetch", "store", "reconcile"} /\ r.parent = worker[w].parent
    BY <1>2, <2>1
  <2> QED BY <1>1, <1>7, <2>1, <2>2, <2>4, <2>5, <2>6, <2>7, WalksOn
<1> QED BY <1>5, <1>10, <1>11, <1>12

\* The sweep of a complete walk leaves exactly what the walk saw.
LEMMA ReconcileKeeps ==
    ASSUME DepInv, NEW w \in Workers, Reconcile(w)
    PROVE  DepInv'
<1>1. Busy(w) /\ worker[w].at = "reconcile" /\ Send(w, "complete")
    BY DEF Reconcile, Busy
<1>2. PICK p \in Parents : p = worker[w].parent
    BY <1>1, BusyFacts
<1>3. UNCHANGED <<remoteVars, table, attempt, phase, runVars, cancelled, jobs, drained, result>>
    BY DEF Reconcile
<1>4. /\ mirror' \in [Parents -> SUBSET Kids]
      /\ \A q \in Parents : q # p => mirror'[q] = mirror[q]
      /\ mirror'[p] = IF prune THEN mirror[p] \ ((mirror[p] \cap Scoped) \ worker[w].seen)
                      ELSE mirror[p]
    BY <1>2 DEF Reconcile, Unseen, DepInv, TypeOK
<1>5. OwnStep(w)
  <2>1. \A v \in Workers \ {w} : worker'[v] = worker[v]
    BY <1>1 DEF Send, DepInv, TypeOK
  <2>2. mirror'[p] \subseteq born[p]
    BY <1>4 DEF DepInv, RemoteInv
  <2> QED BY <1>2, <1>3, <1>4, <2>1, <2>2 DEF OwnStep
<1>6. Covered(p)'
  <2>1. /\ worker[w].seen \subseteq mirror[p]
        /\ p \notin shrunk => /\ worker[w].seen \subseteq kids[p]
                              /\ kids[p] \ fresh[p] \subseteq worker[w].seen
    BY <1>1, <1>2 DEF DepInv, WalkInv, Unreached
  <2> QED BY <1>3, <1>4, <2>1 DEF Covered, remoteVars, runVars
<1>7. "complete" \in Ends
    BY DEF Ends
<1> QED BY <1>1, <1>2, <1>3, <1>5, <1>6, <1>7, SendsOff

LEMMA TakeKeeps ==
    ASSUME DepInv, NEW w \in Workers, Take(w)
    PROVE  DepInv'
<1>1. /\ worker[w].at = "take" /\ ~Busy(w)
      /\ UNCHANGED <<remoteVars, table, mirror, attempt, phase, runVars, cancelled, reports,
                     drained, result>>
    BY DEF Take, Busy
<1>2. phase = "drain" /\ phase' = phase
    BY <1>1 DEF Off, DepInv, IdleInv
<1>3. jobs' \subseteq jobs /\ jobs \subseteq snapshot /\ snapshot \subseteq Parents
    BY DEF Take, DepInv, TypeOK
<1>4. PICK r \in WorkerRecords :
          /\ worker' = [worker EXCEPT ![w] = r]
          /\ \/ r = Off
             \/ /\ r.parent \in jobs \ jobs' /\ r.at = "fetch" /\ r.offset = 0
                /\ r.page = {} /\ r.seen = {}
  <2>1. CASE Goes(w)
    BY <2>1, Idlers DEF Goes
  <2>2. CASE \E p \in jobs : /\ jobs' = jobs \ {p}
                             /\ worker' = [worker EXCEPT ![w] =
                                    [Ready EXCEPT !.at = "fetch", !.parent = p]]
    <3>1. PICK p \in jobs : /\ jobs' = jobs \ {p}
                            /\ worker' = [worker EXCEPT ![w] =
                                   [Ready EXCEPT !.at = "fetch", !.parent = p]]
      BY <2>2
    <3> DEFINE r == [Ready EXCEPT !.at = "fetch", !.parent = p]
    <3>2. /\ r \in WorkerRecords /\ r.parent = p /\ r.at = "fetch" /\ r.offset = 0
          /\ r.page = {} /\ r.seen = {}
      BY <1>3 DEF Ready, Off, WorkerRecords
    <3>3. worker' = [worker EXCEPT ![w] = r]
      BY <3>1
    <3> HIDE DEF r
    <3> QED BY <3>1, <3>2, <3>3
  <2> QED BY <2>1, <2>2 DEF Take
<1>5. worker'[w] = r /\ \A v \in Workers \ {w} : worker'[v] = worker[v]
    BY <1>4 DEF DepInv, TypeOK
<1>6. UNCHANGED <<kids, born, fresh, shrunk, mirror, snapshot, reports, drained>> /\ Sent' = Sent
    BY <1>1 DEF remoteVars, runVars, Sent
<1>7. OwnStep(w)
    BY <1>1, <1>5 DEF OwnStep, Busy, DepInv, TypeOK
<1>8. r.at # "fetch" => r = Off
    BY <1>4
<1>9. Off.at = "gone" /\ Off.offset = 0
    BY DEF Off
<1>10. TypeOK'
  <2>1. worker' \in [Workers -> WorkerRecords]
    BY <1>4 DEF DepInv, TypeOK, WorkerRecords
  <2>2. r.parent \in Parents => r.offset <= Cardinality(born[r.parent])
    BY <1>4, <1>9, SizeGrows DEF DepInv, TypeOK
  <2>3. OffsetsInRange'
    BY <1>5, <1>6, <2>2 DEF DepInv, TypeOK, OffsetsInRange
  <2> QED BY <1>1, <1>3, <2>1, <2>3 DEF DepInv, TypeOK, remoteVars, runVars, WorkerRecords
<1>11. RemoteInv' /\ IdleInv' /\ UntakenInv'
    BY <1>2, <1>3, <1>6 DEF DepInv, RemoteInv, IdleInv, UntakenInv
<1>12. PoolInv'
  <2>1. \A v \in Workers : Busy(v)' /\ v # w => Busy(v) /\ worker'[v] = worker[v]
    BY <1>5 DEF Busy
  <2>2. Busy(w)' => r.parent \in jobs \ jobs'
    BY <1>4, <1>5, <1>9 DEF Busy
  <2>3. \A v \in Workers : Busy(v) => worker[v].parent \notin jobs
    BY DEF DepInv, PoolInv
  <2>4. \A v \in Workers : Busy(v)' => worker'[v].parent \in snapshot' \ jobs'
    BY <1>3, <1>5, <1>6, <2>1, <2>2 DEF DepInv, PoolInv
  <2>5. \A u, v \in Workers :
            Busy(u)' /\ Busy(v)' /\ worker'[u].parent = worker'[v].parent => u = v
    BY <1>5, <2>1, <2>2, <2>3 DEF DepInv, PoolInv
  <2>6. \A q \in Sent : /\ q.parent \in snapshot \ jobs
                        /\ \A v \in Workers : Busy(v) => worker[v].parent # q.parent
                        /\ \A z \in Sent : z.parent = q.parent => z = q
    BY DEF DepInv, PoolInv
  <2>7. \A q \in Sent, v \in Workers : Busy(v)' => worker'[v].parent # q.parent
    BY <1>5, <2>1, <2>2, <2>6
  <2> QED BY <1>3, <1>6, <2>4, <2>5, <2>6, <2>7 DEF PoolInv
<1>13. DoneInv'
    BY <1>1, <1>6 DEF DepInv, DoneInv, Covered, remoteVars, runVars
<1>14. ASSUME NEW v \in Workers PROVE WalkInv(v)'
  <2>1. CASE v # w
    BY <1>5, <1>6, <2>1 DEF DepInv, WalkInv, Busy, Unreached, Rank, FullPage
  <2>2. CASE v = w /\ r = Off
    BY <1>5, <1>9, <2>2 DEF WalkInv, Busy
  <2>3. CASE v = w /\ r # Off
    <3> DEFINE p == r.parent
    <3>1. /\ p \in jobs /\ p \in Parents /\ r.at = "fetch" /\ r.offset = 0
          /\ r.page = {} /\ r.seen = {}
      BY <1>3, <1>4, <2>3
    <3> HIDE DEF p
    <3>2. mirror[p] \cap fresh[p] = {}
      BY <3>1 DEF DepInv, UntakenInv
    <3>3. \A k : 0 <= Rank(p, k)'
      <4>1. kids[p] \in SUBSET Kids
        BY <3>1 DEF DepInv, TypeOK
      <4>2. ASSUME NEW k PROVE Rank(p, k) \in Nat
        BY <4>1, PlaceType, RankIsPlace
      <4> QED BY <1>6, <4>2 DEF Rank
    <3>4. r.parent = p
      BY DEF p
    <3> QED BY <1>5, <1>6, <2>3, <3>1, <3>2, <3>3, <3>4, Walking
  <2> QED BY <2>1, <2>2, <2>3
<1> QED BY <1>10, <1>11, <1>12, <1>13, <1>14 DEF DepInv

LEMMA WorkKeeps ==
    ASSUME DepInv, NEW w \in Workers, Work(w)
    PROVE  DepInv'
BY TakeKeeps, FetchKeeps, FetchFailsKeeps, StorePageKeeps, StoreFailsKeeps, ReconcileKeeps,
   ReconcileFailsKeeps DEF Work

-----------------------------------------------------------------------------
(* The collector, the command and the API.                                  *)

Attempts == {"none", "incomplete", "complete"}
Results  == {"none", "ok", "warn", "error", "integrity"}

\* The call is over: there is no pool, and no history.
LEMMA ReturnKeeps ==
    ASSUME DepInv, Return, attempt' \in Attempts, result' \in Results
    PROVE  DepInv'
<1>1. /\ phase' = "idle" /\ snapshot' = {} /\ jobs' = {} /\ reports' = {} /\ drained' = {}
      /\ shrunk' = {} /\ fresh' = [p \in Parents |-> {}]
      /\ worker' = [w \in Workers |-> Off]
      /\ UNCHANGED <<kids, born, table, mirror>>
      /\ prune' = FALSE /\ maxPages' = 0 /\ cancelled' = FALSE
    BY DEF Return
<1>2. Off.at = "gone" /\ Off.offset = 0
    BY DEF Off
<1>3. OffsetsInRange'
    BY <1>1, <1>2, SizeGrows DEF DepInv, TypeOK, OffsetsInRange
<1>4. worker' \in [Workers -> WorkerRecords] /\ fresh' \in [Parents -> SUBSET Kids]
    BY <1>1, Idlers
<1>5. TypeOK'
    BY <1>1, <1>3, <1>4 DEF DepInv, TypeOK, Attempts, Results, WorkerRecords
<1>6. \A w \in Workers : ~Busy(w)'
    BY <1>1, <1>2 DEF Busy
<1>7. Sent' = {}
    BY <1>1 DEF Sent
<1>8. RemoteInv' /\ IdleInv' /\ UntakenInv'
    BY <1>1 DEF DepInv, RemoteInv, IdleInv, UntakenInv
<1> QED BY <1>5, <1>6, <1>7, <1>8 DEF DepInv, PoolInv, WalkInv, DoneInv

\* What the pool, its walks and reports and the API hold stays as it is.
LEMMA FrameKeeps ==
    ASSUME DepInv, UNCHANGED <<remoteVars, mirror, snapshot, jobs, worker>>,
           UNCHANGED Sent, reports' \subseteq Sent, drained' \subseteq Sent,
           table' \subseteq Parents, attempt' \in Attempts, result' \in Results,
           prune' \in BOOLEAN, cancelled' \in BOOLEAN, maxPages' \in MaxPages \cup {0},
           \/ phase' = phase
           \/ phase # "drain" /\ phase' \in {"start", "marked"},
           prune' = prune \/ Sent = {}
    PROVE  DepInv'
<1>1. UNCHANGED <<kids, born, fresh, shrunk>>
    BY DEF remoteVars
<1>2. TypeOK'
  <2>1. reports' \subseteq Report /\ drained' \subseteq Report
    BY DEF DepInv, TypeOK, Sent
  <2>2. OffsetsInRange'
    BY <1>1 DEF DepInv, TypeOK, OffsetsInRange
  <2>3. phase' \in {"idle", "start", "marked", "drain"}
    BY DEF DepInv, TypeOK
  <2> QED BY <1>1, <2>1, <2>2, <2>3 DEF DepInv, TypeOK, Attempts, Results
<1>3. RemoteInv' /\ UntakenInv'
    BY <1>1 DEF DepInv, RemoteInv, UntakenInv
<1>4. IdleInv'
    BY DEF DepInv, IdleInv, Sent
<1>5. PoolInv'
    BY DEF DepInv, PoolInv, Busy
<1>6. \A w \in Workers : WalkInv(w)'
    BY <1>1 DEF DepInv, WalkInv, Busy, Unreached, Rank, FullPage
<1>7. DoneInv'
    BY <1>1 DEF DepInv, DoneInv, Covered
<1> QED BY <1>2, <1>3, <1>4, <1>5, <1>6, <1>7 DEF DepInv

LEMMA SpawnKeeps ==
    ASSUME DepInv, Spawn
    PROVE  DepInv'
<1>1. /\ phase = "marked" /\ phase' = "drain" /\ snapshot' = table /\ jobs' = table
      /\ reports' = {} /\ drained' = drained
      /\ UNCHANGED <<kids, born, fresh, shrunk, table, mirror, attempt, prune, maxPages,
                     cancelled, result>>
    BY DEF Spawn, remoteVars
<1>2. PICK started \in SUBSET Workers :
          worker' = [w \in Workers |-> IF w \in started THEN Ready ELSE Off]
    BY DEF Spawn
<1>3. \A w \in Workers : worker'[w] \in {Off, Ready}
    BY <1>2
<1>4. /\ Off.at = "gone" /\ Off.offset = 0 /\ Off.parent = "none"
      /\ Ready.at = "take" /\ Ready.offset = 0 /\ Ready.parent = "none"
    BY DEF Off, Ready
<1>5. Sent' = {}
    BY <1>1 DEF DepInv, IdleInv, Sent
<1>6. \A w \in Workers : ~Busy(w)'
    BY <1>3, <1>4 DEF Busy
<1>7. TypeOK'
  <2>1. OffsetsInRange'
    BY <1>1, <1>3, <1>4, SizeGrows DEF DepInv, TypeOK, OffsetsInRange
  <2>2. worker' \in [Workers -> WorkerRecords]
    BY <1>2, Idlers
  <2> QED BY <1>1, <2>1, <2>2 DEF DepInv, TypeOK, WorkerRecords
<1>8. RemoteInv' /\ IdleInv' /\ UntakenInv'
    BY <1>1 DEF DepInv, RemoteInv, IdleInv, UntakenInv
<1> QED BY <1>5, <1>6, <1>7, <1>8 DEF DepInv, PoolInv, WalkInv, DoneInv

\* A child that is created heads the listing of its parent: the others move
\* away from the head, and it is fresh, when a run is on.
LEMMA AddKidKeeps ==
    ASSUME DepInv, NEW p \in Parents, NEW k \in Kids, AddKid(p, k)
    PROVE  DepInv'
<1>1. /\ kids' = [kids EXCEPT ![p] = @ \cup {k}]
      /\ born' = [born EXCEPT ![p] = @ \cup {k}]
      /\ fresh' = IF phase = "idle" THEN fresh ELSE [fresh EXCEPT ![p] = @ \cup {k}]
      /\ UNCHANGED <<shrunk, table, mirror, attempt, phase, prune, maxPages, snapshot,
                     cancelled, jobs, worker, reports, drained, result>>
    BY DEF AddKid, runVars, poolVars
<1>2. kids \in [Parents -> SUBSET Kids] /\ born \in [Parents -> SUBSET Kids]
      /\ fresh \in [Parents -> SUBSET Kids]
    BY DEF DepInv, TypeOK
<1>3. /\ kids' \in [Parents -> SUBSET Kids] /\ born' \in [Parents -> SUBSET Kids]
      /\ fresh' \in [Parents -> SUBSET Kids]
    BY <1>1, <1>2
<1>4. k \notin born[p]
  <2>1. k \in Nat /\ \A j \in born[p] : j < k
    BY KidsAssumption DEF AddKid
  <2> QED BY <2>1
<1>5. \A q \in Parents : kids[q] \subseteq kids'[q] /\ born[q] \subseteq born'[q]
                         /\ kids'[q] \subseteq born'[q]
    BY <1>1, <1>2 DEF DepInv, RemoteInv
<1>6. \A q \in Parents : mirror[q] \cap fresh'[q] = mirror[q] \cap fresh[q]
    BY <1>1, <1>2, <1>4 DEF DepInv, RemoteInv
<1>7. phase # "idle" => \A q \in Parents : kids'[q] \ fresh'[q] \subseteq kids[q] \ fresh[q]
    BY <1>1, <1>2, <1>4
<1>8. \A q \in Parents : Cardinality(born[q]) <= Cardinality(born'[q])
                         /\ Cardinality(born[q]) \in Nat /\ Cardinality(born'[q]) \in Nat
  <2> SUFFICES ASSUME NEW q \in Parents
               PROVE  Cardinality(born[q]) <= Cardinality(born'[q])
                      /\ Cardinality(born[q]) \in Nat /\ Cardinality(born'[q]) \in Nat
    OBVIOUS
  <2>1. born[q] \in SUBSET Kids /\ born'[q] \in SUBSET Kids
    BY <1>2, <1>3
  <2> QED BY <1>5, <2>1, SizeGrows
<1>9. \A q \in Parents : \A j : Rank(q, j) <= Rank(q, j)' /\ Rank(q, j) \in Nat
                            /\ Rank(q, j)' \in Nat
  <2> SUFFICES ASSUME NEW q \in Parents, NEW j
               PROVE  Rank(q, j) <= Rank(q, j)' /\ Rank(q, j) \in Nat
                      /\ Rank(q, j)' \in Nat
    OBVIOUS
  <2>1. kids[q] \in SUBSET Kids /\ kids'[q] \in SUBSET Kids
    BY <1>2, <1>3
  <2>2. Rank(q, j) = Place(kids[q], j) /\ Rank(q, j)' = Place(kids'[q], j)
    BY DEF Rank, Place, Newer
  <2> QED BY <1>5, <2>1, <2>2, PlaceGrows, PlaceType
<1>10. TypeOK'
  <2>1. OffsetsInRange'
    <3> SUFFICES ASSUME NEW w \in Workers, worker[w].parent \in Parents
                 PROVE  worker[w].offset <= Cardinality(born'[worker[w].parent])
      BY <1>1 DEF OffsetsInRange
    <3>1. worker[w].offset <= Cardinality(born[worker[w].parent])
          /\ worker[w].offset \in Nat
      BY WorkerType DEF DepInv, TypeOK, OffsetsInRange
    <3> QED BY <1>8, <3>1
  <2> QED BY <1>1, <1>3, <2>1 DEF DepInv, TypeOK
<1>11. RemoteInv' /\ IdleInv' /\ UntakenInv'
  <2>1. RemoteInv'
    BY <1>1, <1>5 DEF DepInv, RemoteInv
  <2>2. UntakenInv'
    BY <1>1, <1>6 DEF DepInv, UntakenInv
  <2> QED BY <1>1, <2>1, <2>2 DEF DepInv, IdleInv
<1>12. PoolInv'
    BY <1>1 DEF DepInv, PoolInv, Busy, Sent
<1>13. DoneInv'
  <2> SUFFICES ASSUME NEW r \in Sent, r.end = "complete" PROVE Covered(r.parent)'
    BY <1>1 DEF DoneInv, Sent
  <2>1. phase = "drain" /\ r.parent \in Parents /\ Covered(r.parent)
    BY DEF DepInv, IdleInv, DoneInv, PoolInv, TypeOK, Sent
  <2> QED BY <1>1, <1>5, <1>7, <2>1 DEF Covered
<1>14. ASSUME NEW w \in Workers PROVE WalkInv(w)'
  <2>1. CASE ~Busy(w)
    BY <1>1, <2>1 DEF WalkInv, Busy
  <2>2. CASE Busy(w)
    <3>1. PICK q \in Parents : q = worker[w].parent
      BY <2>2, BusyFacts
    <3>2. worker[w] \in WorkerRecords /\ worker[w].offset \in Nat /\ Limit \in Nat
      BY <2>2, BusyFacts, PagesAssumption
    <3>3. phase # "idle"
      BY <2>2 DEF DepInv, IdleInv, Busy, Off
    <3>4. PICK r \in WorkerRecords : r = worker[w] /\ worker'[w] = r /\ r.parent = q
      BY <1>1, <3>1, <3>2
    <3>5. /\ r.seen \subseteq mirror[q] /\ r.page \subseteq born[q]
          /\ mirror[q] \cap fresh[q] \subseteq r.seen
          /\ r.at = "store" /\ FullPage(r.page) => r.offset + Limit <= Cardinality(born[q])
          /\ r.at = "fetch" => r.page = {}
          /\ r.at = "reconcile" => r.page \subseteq r.seen
      BY <2>2, <3>1, <3>4 DEF DepInv, WalkInv
    <3>6. q \notin shrunk =>
            /\ r.seen \cup r.page \subseteq kids[q]
            /\ \A j \in kids[q] \ fresh[q] :
                  \/ j \in r.seen \cup r.page
                  \/ r.at = "fetch" /\ r.offset <= Rank(q, j)
                  \/ r.at = "store" /\ FullPage(r.page) /\ r.offset + Limit <= Rank(q, j)
      BY <2>2, <3>1, <3>4 DEF DepInv, WalkInv, Unreached
    <3>7. q \notin shrunk' =>
            /\ r.seen \cup r.page \subseteq kids'[q]
            /\ \A j \in kids'[q] \ fresh'[q] :
                  \/ j \in r.seen \cup r.page
                  \/ r.at = "fetch" /\ r.offset <= Rank(q, j)'
                  \/ r.at = "store" /\ FullPage(r.page) /\ r.offset + Limit <= Rank(q, j)'
      <4> SUFFICES ASSUME q \notin shrunk
                   PROVE  /\ r.seen \cup r.page \subseteq kids'[q]
                          /\ \A j \in kids'[q] \ fresh'[q] :
                                \/ j \in r.seen \cup r.page
                                \/ r.at = "fetch" /\ r.offset <= Rank(q, j)'
                                \/ r.at = "store" /\ FullPage(r.page)
                                                  /\ r.offset + Limit <= Rank(q, j)'
        BY <1>1
      <4>1. r.seen \cup r.page \subseteq kids'[q]
        BY <1>5, <3>6
      <4>2. ASSUME NEW j \in kids'[q] \ fresh'[q]
            PROVE  \/ j \in r.seen \cup r.page
                   \/ r.at = "fetch" /\ r.offset <= Rank(q, j)'
                   \/ r.at = "store" /\ FullPage(r.page) /\ r.offset + Limit <= Rank(q, j)'
        <5>1. j \in kids[q] \ fresh[q]
          BY <1>7, <3>3, <4>2
        <5>2. r.offset \in Nat
          BY <3>2, <3>4
        <5>3. Rank(q, j) <= Rank(q, j)' /\ Rank(q, j) \in Nat /\ Rank(q, j)' \in Nat
          BY <1>9
        <5>4. /\ r.offset <= Rank(q, j) => r.offset <= Rank(q, j)'
              /\ r.offset + Limit <= Rank(q, j) => r.offset + Limit <= Rank(q, j)'
          BY <3>2, <5>2, <5>3
        <5> QED BY <3>6, <5>1, <5>4
      <4> QED BY <4>1, <4>2
    <3>8. r.at = "store" /\ FullPage(r.page) => r.offset + Limit <= Cardinality(born'[q])
      <4>1. r.offset \in Nat
        BY <3>2, <3>4
      <4> QED BY <1>8, <3>2, <3>5, <4>1
    <3>9. /\ r.seen \subseteq mirror'[q] /\ r.page \subseteq born'[q]
          /\ mirror'[q] \cap fresh'[q] \subseteq r.seen
      BY <1>1, <1>5, <1>6, <3>5
    <3> QED BY <3>4, <3>5, <3>7, <3>8, <3>9, Walking
  <2> QED BY <2>1, <2>2
<1> QED BY <1>10, <1>11, <1>12, <1>13, <1>14 DEF DepInv

\* A listing that loses a child is one nothing more is said of.
LEMMA DropKidKeeps ==
    ASSUME DepInv, NEW p \in Parents, NEW k \in Kids, DropKid(p, k)
    PROVE  DepInv'
<1>1. /\ kids' = [kids EXCEPT ![p] = @ \ {k}]
      /\ shrunk' = IF phase = "idle" THEN shrunk ELSE shrunk \cup {p}
      /\ UNCHANGED <<born, fresh, table, mirror, attempt, phase, prune, maxPages, snapshot,
                     cancelled, jobs, worker, reports, drained, result>>
    BY DEF DropKid, runVars, poolVars
<1>2. kids \in [Parents -> SUBSET Kids]
    BY DEF DepInv, TypeOK
<1>3. \A q \in Parents : kids'[q] \subseteq kids[q] /\ (q # p => kids'[q] = kids[q])
    BY <1>1, <1>2
<1>4. TypeOK'
  <2>1. OffsetsInRange'
    BY <1>1 DEF DepInv, TypeOK, OffsetsInRange
  <2>2. kids' \in [Parents -> SUBSET Kids] /\ shrunk' \subseteq Parents
    BY <1>1, <1>2 DEF DepInv, TypeOK
  <2> QED BY <1>1, <2>1, <2>2 DEF DepInv, TypeOK
<1>5. RemoteInv' /\ IdleInv' /\ UntakenInv'
  <2>1. RemoteInv'
    BY <1>1, <1>3 DEF DepInv, RemoteInv
  <2> QED BY <1>1, <2>1 DEF DepInv, IdleInv, UntakenInv
<1>6. PoolInv'
    BY <1>1 DEF DepInv, PoolInv, Busy, Sent
<1>7. ASSUME NEW q \in Parents, phase # "idle", q \notin shrunk'
      PROVE  q \notin shrunk /\ kids'[q] = kids[q]
    BY <1>1, <1>3, <1>7
<1>8. DoneInv'
  <2> SUFFICES ASSUME NEW r \in Sent, r.end = "complete" PROVE Covered(r.parent)'
    BY <1>1 DEF DoneInv, Sent
  <2>1. phase = "drain" /\ r.parent \in Parents /\ Covered(r.parent)
    BY DEF DepInv, IdleInv, DoneInv, PoolInv, TypeOK, Sent
  <2> QED BY <1>1, <1>7, <2>1 DEF Covered
<1>9. ASSUME NEW w \in Workers PROVE WalkInv(w)'
  <2>1. CASE ~Busy(w)
    BY <1>1, <2>1 DEF WalkInv, Busy
  <2>2. CASE Busy(w)
    <3>1. PICK q \in Parents : q = worker[w].parent
      BY <2>2, BusyFacts
    <3>2. phase # "idle"
      BY <2>2 DEF DepInv, IdleInv, Busy, Off
    <3>3. WalkInv(w) /\ UNCHANGED <<worker, mirror, born, fresh>>
      BY <1>1 DEF DepInv
    <3>4. CASE q \in shrunk'
      BY <2>2, <3>1, <3>3, <3>4 DEF WalkInv, Busy, FullPage
    <3>5. CASE q \notin shrunk'
      <4>1. q \notin shrunk /\ kids'[q] = kids[q]
        BY <1>7, <3>2, <3>5
      <4>2. \A j : Rank(q, j)' = Rank(q, j)
        BY <4>1 DEF Rank
      <4>3. \A j : Unreached(w, j)' <=> Unreached(w, j)
        BY <3>1, <3>3, <4>2 DEF Unreached, FullPage
      <4> QED BY <2>2, <3>1, <3>3, <4>1, <4>3 DEF WalkInv, Busy, FullPage
    <3> QED BY <3>4, <3>5
  <2> QED BY <2>1, <2>2
<1> QED BY <1>4, <1>5, <1>6, <1>8, <1>9 DEF DepInv

LEMMA ParentRowsKeeps ==
    ASSUME DepInv, NEW rows \in SUBSET Parents, ParentRows(rows)
    PROVE  DepInv'
<1>1. UNCHANGED <<remoteVars, mirror, snapshot, jobs, worker, attempt, phase, prune, maxPages,
                  cancelled, reports, drained, result>>
    BY DEF ParentRows, runVars, poolVars
<1> QED BY <1>1, FrameKeeps DEF ParentRows, Sent, DepInv, TypeOK, Attempts, Results

LEMMA BeginKeeps ==
    ASSUME DepInv, NEW full \in BOOLEAN, NEW pages \in MaxPages, Begin(full, pages)
    PROVE  DepInv'
<1>1. /\ UNCHANGED <<remoteVars, mirror, table, attempt, snapshot, cancelled, jobs, worker,
                     reports, drained>>
      /\ phase = "idle" /\ phase' = "start" /\ prune' = full /\ maxPages' = pages
      /\ result' = "none"
    BY DEF Begin, poolVars
<1>2. Sent = {} /\ Sent' = Sent
    BY <1>1 DEF DepInv, IdleInv, Sent
<1> QED BY <1>1, <1>2, FrameKeeps DEF Sent, DepInv, TypeOK, Attempts, Results

LEMMA MarkAttemptKeeps ==
    ASSUME DepInv, MarkAttempt
    PROVE  DepInv'
<1>1. /\ UNCHANGED <<remoteVars, mirror, table, snapshot, prune, maxPages, cancelled, jobs,
                     worker, reports, drained, result>>
      /\ phase = "start" /\ phase' = "marked" /\ attempt' = "incomplete"
    BY DEF MarkAttempt, poolVars, runVars
<1> QED BY <1>1, FrameKeeps DEF Sent, DepInv, TypeOK, Attempts, Results

LEMMA CancelKeeps ==
    ASSUME DepInv, Cancel
    PROVE  DepInv'
<1>1. /\ UNCHANGED <<remoteVars, mirror, table, snapshot, prune, maxPages, attempt, phase, jobs,
                     worker, reports, drained, result>>
      /\ cancelled' = TRUE
    BY DEF Cancel, poolVars, runVars
<1> QED BY <1>1, FrameKeeps DEF Sent, DepInv, TypeOK, Attempts, Results

LEMMA DrainKeeps ==
    ASSUME DepInv, NEW r \in reports, Drain(r)
    PROVE  DepInv'
<1>1. /\ UNCHANGED <<remoteVars, mirror, table, snapshot, prune, maxPages, attempt, phase, jobs,
                     worker, cancelled, result>>
      /\ reports' = reports \ {r} /\ drained' = drained \cup {r}
    BY DEF Drain, runVars
<1> QED BY <1>1, FrameKeeps DEF Sent, DepInv, TypeOK, Attempts, Results

\* The ways a call returns, and what each of them writes.
LEMMA Returns ==
    ASSUME DepInv, NoParents \/ Conclude \/ StateFails \/ Crash
    PROVE  Return /\ attempt' \in Attempts /\ result' \in Results
BY DEF NoParents, Conclude, StateFails, Crash, Shortfall, DepInv, TypeOK, Attempts, Results

LEMMA NextKeeps ==
    ASSUME DepInv, [Next]_vars
    PROVE  DepInv'
<1>1. CASE UNCHANGED vars
  <2>1. UNCHANGED <<remoteVars, mirror, table, snapshot, prune, maxPages, attempt, phase, jobs,
                    worker, reports, drained, cancelled, result>>
    BY <1>1 DEF vars, poolVars, runVars
  <2> QED BY <2>1, FrameKeeps DEF Sent, DepInv, TypeOK, Attempts, Results
<1>2. CASE Outside
    BY <1>2, AddKidKeeps, DropKidKeeps, ParentRowsKeeps DEF Outside
<1>3. CASE NoParents \/ Conclude \/ StateFails \/ Crash
    BY <1>3, Returns, ReturnKeeps
<1>4. CASE Cancel \/ MarkAttempt \/ Spawn \/ \E r \in reports : Drain(r)
    BY <1>4, CancelKeeps, MarkAttemptKeeps, SpawnKeeps, DrainKeeps
<1>5. CASE \E full \in BOOLEAN, pages \in MaxPages : Begin(full, pages)
    BY <1>5, BeginKeeps
<1>6. CASE \E w \in Workers : Work(w)
    BY <1>6, WorkKeeps
<1> QED BY <1>1, <1>2, <1>3, <1>4, <1>5, <1>6 DEF Next, Collector

LEMMA InitHolds ==
    ASSUME Init
    PROVE  DepInv
<1>1. born \in [Parents -> SUBSET Kids] /\ kids = born
    BY StartAssumption DEF Init
<1>2. \A w \in Workers : worker[w] = Off
    BY DEF Init
<1>3. Off.at = "gone" /\ Off.offset = 0
    BY DEF Off
<1>4. \A w \in Workers : ~Busy(w)
    BY <1>2, <1>3 DEF Busy
<1>5. Sent = {}
    BY DEF Init, Sent
<1>6. TypeOK
  <2>1. OffsetsInRange
    BY <1>1, <1>2, <1>3, SizeGrows DEF OffsetsInRange
  <2>2. worker \in [Workers -> WorkerRecords]
    BY Idlers DEF Init
  <2> QED BY <1>1, <2>1, <2>2 DEF TypeOK, Init, WorkerRecords
<1>7. RemoteInv /\ IdleInv /\ UntakenInv
    BY <1>1, <1>2 DEF Init, RemoteInv, IdleInv, UntakenInv
<1> QED BY <1>4, <1>5, <1>6, <1>7 DEF DepInv, PoolInv, WalkInv, DoneInv

\* One owner for each parent, what each walk has and what each report stands
\* for: the invariant behind everything below (syncDependentResource).
THEOREM DependentInvariant == Spec => []DepInv
<1>1. Init => DepInv
    BY InitHolds
<1>2. DepInv /\ [Next]_vars => DepInv'
    BY NextKeeps
<1> QED BY <1>1, <1>2, PTL DEF Spec

\* The state keeps its shape, and a page is asked for only where the parent
\* had children (syncOneParent's offset).
THEOREM DependentTyped == Spec => []TypeOK
<1>1. DepInv => TypeOK
    BY DEF DepInv
<1> QED BY <1>1, DependentInvariant, PTL

-----------------------------------------------------------------------------
(* What a run that is complete, or returns, stands for.                     *)

\* As many complete reports as parents, at most one for each: one for each.
LEMMA EachComplete ==
    ASSUME DepInv, AllComplete
    PROVE  \A p \in snapshot : \E r \in EndedBy({"complete"}) : r.parent = p
<1> DEFINE S == EndedBy({"complete"})
           f == [r \in S |-> r.parent]
<1>1. \A r \in S : r \in Sent /\ r.parent \in snapshot
    BY DEF EndedBy, Sent, DepInv, PoolInv
<1>2. f \in [S -> snapshot]
    BY <1>1
<1>3. \A a, c \in S : f[a] = f[c] => a = c
    BY <1>1 DEF DepInv, PoolInv
<1>4. f \in Injection(S, snapshot)
    BY <1>2, <1>3, Fun_IsInj
<1>5. IsFiniteSet(snapshot)
    BY PoolAssumption, FS_Subset DEF DepInv, TypeOK
<1>6. Cardinality(S) = Cardinality(snapshot)
    BY DEF AllComplete
<1>7. f \in Surjection(S, snapshot)
    BY <1>4, <1>5, <1>6, FS_Injection
<1>8. \A p \in snapshot : \E r \in S : f[r] = p
  <2> HIDE DEF f, S
  <2> QED BY <1>7 DEF Surjection
<1> QED BY <1>8

\* The readiness flag is set in one place.
LEMMA OnlyConclude ==
    ASSUME DepInv, [Next]_vars, attempt' = "complete", attempt # "complete"
    PROVE  AllComplete
<1>1. CASE Conclude
    BY <1>1 DEF Conclude
<1>2. CASE \E w \in Workers : Work(w)
    BY <1>2 DEF Work, Take, Fetch, FetchFails, StorePage, StoreFails, Reconcile, ReconcileFails
<1> QED BY <1>1, <1>2 DEF vars, Next, Outside, AddKid, DropKid, ParentRows, Cancel, Crash, Collector,
        MarkAttempt, NoParents, Spawn, StateFails, Drain, Begin

LEMMA CoveredWhenComplete ==
    ASSUME DepInv, AllComplete, NEW p \in snapshot
    PROVE  Covered(p) /\ \E r \in drained : r.parent = p
<1>1. PICK r \in EndedBy({"complete"}) : r.parent = p
    BY EachComplete
<1>2. r \in drained /\ r \in Sent /\ r.end = "complete"
    BY DEF EndedBy, Sent
<1> QED BY <1>1, <1>2 DEF DepInv, DoneInv

\* The flag tells that every parent's children are there (the aggregation
\* after the drain barrier).
THEOREM CompleteCovered == Spec => CompleteCovers
<1>1. DepInv /\ [Next]_vars =>
        [attempt' = "complete" /\ attempt # "complete" =>
            /\ \A p \in snapshot \ shrunk : kids[p] \ fresh[p] \subseteq mirror[p]
            /\ \A p \in snapshot : \E r \in drained : r.parent = p]_vars
    BY OnlyConclude, CoveredWhenComplete DEF Covered
<1> QED BY <1>1, DependentInvariant, PTL DEF Spec, CompleteCovers

\* A --full run that sets the flag has the deletions too (ReconcilePartition).
THEOREM DeletionsMirrored == Spec => CompleteMirrorsDeletions
<1>1. DepInv /\ [Next]_vars =>
        [attempt' = "complete" /\ attempt # "complete" /\ prune =>
            \A p \in snapshot \ shrunk : mirror[p] \cap Scoped \subseteq kids[p]]_vars
    BY OnlyConclude, CoveredWhenComplete DEF Covered
<1> QED BY <1>1, DependentInvariant, PTL DEF Spec, CompleteMirrorsDeletions

LEMMA HonestStep ==
    ASSUME DepInv, [Next]_vars, result' # result, result' # "none"
    PROVE  /\ EndedBy(Integrity) # {} => result' = "integrity"
           /\ result' = "ok" => \A p \in snapshot :
                                   [parent |-> p, end |-> "complete"] \in drained
<1>1. CASE NoParents
  <2>1. drained = {} /\ snapshot = {}
    BY <1>1 DEF NoParents, DepInv, IdleInv
  <2> QED BY <2>1 DEF EndedBy
<1>2. CASE StateFails
    BY <1>2 DEF StateFails
<1>3. CASE Conclude /\ AllComplete /\ result' = "ok"
  <2>1. ASSUME NEW p \in snapshot
        PROVE  [parent |-> p, end |-> "complete"] \in drained
    <3>1. PICK r \in EndedBy({"complete"}) : r.parent = p
      BY <1>3, EachComplete
    <3>2. r \in drained /\ r.end = "complete" /\ r \in Report
      BY DEF EndedBy, DepInv, TypeOK
    <3>3. r = [parent |-> p, end |-> "complete"]
      BY <3>1, <3>2 DEF Report
    <3> QED BY <3>2, <3>3
  <2>2. ASSUME NEW r \in EndedBy(Integrity)
        PROVE  FALSE
    <3>1. r \in drained /\ r \in Sent /\ r.end # "complete" /\ r.parent \in snapshot
      BY DEF EndedBy, Integrity, Sent, DepInv, PoolInv
    <3>2. PICK q \in EndedBy({"complete"}) : q.parent = r.parent
      BY <1>3, <3>1, EachComplete
    <3>3. q \in Sent /\ q.end = "complete"
      BY DEF EndedBy, Sent
    <3>4. q = r
      BY <3>1, <3>2, <3>3 DEF DepInv, PoolInv
    <3> QED BY <3>1, <3>3, <3>4
  <2> QED BY <2>1, <2>2
<1>4. CASE Conclude /\ result' = Shortfall
    BY <1>4 DEF Shortfall
<1>5. CASE \E w \in Workers : Work(w)
    BY <1>5 DEF Work, Take, Fetch, FetchFails, StorePage, StoreFails, Reconcile, ReconcileFails
<1>6. CASE Conclude
    BY <1>3, <1>4, <1>6 DEF Conclude
<1> QED BY <1>1, <1>2, <1>5, <1>6 DEF vars, Next, Outside, AddKid, DropKid, ParentRows, Cancel, Crash,
        Collector, MarkAttempt, Spawn, Drain, Begin

\* Lost data is never reported as less, and success means a complete walk of
\* every parent (syncDependentResource's results).
THEOREM ResultsHonest == Spec => ResultHonest
<1>1. DepInv /\ [Next]_vars =>
        [result' # result /\ result' # "none" =>
            /\ EndedBy(Integrity) # {} => result' = "integrity"
            /\ result' = "ok" => \A p \in snapshot :
                                    [parent |-> p, end |-> "complete"] \in drained]_vars
    BY HonestStep
<1> QED BY <1>1, DependentInvariant, PTL DEF Spec, ResultHonest

\* Rows leave the mirror by a sweep alone, and by one of a --full run.
LEMMA OnlySweeps ==
    ASSUME DepInv, [Next]_vars, NEW p \in Parents, mirror[p] \ mirror'[p] # {}
    PROVE  \E w \in Workers : /\ worker[w].at = "reconcile" /\ worker[w].parent = p
                              /\ (mirror[p] \ mirror'[p]) \cap worker[w].seen = {}
<1>1. mirror' # mirror
    OBVIOUS
<1>2. mirror \in [Parents -> SUBSET Kids]
    BY DEF DepInv, TypeOK
<1>3. PICK w \in Workers : StorePage(w) \/ StoreFails(w) \/ Reconcile(w)
    BY <1>1 DEF vars, Next, Outside, AddKid, DropKid, ParentRows, Cancel, Crash, Return, Collector,
       MarkAttempt, NoParents, Spawn, Conclude, StateFails, Drain, Begin, Work, Take, Fetch,
       FetchFails, ReconcileFails
<1>4. CASE StorePage(w)
    BY <1>2, <1>4 DEF StorePage
<1>5. CASE StoreFails(w)
    BY <1>2, <1>5 DEF StoreFails
<1>6. CASE Reconcile(w)
  <2>1. /\ worker[w].at = "reconcile"
        /\ mirror' = [mirror EXCEPT ![worker[w].parent] = IF prune THEN @ \ Unseen(w) ELSE @]
    BY <1>6 DEF Reconcile
  <2>2. worker[w].parent = p /\ mirror'[p] = mirror[p] \ Unseen(w)
    BY <1>2, <2>1
  <2> QED BY <2>1, <2>2 DEF Unseen
<1> QED BY <1>3, <1>4, <1>5, <1>6

\* A sweep takes what is gone, unless the listing shrank under the walk
\* (ReconcilePartition).
THEOREM SweepsExplained == Spec => SweepsOnlyGone
<1>1. ASSUME DepInv, [Next]_vars, NEW p \in Parents, NEW k \in (mirror[p] \ mirror'[p]) \cap kids[p]
      PROVE  p \in shrunk
  <2>1. PICK w \in Workers : /\ worker[w].at = "reconcile" /\ worker[w].parent = p
                             /\ k \notin worker[w].seen
    BY <1>1, OnlySweeps
  <2>2. WalkInv(w) /\ Busy(w)
    BY <1>1, <2>1 DEF DepInv, Busy
  <2> QED BY <1>1, <2>1, <2>2 DEF WalkInv, Unreached
<1>2. DepInv /\ [Next]_vars =>
        [\A p \in Parents : (mirror[p] \ mirror'[p]) \cap kids[p] # {} => p \in shrunk]_vars
    BY <1>1
<1> QED BY <1>2, DependentInvariant, PTL DEF Spec, SweepsOnlyGone

=============================================================================
