------------------------ MODULE EndpointLedger_proofs ------------------------
(***************************************************************************)
(* The lock file and the ledger file implement the one atomic bucket, for  *)
(* any number of processes, as long as none is killed inside the lock and  *)
(* a live holder is done before its lock counts as abandoned (the guard of *)
(* Tick).  Both hypotheses are needed: LedgerSteal shows what one kill     *)
(* allows.                                                                 *)
(***************************************************************************)
EXTENDS EndpointLedger, TLAPS

TBP == INSTANCE TokenBucket_proofs WITH ledger <- ledger, grants <- grants

NobodyKilled == Crashy = {}

\* The lock file exists exactly while its creator is in the section, and is
\* never old enough to be removed by another.
LockInv ==
    /\ lock = 0 => \A p \in Procs : ~Critical(p)
    /\ lock # 0 => \E p \in Procs : Critical(p)
    /\ Exclusive
    /\ \A p \in Procs :
          Critical(p) => /\ lock = since[p] /\ since[p] >= 1
                         /\ since[p] <= clock
                         /\ clock - since[p] <= StaleAfter
    /\ \A p \in Procs : pc[p] # "steal"

\* What a process read is still the file, and its clock reading is no older
\* than the last grant's.
CopyInv ==
    /\ TB!Asked <= clock
    /\ \A p \in Procs :
          pc[p] = "read" => /\ copy[p] = ledger
                            /\ now[p] >= 1 /\ now[p] <= clock
                            /\ TB!Asked <= now[p]

LedgerInv == TypeOK /\ LockInv /\ CopyInv

-----------------------------------------------------------------------------
LEMMA CapacityFacts ==
    /\ Capacity \in Nat /\ Refill \in Nat /\ Refill >= 1 /\ Capacity >= Refill
    /\ TB!Capacity = Capacity
<1>1. Burst \in Nat /\ Refill \in Nat /\ Burst >= 1 /\ Refill >= 1
  BY LedgerAssumption, BudgetAssumption
<1>2. Burst * Refill \in Nat /\ Burst * Refill >= Refill
  BY <1>1
<1> QED BY <1>1, <1>2 DEF Capacity, TB!Capacity

LEMMA AccruedType ==
    ASSUME NEW l \in [tokens : 0..Capacity, upd : Nat], NEW t \in Nat
    PROVE  TB!Accrued(l, t) \in [tokens : 0..Capacity, upd : Nat]
<1>1. CASE l.upd = 0
  BY <1>1, CapacityFacts DEF TB!Accrued
<1>2. CASE l.upd # 0 /\ l.upd < t
  <2>1. CASE l.tokens + (t - l.upd) < Capacity
    BY <1>2, <2>1, CapacityFacts DEF TB!Accrued
  <2>2. CASE ~(l.tokens + (t - l.upd) < Capacity)
    BY <1>2, <2>2, CapacityFacts DEF TB!Accrued
  <2> QED BY <2>1, <2>2
<1>3. CASE l.upd # 0 /\ ~(l.upd < t)
  BY <1>3, CapacityFacts DEF TB!Accrued
<1> QED BY <1>1, <1>2, <1>3

LEMMA TakenType ==
    ASSUME NEW l \in [tokens : 0..Capacity, upd : Nat], NEW t \in Nat
    PROVE  /\ TB!Taken(l) \in [tokens : 0..Capacity, upd : Nat]
           /\ TB!Slot(l, t) \in Nat
<1>1. CASE l.tokens >= Refill
  BY <1>1, CapacityFacts DEF TB!Taken, TB!Slot
<1>2. CASE ~(l.tokens >= Refill)
  BY <1>2, CapacityFacts DEF TB!Taken, TB!Slot
<1> QED BY <1>1, <1>2

LEMMA Element ==
    ASSUME NEW S, NEW q \in Seq(S), NEW i \in 1..Len(q)
    PROVE  q[i] \in S
OBVIOUS

LEMMA AskedType ==
    ASSUME TypeOK PROVE TB!Asked \in Nat
<1>1. grants \in Seq([at : Nat, slot : Nat])
  BY DEF TypeOK
<1>2. CASE grants = <<>>
  BY <1>2 DEF TB!Asked
<1>3. CASE grants # <<>>
  <2>1. Len(grants) \in 1..Len(grants)
    BY <1>1, <1>3
  <2>2. grants[Len(grants)] \in [at : Nat, slot : Nat]
    BY <1>1, <2>1, Element
  <2> QED BY <1>3, <2>2 DEF TB!Asked
<1> QED BY <1>2, <1>3

-----------------------------------------------------------------------------
LEMMA InitInv == Init => LedgerInv
<1> SUFFICES ASSUME Init PROVE LedgerInv
  OBVIOUS
<1>1. TypeOK
  BY LedgerAssumption, CapacityFacts
  DEF Init, TypeOK, Points, TB!NoLedger
<1>2. LockInv
  BY DEF Init, LockInv, Exclusive, Critical
<1>3. CopyInv
  BY DEF Init, CopyInv, TB!Asked
<1> QED BY <1>1, <1>2, <1>3 DEF LedgerInv

\* A commit by the lock holder is a step of the bucket; no other step touches
\* what the bucket sees.
LEMMA WriteGrants ==
    ASSUME LedgerInv, NEW p \in Procs, Write(p)
    PROVE  TB!Grant(now[p]) /\ now[p] \in 1..MaxTime
<1>1. copy[p] = ledger /\ now[p] >= 1 /\ now[p] >= TB!Asked
  BY AskedType DEF LedgerInv, CopyInv, Write, TypeOK
<1> QED BY <1>1 DEF Write, TB!Grant, LedgerInv, TypeOK

LEMMA TypeStep == LedgerInv /\ [Next]_vars => TypeOK'
<1> SUFFICES ASSUME LedgerInv, [Next]_vars PROVE TypeOK'
  OBVIOUS
<1> USE LedgerAssumption DEF LedgerInv, TypeOK, Goto, Points
<1>1. CASE Tick
  BY <1>1 DEF Tick
<1>2. ASSUME NEW p \in Procs, Call(p) PROVE TypeOK'
  BY <1>2 DEF Call
<1>3. ASSUME NEW p \in Procs, Acquire(p) PROVE TypeOK'
  BY <1>3 DEF Acquire
<1>4. ASSUME NEW p \in Procs, FindLocked(p) PROVE TypeOK'
  BY <1>4 DEF FindLocked
<1>5. ASSUME NEW p \in Procs, Inspect(p) PROVE TypeOK'
  BY <1>5 DEF Inspect
<1>6. ASSUME NEW p \in Procs, Steal(p) PROVE TypeOK'
  BY <1>6 DEF Steal
<1>7. ASSUME NEW p \in Procs, Read(p) PROVE TypeOK'
  BY <1>7 DEF Read
<1>8. ASSUME NEW p \in Procs, Write(p) PROVE TypeOK'
  <2> DEFINE l == TB!Accrued(copy[p], now[p])
  <2>0. copy[p] \in [tokens : 0..Capacity, upd : Nat] /\ now[p] \in Nat
    OBVIOUS
  <2>1. l \in [tokens : 0..Capacity, upd : Nat] /\ now[p] \in Nat
    BY <2>0, AccruedType
  <2>2. /\ TB!Taken(l) \in [tokens : 0..Capacity, upd : Nat]
        /\ TB!Slot(l, now[p]) \in Nat
    BY <2>1, TakenType
  <2>3. [at |-> now[p], slot |-> TB!Slot(l, now[p])] \in [at : Nat, slot : Nat]
    BY <2>1, <2>2
  <2>4. Append(grants, [at |-> now[p], slot |-> TB!Slot(l, now[p])])
           \in Seq([at : Nat, slot : Nat])
    BY <2>3
  <2> QED BY <1>8, <2>2, <2>4 DEF Write
<1>9. ASSUME NEW p \in Procs, WriteFails(p) PROVE TypeOK'
  BY <1>9 DEF WriteFails
<1>10. ASSUME NEW p \in Procs, Release(p) PROVE TypeOK'
  BY <1>10 DEF Release
<1>11. ASSUME NEW p \in Procs, Wake(p) PROVE TypeOK'
  BY <1>11 DEF Wake
<1>12. ASSUME NEW p \in Procs, Cancel(p) PROVE TypeOK'
  BY <1>12 DEF Cancel
<1>13. ASSUME NEW p \in Procs, Crash(p) PROVE TypeOK'
  BY <1>13 DEF Crash
<1>14. CASE UNCHANGED vars
  BY <1>14 DEF vars
<1> QED
  BY <1>1, <1>2, <1>3, <1>4, <1>5, <1>6, <1>7, <1>8, <1>9, <1>10, <1>11,
     <1>12, <1>13, <1>14
  DEF Next, Step

LEMMA LockStep == NobodyKilled /\ LedgerInv /\ [Next]_vars => LockInv'
<1> SUFFICES ASSUME NobodyKilled, LedgerInv, [Next]_vars PROVE LockInv'
  OBVIOUS
<1> USE LedgerAssumption DEF LedgerInv, TypeOK, LockInv, Exclusive, Critical, Goto
<1>1. CASE Tick
  BY <1>1 DEF Tick
<1>2. ASSUME NEW p \in Procs, Call(p) PROVE LockInv'
  BY <1>2 DEF Call
<1>3. ASSUME NEW p \in Procs, Acquire(p) PROVE LockInv'
  BY <1>3 DEF Acquire
<1>4. ASSUME NEW p \in Procs, FindLocked(p) PROVE LockInv'
  BY <1>4 DEF FindLocked
<1>5. ASSUME NEW p \in Procs, Inspect(p) PROVE LockInv'
  <2>1. ~AbandonedLock
    BY DEF AbandonedLock
  <2> QED BY <1>5, <2>1 DEF Inspect
<1>6. ASSUME NEW p \in Procs, Steal(p) PROVE LockInv'
  BY <1>6 DEF Steal
<1>7. ASSUME NEW p \in Procs, Read(p) PROVE LockInv'
  BY <1>7 DEF Read
<1>8. ASSUME NEW p \in Procs, Write(p) PROVE LockInv'
  BY <1>8 DEF Write
<1>9. ASSUME NEW p \in Procs, WriteFails(p) PROVE LockInv'
  BY <1>9 DEF WriteFails
<1>10. ASSUME NEW p \in Procs, Release(p) PROVE LockInv'
  BY <1>10 DEF Release
<1>11. ASSUME NEW p \in Procs, Wake(p) PROVE LockInv'
  BY <1>11 DEF Wake
<1>12. ASSUME NEW p \in Procs, Cancel(p) PROVE LockInv'
  BY <1>12 DEF Cancel
<1>13. ASSUME NEW p \in Procs, Crash(p) PROVE LockInv'
  BY <1>13 DEF Crash, NobodyKilled
<1>14. CASE UNCHANGED vars
  BY <1>14 DEF vars
<1> QED
  BY <1>1, <1>2, <1>3, <1>4, <1>5, <1>6, <1>7, <1>8, <1>9, <1>10, <1>11,
     <1>12, <1>13, <1>14
  DEF Next, Step

LEMMA CopyStep == LedgerInv /\ [Next]_vars => CopyInv'
<1> SUFFICES ASSUME LedgerInv, [Next]_vars PROVE CopyInv'
  OBVIOUS
<1>asked. TB!Asked \in Nat
  BY AskedType DEF LedgerInv
<1>same. ASSUME grants' = grants PROVE TB!Asked' = TB!Asked
  BY <1>same DEF TB!Asked
<1> USE DEF LedgerInv, TypeOK, LockInv, CopyInv, Exclusive, Critical, Goto
<1>1. CASE Tick
  BY <1>1, <1>asked, <1>same DEF Tick
<1>2. ASSUME NEW p \in Procs, Call(p) PROVE CopyInv'
  BY <1>2, <1>same DEF Call
<1>3. ASSUME NEW p \in Procs, Acquire(p) PROVE CopyInv'
  BY <1>3, <1>same DEF Acquire
<1>4. ASSUME NEW p \in Procs, FindLocked(p) PROVE CopyInv'
  BY <1>4, <1>same DEF FindLocked
<1>5. ASSUME NEW p \in Procs, Inspect(p) PROVE CopyInv'
  BY <1>5, <1>same DEF Inspect
<1>6. ASSUME NEW p \in Procs, Steal(p) PROVE CopyInv'
  BY <1>6, <1>same DEF Steal
<1>7. ASSUME NEW p \in Procs, Read(p) PROVE CopyInv'
  BY <1>7, <1>same DEF Read
<1>8. ASSUME NEW p \in Procs, Write(p) PROVE CopyInv'
  <2>1. TB!Asked' = now[p]
    BY <1>8 DEF Write, TB!Asked
  <2>2. \A q \in Procs : pc'[q] # "read"
    BY <1>8 DEF Write
  <2>3. now[p] <= clock'
    BY <1>8 DEF Write
  <2> QED BY <2>1, <2>2, <2>3
<1>9. ASSUME NEW p \in Procs, WriteFails(p) PROVE CopyInv'
  BY <1>9, <1>same DEF WriteFails
<1>10. ASSUME NEW p \in Procs, Release(p) PROVE CopyInv'
  BY <1>10, <1>same DEF Release
<1>11. ASSUME NEW p \in Procs, Wake(p) PROVE CopyInv'
  BY <1>11, <1>same DEF Wake
<1>12. ASSUME NEW p \in Procs, Cancel(p) PROVE CopyInv'
  BY <1>12, <1>same DEF Cancel
<1>13. ASSUME NEW p \in Procs, Crash(p) PROVE CopyInv'
  BY <1>13, <1>same DEF Crash
<1>14. CASE UNCHANGED vars
  BY <1>14, <1>same DEF vars
<1> QED
  BY <1>1, <1>2, <1>3, <1>4, <1>5, <1>6, <1>7, <1>8, <1>9, <1>10, <1>11,
     <1>12, <1>13, <1>14
  DEF Next, Step

LEMMA NextInv == NobodyKilled /\ LedgerInv /\ [Next]_vars => LedgerInv'
BY TypeStep, LockStep, CopyStep DEF LedgerInv

LEMMA InvAlways == ASSUME NobodyKilled PROVE Spec => []LedgerInv
<1>1. LedgerInv /\ [Next]_vars => LedgerInv'
  BY NextInv
<1> QED BY InitInv, <1>1, PTL DEF Spec

-----------------------------------------------------------------------------
\* The lock file excludes (acquireLedgerLock), for every number of processes.
THEOREM LockExcludes ==
    ASSUME NobodyKilled
    PROVE  Spec => [](TypeOK /\ Exclusive)
<1>1. LedgerInv => TypeOK /\ Exclusive
  BY DEF LedgerInv, LockInv
<1> QED BY InvAlways, <1>1, PTL

\* The lock file and the ledger file implement the atomic bucket: what the
\* processes do to the two files, in any order, is one grant after another.
THEOREM ImplementsBucket ==
    ASSUME NobodyKilled
    PROVE  Spec => IsTokenBucket
<1>1. Init => TB!Init
  BY DEF Init, TB!Init
<1>2. LedgerInv /\ [Next]_vars => [TB!Next]_(TB!bucketVars)
  <2> SUFFICES ASSUME LedgerInv, [Next]_vars
               PROVE  [TB!Next]_(TB!bucketVars)
    OBVIOUS
  <2>1. ASSUME NEW p \in Procs, Write(p) PROVE TB!Next
    BY <2>1, WriteGrants DEF TB!Next
  <2>2. CASE ~(\E p \in Procs : Write(p))
    <3>1. UNCHANGED <<ledger, grants>>
      BY <2>2
      DEF Next, vars, Step, Tick, Call, Acquire, FindLocked, Inspect, Steal,
          Read, WriteFails, Release, Wake, Cancel, Crash
    <3> QED BY <3>1 DEF TB!bucketVars
  <2> QED BY <2>1, <2>2
<1> QED BY InvAlways, <1>1, <1>2, PTL DEF Spec, TB!Spec, IsTokenBucket

\* And so the budget and the order are kept across processes (the promise of
\* TestSharedLimiterHonorsBurstAndCrossInstanceLedger).
THEOREM SharedBudgetKept ==
    ASSUME NobodyKilled
    PROVE  Spec => [](HonorsBurst /\ SlotsGoInOrder)
<1>1. TB!Init => TBP!Init
  BY DEF TB!Init, TBP!Init, TB!NoLedger, TBP!NoLedger
<1>2. [TB!Next]_(TB!bucketVars) => [TBP!Next]_(TBP!bucketVars)
  BY DEF TB!Next, TBP!Next, TB!bucketVars, TBP!bucketVars, TB!Grant,
         TBP!Grant, TB!Accrued, TBP!Accrued, TB!Taken, TBP!Taken, TB!Slot,
         TBP!Slot, TB!Asked, TBP!Asked, TB!Capacity, TBP!Capacity
<1>3. TBP!BudgetKept /\ TBP!SlotsInOrder => HonorsBurst /\ SlotsGoInOrder
  BY DEF HonorsBurst, SlotsGoInOrder, TB!BudgetKept, TBP!BudgetKept, TB!SlotsInOrder,
         TBP!SlotsInOrder, TB!Capacity, TBP!Capacity
<1>4. TBP!BudgetAssumption
  BY BudgetAssumption DEF TBP!BudgetAssumption
<1>5. TBP!Spec => [](TBP!BudgetKept /\ TBP!SlotsInOrder)
  BY <1>4, TBP!BucketKeepsBudget
<1> QED BY ImplementsBucket, <1>1, <1>2, <1>3, <1>5, PTL
       DEF IsTokenBucket, TB!Spec, TBP!Spec

=============================================================================
