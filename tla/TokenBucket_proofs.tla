------------------------- MODULE TokenBucket_proofs -------------------------
(***************************************************************************)
(* The token bucket keeps its budget, for every burst, rate and bound.     *)
(*                                                                         *)
(* BudgetKept speaks of two grants; what a step preserves is a bound on    *)
(* each grant and the ledger as it is now (Credit): since the i-th grant   *)
(* the bucket has given out Len(grants) - i + 1 tokens, it started with at *)
(* most its capacity, and it gained a unit a tick up to ledger.upd.        *)
(***************************************************************************)
EXTENDS TokenBucket, TLAPS

Credit ==
    \A i \in 1..Len(grants) :
        Refill * (Len(grants) - i + 1) + ledger.tokens + grants[i].slot
            <= Capacity + ledger.upd

\* No granted slot lies beyond the ledger's date.
SlotsBehind == \A i \in 1..Len(grants) : grants[i].slot <= ledger.upd

\* A ledger dated later than the last request holds no token.
Reserved == ledger.tokens > 0 => ledger.upd <= Asked

Started == grants # <<>> => ledger.upd >= 1

BucketInv ==
    /\ BucketTypeOK
    /\ Started
    /\ Reserved
    /\ SlotsBehind
    /\ Credit
    /\ BudgetKept
    /\ SlotsInOrder

-----------------------------------------------------------------------------
LEMMA CapacityFacts ==
    Capacity \in Nat /\ Refill \in Nat /\ Refill >= 1 /\ Capacity >= Refill
<1>1. Burst \in Nat /\ Refill \in Nat /\ Burst >= 1 /\ Refill >= 1
  BY BudgetAssumption
<1>2. Burst * Refill \in Nat /\ Burst * Refill >= Refill
  BY <1>1
<1> QED BY <1>1, <1>2 DEF Capacity

\* One more grant costs one more refill.
LEMMA OneMore ==
    ASSUME NEW k \in Nat
    PROVE  Refill * k \in Nat /\ Refill * (k + 1) = Refill * k + Refill
BY CapacityFacts

\* What bringing the ledger to time t does: it stays within capacity, is
\* dated t or later, and gains at most a unit a tick.
LEMMA AccruedFacts ==
    ASSUME NEW l \in [tokens : 0..Capacity, upd : Nat],
           NEW t \in Nat, t >= 1
    PROVE  /\ Accrued(l, t) \in [tokens : 0..Capacity, upd : Nat]
           /\ Accrued(l, t).upd >= t
           /\ l.upd >= t => Accrued(l, t) = l
           /\ l.upd < t => Accrued(l, t).upd = t
           /\ l.upd >= 1 => /\ Accrued(l, t).upd >= l.upd
                            /\ Accrued(l, t).tokens + l.upd
                                  <= l.tokens + Accrued(l, t).upd
<1>1. CASE l.upd = 0
  BY <1>1, CapacityFacts DEF Accrued
<1>2. CASE l.upd # 0 /\ l.upd < t
  <2>1. CASE l.tokens + (t - l.upd) < Capacity
    BY <1>2, <2>1, CapacityFacts DEF Accrued
  <2>2. CASE ~(l.tokens + (t - l.upd) < Capacity)
    BY <1>2, <2>2, CapacityFacts DEF Accrued
  <2> QED BY <2>1, <2>2
<1>3. CASE l.upd # 0 /\ ~(l.upd < t)
  BY <1>3, CapacityFacts DEF Accrued
<1> QED BY <1>1, <1>2, <1>3

LEMMA Element ==
    ASSUME NEW S, NEW q \in Seq(S), NEW i \in 1..Len(q)
    PROVE  q[i] \in S
OBVIOUS

LEMMA GrantType ==
    ASSUME NEW q \in Seq([at : Nat, slot : Nat]), NEW i \in 1..Len(q)
    PROVE  q[i].at \in Nat /\ q[i].slot \in Nat
<1>1. q[i] \in [at : Nat, slot : Nat]
  BY Element
<1> QED BY <1>1

LEMMA InitInv == Init => BucketInv
<1> SUFFICES ASSUME Init PROVE BucketInv
  OBVIOUS
<1>1. grants = <<>> /\ Len(grants) = 0 /\ ledger = NoLedger
  BY DEF Init
<1>2. BucketTypeOK
  BY <1>1, CapacityFacts DEF BucketTypeOK, NoLedger
<1> QED
  BY <1>1, <1>2
  DEF BucketInv, Started, Reserved, SlotsBehind, Credit, BudgetKept,
      SlotsInOrder, NoLedger

-----------------------------------------------------------------------------
LEMMA GrantInv ==
    ASSUME BucketInv, NEW t \in Nat, Grant(t)
    PROVE  BucketInv'
<1> DEFINE l == Accrued(ledger, t)
           n == Len(grants)
           s == Slot(l, t)
<1>1. /\ t >= 1 /\ t >= Asked
      /\ ledger' = Taken(l)
      /\ grants' = Append(grants, [at |-> t, slot |-> s])
  BY DEF Grant
<1>2. /\ ledger \in [tokens : 0..Capacity, upd : Nat]
      /\ grants \in Seq([at : Nat, slot : Nat]) /\ n \in Nat
  BY DEF BucketInv, BucketTypeOK
<1>element. \A i \in 1..n : grants[i].at \in Nat /\ grants[i].slot \in Nat
  BY <1>2, GrantType
<1>asked. Asked \in Nat
  <2>1. CASE grants = <<>>
    BY <2>1 DEF Asked
  <2>2. CASE grants # <<>>
    <3>1. n \in 1..n
      BY <2>2, <1>2
    <3> QED BY <2>2, <3>1, <1>element DEF Asked
  <2> QED BY <2>1, <2>2
<1>3. /\ l \in [tokens : 0..Capacity, upd : Nat]
      /\ l.upd >= t
      /\ ledger.upd >= t => l = ledger
      /\ ledger.upd < t => l.upd = t
      /\ ledger.upd >= 1 => /\ l.upd >= ledger.upd
                            /\ l.tokens + ledger.upd <= ledger.tokens + l.upd
  BY <1>1, <1>2, AccruedFacts
<1>4. l.tokens >= Refill => l.upd = t
  <2>1. CASE ledger.upd < t
    BY <2>1, <1>3
  <2>2. CASE ~(ledger.upd < t)
    <3>1. ledger.upd >= t /\ l = ledger
      BY <2>2, <1>2, <1>3
    <3>2. ASSUME l.tokens >= Refill PROVE ledger.upd <= Asked
      BY <3>1, <3>2, <1>2, CapacityFacts DEF BucketInv, Reserved
    <3> QED BY <3>1, <3>2, <1>asked, <1>1, <1>2
  <2> QED BY <2>1, <2>2
<1>5. /\ s \in Nat /\ s >= t /\ s >= l.upd
      /\ ledger' \in [tokens : 0..Capacity, upd : Nat]
      /\ ledger'.upd >= s /\ ledger'.upd >= 1
      /\ ledger'.tokens > 0 => ledger'.upd = t
      /\ l.tokens + s = ledger'.tokens + Refill + l.upd \/ s = ledger'.upd
      /\ ledger'.tokens + Refill + l.upd = l.tokens + ledger'.upd
      /\ ledger'.tokens + Refill + s <= Capacity + ledger'.upd
      /\ Refill + l.upd <= l.tokens + s
  <2>1. CASE l.tokens >= Refill
    BY <2>1, <1>1, <1>3, <1>4, CapacityFacts DEF Taken, Slot
  <2>2. CASE ~(l.tokens >= Refill)
    BY <2>2, <1>1, <1>3, CapacityFacts DEF Taken, Slot
  <2> QED BY <2>1, <2>2
<1>6. /\ Len(grants') = n + 1
      /\ \A i \in 1..n : grants'[i] = grants[i]
      /\ grants'[n + 1] = [at |-> t, slot |-> s]
      /\ grants' \in Seq([at : Nat, slot : Nat])
  <2> DEFINE g == [at |-> t, slot |-> s]
  <2>1. g \in [at : Nat, slot : Nat]
    BY <1>5
  <2>2. grants' = Append(grants, g)
    BY <1>1
  <2> HIDE DEF g
  <2>3. /\ Len(grants') = n + 1
        /\ \A i \in 1..n : grants'[i] = grants[i]
        /\ grants'[n + 1] = g
        /\ grants' \in Seq([at : Nat, slot : Nat])
    BY <2>1, <2>2, <1>2
  <2> QED BY <2>3 DEF g
<1>numbers. /\ l.tokens \in Nat /\ l.upd \in Nat /\ s \in Nat
            /\ ledger'.tokens \in Nat /\ ledger'.upd \in Nat
            /\ ledger.tokens \in Nat /\ ledger.upd \in Nat
  BY <1>2, <1>3, <1>5, CapacityFacts
<1>old. \A i \in 1..n : /\ grants'[i].slot = grants[i].slot
                       /\ grants'[i].at = grants[i].at
  BY <1>6
<1>new. grants'[n + 1].slot = s /\ grants'[n + 1].at = t
  BY <1>6
<1> HIDE DEF l, s, n
<1>7. \A i \in 1..n : /\ grants[i].slot <= l.upd
                      /\ Refill * (n - i + 1) + l.tokens + grants[i].slot
                           <= Capacity + l.upd
  <2> SUFFICES ASSUME NEW i \in 1..n
               PROVE  /\ grants[i].slot <= l.upd
                      /\ Refill * (n - i + 1) + l.tokens + grants[i].slot
                           <= Capacity + l.upd
    OBVIOUS
  <2>1. ledger.upd >= 1
    <3>1. grants # <<>>
      BY <1>2 DEF n
    <3> QED BY <3>1 DEF BucketInv, Started
  <2>2. /\ grants[i].slot <= ledger.upd
        /\ Refill * (n - i + 1) + ledger.tokens + grants[i].slot
              <= Capacity + ledger.upd
    BY DEF BucketInv, SlotsBehind, Credit, n
  <2>3. n - i + 1 \in Nat
    BY <1>2
  <2>4. Refill * (n - i + 1) \in Nat
    BY <2>3, OneMore
  <2> QED BY <2>1, <2>2, <2>4, <1>3, <1>numbers, <1>element, CapacityFacts
<1>8. \A i \in 1..n : Refill * (n + 1 - i + 1) = Refill * (n - i + 1) + Refill
                      /\ Refill * (n - i + 1) \in Nat
  <2> SUFFICES ASSUME NEW i \in 1..n
               PROVE  /\ Refill * (n + 1 - i + 1) = Refill * (n - i + 1) + Refill
                      /\ Refill * (n - i + 1) \in Nat
    OBVIOUS
  <2>1. n - i + 1 \in Nat /\ n + 1 - i + 1 = (n - i + 1) + 1
    BY <1>2
  <2> QED BY <2>1, OneMore
<1>9. Refill * (n + 1 - (n + 1) + 1) = Refill
  BY <1>2, CapacityFacts
<1>10. BucketTypeOK'
  BY <1>5, <1>6 DEF BucketTypeOK
<1>11. Started' /\ Reserved'
  <2>1. Asked' = t
    BY <1>6, <1>2 DEF Asked
  <2> QED BY <2>1, <1>5 DEF Started, Reserved
<1>12. SlotsBehind'
  <2> SUFFICES ASSUME NEW i \in 1..(n + 1)
               PROVE  grants'[i].slot <= ledger'.upd
    BY <1>6 DEF SlotsBehind
  <2>1. CASE i = n + 1
    BY <2>1, <1>5, <1>new
  <2>2. CASE i \in 1..n
    BY <2>2, <1>5, <1>7, <1>old, <1>numbers, <1>element
  <2> QED BY <2>1, <2>2, <1>2
<1>13. Credit'
  <2> SUFFICES ASSUME NEW i \in 1..(n + 1)
               PROVE  Refill * (n + 1 - i + 1) + ledger'.tokens + grants'[i].slot
                        <= Capacity + ledger'.upd
    <3>1. Len(grants') = n + 1
      BY <1>6
    <3>2. Refill \in Nat /\ n \in Nat /\ Len(grants') \in Nat
      BY <3>1, <1>2, CapacityFacts
    <3> QED BY <3>1, <3>2 DEF Credit
  <2>1. CASE i = n + 1
    BY <2>1, <1>5, <1>new, <1>9, <1>numbers, CapacityFacts
  <2>2. CASE i \in 1..n
    BY <2>2, <1>5, <1>7, <1>8, <1>old, <1>numbers, <1>element, CapacityFacts
  <2> QED BY <2>1, <2>2, <1>2
<1>14. BudgetKept'
  <2> SUFFICES ASSUME NEW j \in 1..(n + 1), NEW i \in 1..j
               PROVE  Refill * (j - i + 1)
                        <= Capacity + (grants'[j].slot - grants'[i].slot)
    BY <1>6 DEF BudgetKept
  <2>1. CASE j \in 1..n
    <3>1. i \in 1..n
      BY <2>1, <1>2
    <3> QED BY <2>1, <3>1, <1>old DEF BucketInv, BudgetKept, n
  <2>2. CASE j = n + 1 /\ i = n + 1
    BY <2>2, <1>9, <1>new, <1>numbers, CapacityFacts
  <2>3. CASE j = n + 1 /\ i \in 1..n
    <3>1. /\ Refill * (j - i + 1) = Refill * (n - i + 1) + Refill
          /\ Refill * (n - i + 1) \in Nat
      <4>1. /\ Refill * (n + 1 - i + 1) = Refill * (n - i + 1) + Refill
            /\ Refill * (n - i + 1) \in Nat
        BY <2>3, <1>8, Zenon
      <4>2. j - i + 1 = n + 1 - i + 1
        BY <2>3, <1>2
      <4> QED BY <4>1, <4>2, <2>3
    <3>2. Refill * (n - i + 1) + l.tokens + grants[i].slot <= Capacity + l.upd
      BY <2>3, <1>7
    <3>3. grants'[j].slot = s /\ grants'[i].slot = grants[i].slot
      BY <2>3, <1>old, <1>new
    <3>4. grants[i].slot \in Nat
      BY <2>3, <1>element
    <3> QED BY <3>1, <3>2, <3>3, <3>4, <1>5, <1>numbers, CapacityFacts
  <2> QED BY <2>1, <2>2, <2>3, <1>2
<1>15. SlotsInOrder'
  <2> SUFFICES ASSUME NEW j \in 1..(n + 1)
               PROVE  /\ grants'[j].slot >= grants'[j].at
                      /\ \A i \in 1..j : grants'[i].slot <= grants'[j].slot
    BY <1>6 DEF SlotsInOrder
  <2>1. CASE j \in 1..n
    <3>1. \A i \in 1..j : i \in 1..n
      BY <2>1, <1>2
    <3> QED BY <2>1, <3>1, <1>old DEF BucketInv, SlotsInOrder, n
  <2>2. CASE j = n + 1
    <3>1. grants'[j].slot >= grants'[j].at
      BY <2>2, <1>5, <1>new
    <3>2. ASSUME NEW i \in 1..j PROVE grants'[i].slot <= grants'[j].slot
      <4>1. CASE i = n + 1
        BY <4>1, <2>2, <1>new, <1>numbers
      <4>2. CASE i \in 1..n
        BY <4>2, <2>2, <1>5, <1>7, <1>old, <1>new, <1>numbers, <1>element
      <4> QED BY <4>1, <4>2, <2>2, <1>2
    <3> QED BY <3>1, <3>2
  <2> QED BY <2>1, <2>2, <1>2
<1> QED BY <1>10, <1>11, <1>12, <1>13, <1>14, <1>15 DEF BucketInv

LEMMA NextInv == BucketInv /\ [Next]_bucketVars => BucketInv'
<1> SUFFICES ASSUME BucketInv, [Next]_bucketVars PROVE BucketInv'
  OBVIOUS
<1>1. CASE Next
  <2>1. PICK t \in 1..MaxTime : Grant(t)
    BY <1>1 DEF Next
  <2>2. t \in Nat
    BY <2>1, SMT DEF Grant
  <2> QED BY <2>1, <2>2, GrantInv
<1>2. CASE UNCHANGED bucketVars
  BY <1>2
  DEF BucketInv, BucketTypeOK, Started, Reserved, Asked, SlotsBehind, Credit,
      BudgetKept, SlotsInOrder, bucketVars
<1> QED BY <1>1, <1>2

\* However the requests arrive, no stretch of time is granted more than the
\* burst and the steady rate allow, and slots follow the order of asking
\* (EndpointLimiter.Wait).
THEOREM BucketKeepsBudget == Spec => [](BudgetKept /\ SlotsInOrder)
<1>1. BucketInv => BudgetKept /\ SlotsInOrder
  BY DEF BucketInv
<1> QED BY InitInv, NextInv, <1>1, PTL DEF Spec

=============================================================================
