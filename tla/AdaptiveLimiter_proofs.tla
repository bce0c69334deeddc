----------------------- MODULE AdaptiveLimiter_proofs -----------------------
(***************************************************************************)
(* The limiter never gives two requests the same slot, nor slots closer    *)
(* than its fastest rate allows, and never keeps a slot for a caller that  *)
(* is gone: for any callers, any parameters, any order of answers and      *)
(* cancellations.                                                          *)
(***************************************************************************)
EXTENDS AdaptiveLimiter, SequenceTheorems, WellFoundedInduction, TLAPS

\* Every slot handed out lies at or before the tip, every used one is past.
Behind ==
    /\ \A i \in 1..Len(used) : used[i] <= lastRequest /\ used[i] <= now
    /\ \A t \in pending : t <= lastRequest /\ t <= Horizon

LimiterInv ==
    TypeOK /\ RateInBounds /\ OwnSlots /\ Behind /\ TipIsOwned /\ SlotsApart

-----------------------------------------------------------------------------
(* A set of integers that is bounded above has a greatest element.          *)

Less == {ss \in Nat \X Nat : ss[1] < ss[2]}

LEMMA LessIsWellFounded == IsWellFoundedOn(Less, Nat)
BY NatLessThanWellFounded DEF OpToRel, Less

LEMMA LeastExists ==
    ASSUME NEW T, T \subseteq Nat, T # {}
    PROVE  \E x \in T : \A y \in T : x <= y
<1>1. \E x \in T : \A y \in T : ~(<<y, x>> \in Less)
    <2> HIDE DEF Less
    <2> QED BY LessIsWellFounded, WFMin
<1>2. PICK x \in T : \A y \in T : ~(<<y, x>> \in Less)
    BY <1>1
<1>3. ASSUME NEW y \in T PROVE x <= y
    <2>1. x \in Nat /\ y \in Nat
        OBVIOUS
    <2>2. ~(<<y, x>>[1] < <<y, x>>[2])
        BY <1>2, <2>1 DEF Less
    <2> QED BY <2>1, <2>2
<1> QED BY <1>3

LEMMA MaxOfBounded ==
    ASSUME NEW n \in Int, NEW T, T \subseteq Int, T # {}, \A t \in T : t <= n
    PROVE  Max(T) \in T /\ \A y \in T : y <= Max(T)
<1> DEFINE R == {n - d : d \in T}
<1>1. R \subseteq Nat
    <2>1. ASSUME NEW d \in T PROVE n - d \in Nat
        OBVIOUS
    <2> QED BY <2>1
<1>2. R # {}
    OBVIOUS
<1>3. PICK x \in R : \A y \in R : x <= y
    <2> HIDE DEF R
    <2> QED BY <1>1, <1>2, LeastExists
<1>4. PICK m \in T : x = n - m
    OBVIOUS
<1>5. ASSUME NEW d \in T PROVE m >= d
    <2>1. x <= n - d
        BY <1>3
    <2>2. n \in Int /\ d \in Int /\ m \in Int
        OBVIOUS
    <2> QED BY <2>1, <2>2, <1>4
<1>6. Max(T) \in T /\ \A y \in T : Max(T) >= y
    BY <1>5 DEF Max
<1> QED BY <1>6

\* The pause is at least the gap of the fastest rate, which is not zero.
LEMMA DelayIsLong ==
    ASSUME TypeOK, RateInBounds
    PROVE  Delay \in Nat /\ Gap \in Nat /\ 1 <= Gap /\ Gap <= Delay
<1>1. /\ rate \in Nat \ {0} /\ Fastest \in Nat \ {0} /\ Second \in Nat
      /\ rate <= Fastest /\ Fastest <= Second
    BY RateAssumption DEF TypeOK, RateInBounds, Fastest
<1>2. Second \div Fastest <= Second \div rate /\ Second \div Fastest \in Nat
    BY <1>1
<1>3. Second \div Fastest >= 1 /\ Second \div rate \in Nat
    BY <1>1
<1> QED BY <1>2, <1>3 DEF Delay, Gap

-----------------------------------------------------------------------------
(* The steps.                                                               *)

LEMMA ReserveKeeps ==
    ASSUME LimiterInv, NEW c \in Callers, Reserve(c)
    PROVE  LimiterInv'
<1> USE DEF LimiterInv
<1>1. Delay \in Nat /\ Gap \in Nat /\ 1 <= Gap /\ Gap <= Delay
    BY DelayIsLong
<1>2. /\ NextSlot \in Int /\ NextSlot >= lastRequest + Delay
      /\ NextSlot > now \/ NextSlot = now
    BY <1>1 DEF NextSlot, TypeOK
<1>3. /\ \A i \in 1..Len(used) : used[i] \in Int /\ NextSlot - used[i] >= Gap
      /\ \A t \in pending : t \in Int /\ NextSlot - t >= Gap
    BY <1>1, <1>2 DEF Behind, TypeOK
<1>4. TypeOK' /\ RateInBounds' /\ Gap' = Gap
    <2>1. used' \in Seq(Int)
        BY <1>2, AppendProperties DEF Reserve, TypeOK
    <2> QED BY <1>2, <2>1 DEF Reserve, Goto, rateVars, TypeOK, RateInBounds, Fastest, Gap
<1>5. OwnSlots'
    <2>1. CASE NextSlot > now
        <3>1. NextSlot \notin pending
            BY <1>1, <1>3
        <3>2. /\ pc' = [pc EXCEPT ![c] = "asleep"] /\ slot' = [slot EXCEPT ![c] = NextSlot]
              /\ pending' = pending \cup {NextSlot} /\ pc[c] = "idle"
            BY <2>1 DEF Reserve, Goto
        <3> QED BY <3>1, <3>2 DEF OwnSlots, asleep, TypeOK
    <2>2. CASE ~(NextSlot > now)
        BY <2>2 DEF Reserve, Goto, OwnSlots, asleep, TypeOK
    <2> QED BY <2>1, <2>2
<1>6. Behind'
    <2>1. lastRequest' = NextSlot /\ now' = now /\ now \in Int /\ NextSlot <= Horizon
        BY DEF Reserve, TypeOK
    <2>2. /\ \A i \in 1..Len(used) : used[i] <= NextSlot
          /\ \A t \in pending : t <= NextSlot
        BY <1>1, <1>2, <1>3
    <2>3. \A i \in 1..Len(used') : used'[i] <= lastRequest' /\ used'[i] <= now'
        <3>1. CASE used' = used
            BY <2>1, <2>2, <3>1 DEF Behind
        <3>2. CASE used' = Append(used, NextSlot) /\ ~(NextSlot > now)
            BY <1>2, <2>1, <2>2, <3>2 DEF Behind, TypeOK
        <3> QED BY <3>1, <3>2 DEF Reserve
    <2>4. \A t \in pending' : t <= lastRequest' /\ t <= Horizon
        BY <1>2, <2>1, <2>2 DEF Reserve, Behind
    <2> QED BY <2>3, <2>4 DEF Behind
<1>7. TipIsOwned'
    BY <1>2 DEF Reserve, TipIsOwned
<1>8. SlotsApart'
    <2>1. \A d \in asleep : slot[d] \in Int /\ NextSlot - slot[d] >= Gap
        BY <1>3 DEF OwnSlots
    <2>2. CASE NextSlot > now
        <3>1. used' = used /\ slot' = [slot EXCEPT ![c] = NextSlot]
            BY <2>2 DEF Reserve
        <3>2. c \notin asleep /\ asleep' = asleep \cup {c}
            BY <2>2 DEF Reserve, Goto, asleep, TypeOK
        <3>3. slot'[c] = NextSlot /\ \A d \in asleep : slot'[d] = slot[d]
            BY <3>1, <3>2 DEF TypeOK
        <3>4. \A i \in 1..Len(used), d \in asleep' : Apart(used[i], slot'[d])
            BY <1>3, <3>2, <3>3 DEF SlotsApart, Apart
        <3>5. \A d, e \in asleep' : d # e => Apart(slot'[d], slot'[e])
            BY <2>1, <3>2, <3>3 DEF SlotsApart, Apart
        <3> QED BY <1>4, <3>1, <3>4, <3>5 DEF SlotsApart, Apart
    <2>3. CASE ~(NextSlot > now)
        <3>1. used' = Append(used, NextSlot) /\ slot' = slot
            BY <2>3 DEF Reserve
        <3>2. asleep' = asleep
            BY <2>3 DEF Reserve, Goto, asleep, TypeOK
        <3>3. \A i \in 1..Len(used') :
                 \/ i \in 1..Len(used) /\ used'[i] = used[i]
                 \/ i = Len(used) + 1 /\ used'[i] = NextSlot
            BY <3>1, <1>2 DEF TypeOK
        <3>4. \A i, j \in 1..Len(used') : i # j => Apart(used'[i], used'[j])
            BY <1>3, <3>3 DEF SlotsApart, Apart
        <3>5. \A i \in 1..Len(used'), d \in asleep : Apart(used'[i], slot[d])
            BY <2>1, <3>3 DEF SlotsApart, Apart
        <3> QED BY <1>4, <3>1, <3>2, <3>4, <3>5 DEF SlotsApart, Apart
    <2> QED BY <2>2, <2>3
<1> QED BY <1>4, <1>5, <1>6, <1>7, <1>8

LEMMA CompleteKeeps ==
    ASSUME LimiterInv, NEW c \in Callers, Complete(c)
    PROVE  LimiterInv'
<1> USE DEF LimiterInv
<1>1. slot[c] \in pending /\ slot[c] <= lastRequest /\ slot[c] <= now /\ slot[c] \in Int
    BY DEF Complete, OwnSlots, asleep, Behind, TypeOK
<1>2. lastRequest' = lastRequest
    BY <1>1 DEF Complete, TypeOK
<1>3. TypeOK' /\ RateInBounds' /\ Gap' = Gap
    <2>1. Before \in Int
        BY RateAssumption DEF Before
    <2>2. slot' = [slot EXCEPT ![c] = Before] /\ pc' = [pc EXCEPT ![c] = "sent"]
        BY DEF Complete, Goto
    <2>3. slot' \in [Callers -> Int] /\ pc' \in [Callers -> {"idle", "asleep", "sent", "observed"}]
        BY <2>1, <2>2 DEF TypeOK
    <2>4. pending' \subseteq Int /\ used' \in Seq(Int)
        BY <1>1, AppendProperties DEF Complete, TypeOK
    <2> QED BY <1>2, <2>3, <2>4 DEF Complete, rateVars, TypeOK, RateInBounds, Fastest, Gap
<1>4. OwnSlots'
    BY DEF Complete, Goto, OwnSlots, asleep, TypeOK
<1>5. \A i \in 1..Len(used') :
         \/ i \in 1..Len(used) /\ used'[i] = used[i]
         \/ i = Len(used) + 1 /\ used'[i] = slot[c]
    BY <1>1 DEF Complete, TypeOK
<1>6. Behind' /\ TipIsOwned'
    BY <1>1, <1>2, <1>5 DEF Complete, Behind, TipIsOwned, TypeOK
<1>7. SlotsApart'
    <2>1. /\ c \in asleep /\ asleep' = asleep \ {c}
          /\ \A d \in asleep \ {c} : slot'[d] = slot[d]
        BY DEF Complete, Goto, asleep, TypeOK
    <2>3. \A i, j \in 1..Len(used') : i # j => Apart(used'[i], used'[j])
        BY <1>5, <2>1 DEF SlotsApart, Apart
    <2>4. \A i \in 1..Len(used'), d \in asleep' : Apart(used'[i], slot'[d])
        BY <1>5, <2>1 DEF SlotsApart, Apart
    <2>5. \A d, e \in asleep' : d # e => Apart(slot'[d], slot'[e])
        BY <2>1 DEF SlotsApart
    <2> QED BY <1>3, <2>3, <2>4, <2>5 DEF SlotsApart, Apart
<1> QED BY <1>3, <1>4, <1>6, <1>7

LEMMA ReleaseKeeps ==
    ASSUME LimiterInv, NEW c \in Callers, Release(c)
    PROVE  LimiterInv'
<1> USE DEF LimiterInv
<1>1. pending' = pending \ {slot[c]} /\ used' = used /\ now' = now
    BY DEF Release
<1>2. ASSUME lastRequest = slot[c]
      PROVE  lastRequest' \in Int /\ Behind' /\ TipIsOwned'
    <2> DEFINE kept == {now} \cup {t \in pending' : t > now}
    <2>1. kept \subseteq Int /\ kept # {} /\ \A t \in kept : t <= MaxTime + Horizon
        <3>1. now \in Int /\ now <= MaxTime /\ 0 <= now /\ MaxTime \in Nat /\ Horizon \in Nat
            BY RateAssumption DEF TypeOK
        <3>2. \A t \in pending' : t \in Int /\ t <= Horizon
            BY <1>1 DEF Behind, TypeOK
        <3>3. \A t \in kept : t \in Int /\ t <= MaxTime + Horizon
            BY <3>1, <3>2
        <3> QED BY <3>3
    <2>2. MaxTime + Horizon \in Int
        BY RateAssumption
    <2>3. Max(kept) \in kept /\ \A t \in kept : t <= Max(kept)
        <3> HIDE DEF kept
        <3> QED BY <2>1, <2>2, MaxOfBounded
    <2>4. lastRequest' = Max(kept)
        BY <1>2 DEF Release, Rewound
    <2>5. lastRequest' \in Int /\ lastRequest' >= now
          /\ \A t \in pending' : t <= lastRequest'
        <3>1. now \in Int /\ pending' \subseteq Int
            <4>1. now \in Int /\ pending \subseteq Int
                BY DEF TypeOK
            <4> QED BY <1>1, <4>1
        <3>2. now \in kept /\ \A t \in pending' : t > now => t \in kept
            OBVIOUS
        <3>3. Max(kept) \in Int /\ now <= Max(kept)
              /\ \A t \in pending' : t > now => t <= Max(kept)
            <4> HIDE DEF kept
            <4> QED BY <2>1, <2>3, <3>2
        <3> HIDE DEF kept
        <3> QED BY <2>4, <3>1, <3>3
    <2>6. lastRequest' = now \/ lastRequest' \in pending'
        BY <2>3, <2>4
    <2>7. \A i \in 1..Len(used') : used'[i] <= lastRequest' /\ used'[i] <= now'
        BY <1>1, <2>5 DEF Behind, TypeOK
    <2>8. \A t \in pending' : t <= lastRequest' /\ t <= Horizon
        BY <1>1, <2>5 DEF Behind
    <2>9. lastRequest' <= now' \/ lastRequest' \in pending'
        BY <1>1, <2>6, <2>5
    <2> QED BY <2>5, <2>7, <2>8, <2>9 DEF Behind, TipIsOwned
<1>3. ASSUME lastRequest # slot[c]
      PROVE  lastRequest' \in Int /\ Behind' /\ TipIsOwned'
    BY <1>1, <1>3 DEF Release, Behind, TipIsOwned, TypeOK
<1>4. TypeOK' /\ RateInBounds' /\ Gap' = Gap
    <2>1. Before \in Int
        BY RateAssumption DEF Before
    <2>2. slot' = [slot EXCEPT ![c] = Before] /\ pc' = [pc EXCEPT ![c] = "idle"]
        BY DEF Release, Goto
    <2>3. slot' \in [Callers -> Int] /\ pc' \in [Callers -> {"idle", "asleep", "sent", "observed"}]
        BY <2>1, <2>2 DEF TypeOK
    <2> QED BY <1>1, <1>2, <1>3, <2>3 DEF Release, rateVars, TypeOK, RateInBounds, Fastest, Gap
<1>5. OwnSlots'
    BY DEF Release, Goto, OwnSlots, asleep, TypeOK
<1>6. SlotsApart'
    <2>1. /\ asleep' = asleep \ {c}
          /\ \A d \in asleep \ {c} : slot'[d] = slot[d]
        BY DEF Release, Goto, asleep, TypeOK
    <2> QED BY <1>1, <1>4, <2>1 DEF SlotsApart, Apart
<1> QED BY <1>2, <1>3, <1>4, <1>5, <1>6

LEMMA TickKeeps == LimiterInv /\ Tick => LimiterInv'
<1> SUFFICES ASSUME LimiterInv, Tick PROVE LimiterInv'
    OBVIOUS
<1>1. /\ now' = now + 1 /\ now' \in 0..MaxTime
      /\ UNCHANGED <<rateVars, lastRequest, pending, pc, slot, used>>
    BY RateAssumption DEF Tick, LimiterInv, TypeOK
<1>2. TypeOK' /\ RateInBounds' /\ OwnSlots' /\ SlotsApart'
    BY <1>1 DEF LimiterInv, rateVars, TypeOK, RateInBounds, OwnSlots, SlotsApart,
       asleep, Apart, Gap, Fastest
<1>3. Behind' /\ TipIsOwned'
    BY <1>1 DEF LimiterInv, Behind, TipIsOwned, TypeOK
<1> QED BY <1>2, <1>3 DEF LimiterInv

\* A step on the rate leaves the slots alone.
LEMMA RateStepKeeps ==
    ASSUME LimiterInv, UNCHANGED <<now, maxRate, lastRequest, pending, slot, used>>,
           TypeOK', RateInBounds',
           \A d \in Callers : (pc'[d] = "asleep") <=> (pc[d] = "asleep")
    PROVE  LimiterInv'
<1>1. OwnSlots'
    BY DEF LimiterInv, OwnSlots, asleep
<1>2. Behind' /\ TipIsOwned' /\ SlotsApart'
    BY DEF LimiterInv, Behind, TipIsOwned, SlotsApart, asleep, Apart, Gap, Fastest
<1> QED BY <1>1, <1>2 DEF LimiterInv

\* A clamped rate is between the floor and the user's ceiling.
LEMMA ClampedInBounds ==
    ASSUME TypeOK, NEW r \in Nat, Clamped(r) <= TopRate
    PROVE  /\ Clamped(r) \in Floor..TopRate
           /\ maxRate > 0 => Clamped(r) <= maxRate
BY RateAssumption DEF TypeOK, Clamped

LEMMA AnswersKeep ==
    ASSUME LimiterInv, NEW c \in Callers,
           ObserveHeaders(c) \/ OnSuccess(c) \/ OnRateLimit(c)
    PROVE  LimiterInv'
<1> USE RateAssumption DEF LimiterInv
<1>1. CASE ObserveHeaders(c)
    <2>1. PICK remaining \in Remainings, secs \in Resets :
            LET refill == Max({budgetRate, remaining \div secs})
                target == Clamped(IF remaining < refill * 2 THEN remaining \div 2 ELSE refill)
            IN  target <= TopRate /\ budgetRate' = refill /\ rate' = target
        BY <1>1 DEF ObserveHeaders
    <2> DEFINE refill == Max({budgetRate, remaining \div secs})
    <2>2. remaining \div secs \in Nat /\ remaining \div 2 \in Nat /\ budgetRate \in Nat
        BY DEF TypeOK
    <2>3. refill \in Nat
        <3>1. {budgetRate, remaining \div secs} \subseteq Int
            BY <2>2
        <3>2. \A t \in {budgetRate, remaining \div secs} : t <= budgetRate + (remaining \div secs)
            BY <2>2
        <3>3. refill \in {budgetRate, remaining \div secs}
            BY <3>1, <3>2, <2>2, MaxOfBounded
        <3> QED BY <3>3, <2>2
    <2> HIDE DEF refill
    <2>4. PICK r \in Nat : rate' = Clamped(r) /\ Clamped(r) <= TopRate /\ budgetRate' = refill
        BY <2>1, <2>2, <2>3 DEF refill
    <2>5. rate' \in Floor..TopRate /\ (maxRate > 0 => rate' <= maxRate)
        BY <2>4, ClampedInBounds
    <2>6. TypeOK' /\ RateInBounds'
        BY <1>1, <2>3, <2>4, <2>5 DEF ObserveHeaders, Goto, TypeOK, RateInBounds, Fastest
    <2> QED BY <1>1, <2>6, RateStepKeeps DEF ObserveHeaders, Goto, TypeOK
<1>2. CASE OnSuccess(c)
    <2> DEFINE grown == (rate * 5 + 3) \div 4
               below == IF ceiling > 0 /\ grown > (ceiling * 9) \div 10
                        THEN (ceiling * 9) \div 10 ELSE grown
    <2>1. below \in Nat
        BY DEF TypeOK
    <2>2. rate' = rate \/ (rate' = Clamped(below) /\ Clamped(below) <= TopRate)
        BY <1>2 DEF OnSuccess, Ramped
    <2> HIDE DEF below
    <2>3. rate' \in Floor..TopRate /\ (maxRate > 0 => rate' <= maxRate)
        BY <2>1, <2>2, ClampedInBounds DEF TypeOK, RateInBounds, Fastest
    <2>4. successes' \in Nat
        BY <1>2 DEF OnSuccess, TypeOK
    <2>5. TypeOK' /\ RateInBounds'
        BY <1>2, <2>3, <2>4 DEF OnSuccess, Goto, TypeOK, RateInBounds, Fastest
    <2> QED BY <1>2, <2>5, RateStepKeeps DEF OnSuccess, Goto, TypeOK
<1>3. CASE OnRateLimit(c)
    <2>1. rate \div 2 \in Nat /\ rate \div 2 <= rate /\ budgetRate \div 2 \in Nat
        BY DEF TypeOK
    <2>2. rate' \in Floor..TopRate /\ rate' <= rate /\ budgetRate' \in Nat /\ ceiling' \in 0..TopRate
        BY <1>3, <2>1 DEF OnRateLimit, TypeOK
    <2>3. TypeOK' /\ RateInBounds'
        BY <1>3, <2>2 DEF OnRateLimit, Goto, TypeOK, RateInBounds, Fastest
    <2> QED BY <1>3, <2>3, RateStepKeeps DEF OnRateLimit, Goto, TypeOK
<1> QED BY <1>1, <1>2, <1>3

\* Types, bounds, slots and tip together are inductive: every answer and every
\* cancellation keeps them (AdaptiveLimiter).
THEOREM LimiterInvariant == Spec => []LimiterInv
<1>1. Init => LimiterInv
    <2> SUFFICES ASSUME Init PROVE LimiterInv
        OBVIOUS
    <2>1. Before \in Int /\ Before <= 0
        BY RateAssumption DEF Before
    <2>2. TypeOK
        <3>1. /\ now \in 0..MaxTime /\ rate \in Floor..TopRate /\ ceiling \in 0..TopRate
              /\ budgetRate \in Nat /\ successes \in Nat
            BY RateAssumption DEF Init
        <3>2. slot \in [Callers -> Int] /\ lastRequest \in Int
            BY <2>1 DEF Init
        <3>3. pc \in [Callers -> {"idle", "asleep", "sent", "observed"}]
            BY DEF Init
        <3>4. headerDriven \in BOOLEAN /\ maxRate \in {0, StartRate}
              /\ pending \subseteq Int /\ used \in Seq(Int)
            BY EmptySeq DEF Init
        <3> QED BY <3>1, <3>2, <3>3, <3>4 DEF TypeOK
    <2>3. RateInBounds
        BY RateAssumption DEF Init, RateInBounds, Fastest
    <2>4. OwnSlots /\ Behind /\ TipIsOwned /\ SlotsApart
        BY <2>1 DEF Init, OwnSlots, asleep, Behind, TipIsOwned, SlotsApart
    <2> QED BY <2>2, <2>3, <2>4 DEF LimiterInv
<1>2. LimiterInv /\ [Next]_vars => LimiterInv'
    <2>1. CASE UNCHANGED vars
        BY <2>1 DEF vars, rateVars, LimiterInv, TypeOK, RateInBounds, Fastest, OwnSlots, Behind,
           TipIsOwned, SlotsApart, asleep, Apart, Gap
    <2> QED BY <2>1, TickKeeps, ReserveKeeps, CompleteKeeps, ReleaseKeeps, AnswersKeep DEF Next
<1> QED BY <1>1, <1>2, PTL DEF Spec

\* An explicit --rate-limit is a ceiling, and no answer stops the client
\* (ObserveHeaders, OnSuccess, OnRateLimit).
THEOREM RateStaysInBounds == Spec => []RateInBounds
BY LimiterInvariant, PTL DEF LimiterInv

\* No two requests, sent or waiting, have one slot or slots closer than the
\* fastest rate allows, whoever cancels (Wait, completeReservation,
\* releaseUnusedReservation).
THEOREM SlotsStayApart == Spec => []SlotsApart
BY LimiterInvariant, PTL DEF LimiterInv

\* Sleepers and pending slots match one to one (removePending).
THEOREM SlotsAreOwned == Spec => []OwnSlots
BY LimiterInvariant, PTL DEF LimiterInv

\* A tip in the future belongs to a caller that still sleeps up to it.
THEOREM NoPhantomTip == Spec => []TipIsOwned
BY LimiterInvariant, PTL DEF LimiterInv
=============================================================================
