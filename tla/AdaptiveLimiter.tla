-------------------------- MODULE AdaptiveLimiter --------------------------
(***************************************************************************)
(* The pacing of one client (internal/cliutil/ratelimit.go).  A caller     *)
(* reserves the next free slot under the mutex and sleeps up to it; its    *)
(* context may end the sleep, and then the slot is given back.  Answers    *)
(* move the rate meanwhile: response headers, successes and 429s.          *)
(*                                                                         *)
(* Rates are whole numbers of Second, so that the pause between two slots  *)
(* is Second \div rate clock units; the code's floating point is rounded   *)
(* down, and up where a rate grows, so that small rates do grow.  TopRate  *)
(* bounds the rate a limiter without a ceiling discovers.                  *)
(***************************************************************************)
EXTENDS Integers, Sequences, FiniteSets, FiniteSetsExt

CONSTANTS
    Callers,    \* goroutines that share the limiter
    Second,     \* clock units per second
    Floor,      \* floor, at most StartRate
    StartRate,  \* --rate-limit, or defaultAutoStartRate
    RampAfter,  \* rampAfter
    Remainings, \* X-Ratelimit-Remaining values seen
    Resets,     \* seconds until X-Ratelimit-Reset seen
    TopRate,    \* bound: no rate above it
    MaxTime,    \* bound: clock units that pass
    Horizon     \* bound: the last slot that is handed out

ASSUME RateAssumption ==
    /\ Floor \in Nat \ {0} /\ StartRate \in Nat /\ Floor <= StartRate
    /\ TopRate \in Nat /\ StartRate <= TopRate
    /\ Second \in Nat /\ TopRate <= Second
    /\ RampAfter \in Nat /\ MaxTime \in Nat /\ Horizon \in Nat
    /\ Remainings \subseteq Nat /\ Resets \subseteq Nat \ {0}

VARIABLES
    now,          \* clock
    rate, ceiling, maxRate, budgetRate, successes, headerDriven,
    lastRequest,  \* the tip: the slot handed out last, or where a cancel left it
    pending,      \* slots of callers that still sleep, no two alike (SlotsApart)
    pc,           \* idle, asleep, sent (the request is out), observed
    slot,         \* reservedAt of each sleeping caller
    used          \* history: slots requests went out on, one entry a request

rateVars == <<rate, ceiling, maxRate, budgetRate, successes, headerDriven>>
vars == <<now, rateVars, lastRequest, pending, pc, slot, used>>

Before == -Second   \* the zero time: any pause has passed since

TypeOK ==
    /\ now \in 0..MaxTime
    /\ rate \in Floor..TopRate /\ ceiling \in 0..TopRate
    /\ maxRate \in {0, StartRate} /\ budgetRate \in Nat
    /\ successes \in Nat /\ headerDriven \in BOOLEAN
    /\ lastRequest \in Int /\ pending \subseteq Int /\ used \in Seq(Int)
    /\ pc \in [Callers -> {"idle", "asleep", "sent", "observed"}]
    /\ slot \in [Callers -> Int]

\* newAdaptiveLimiter: an explicit rate is the ceiling too, auto has none.
Init ==
    /\ now = 0
    /\ rate = StartRate /\ ceiling = 0 /\ maxRate \in {0, StartRate}
    /\ budgetRate = 0 /\ successes = 0 /\ headerDriven = FALSE
    /\ lastRequest = Before /\ pending = {} /\ used = <<>>
    /\ pc = [c \in Callers |-> "idle"]
    /\ slot = [c \in Callers |-> Before]

Tick ==
    /\ now < MaxTime
    /\ now' = now + 1
    /\ UNCHANGED <<rateVars, lastRequest, pending, pc, slot, used>>

Goto(c, point) == pc' = [pc EXCEPT ![c] = point]

-----------------------------------------------------------------------------
(* Wait, completeReservation and releaseUnusedReservation.                  *)

Delay == Second \div rate

\* Mutant: the slot of a caller that read the tip before another moved it, as
\* without the mutex; both get the same one.
StaleSlot == IF now - lastRequest < Delay THEN lastRequest ELSE now

\* The slot a reservation gets: a pause after the tip, and not in the past.
NextSlot == IF now - lastRequest < Delay THEN lastRequest + Delay ELSE now

Reserve(c) ==
    /\ pc[c] = "idle"
    /\ NextSlot <= Horizon
    /\ lastRequest' = NextSlot
    /\ IF NextSlot > now
       THEN /\ pending' = pending \cup {NextSlot}
            /\ slot' = [slot EXCEPT ![c] = NextSlot]
            /\ Goto(c, "asleep")
            /\ UNCHANGED used
       ELSE /\ used' = Append(used, NextSlot)
            /\ Goto(c, "sent")
            /\ UNCHANGED <<pending, slot>>
    /\ UNCHANGED <<now, rateVars>>

\* The timer fires at the slot or later.
Complete(c) ==
    /\ pc[c] = "asleep"
    /\ now >= slot[c]
    /\ pending' = pending \ {slot[c]}
    /\ lastRequest' = IF lastRequest < slot[c] THEN slot[c] ELSE lastRequest
    /\ used' = Append(used, slot[c])
    /\ slot' = [slot EXCEPT ![c] = Before]
    /\ Goto(c, "sent")
    /\ UNCHANGED <<now, rateVars>>

\* Mutant: a cancelled tip stays where it is.
RewoundNever(left) == lastRequest

\* The latest slot still slept for, or the present.
Rewound(left) == Max({now} \cup {t \in left : t > now})

\* The context ended first; the timer may have fired as well.
Release(c) ==
    /\ pc[c] = "asleep"
    /\ pending' = pending \ {slot[c]}
    /\ lastRequest' = IF lastRequest = slot[c] THEN Rewound(pending')
                                               ELSE lastRequest
    /\ slot' = [slot EXCEPT ![c] = Before]
    /\ Goto(c, "idle")
    /\ UNCHANGED <<now, rateVars, used>>

-----------------------------------------------------------------------------
(* What an answer does to the rate.                                         *)

\* The user's ceiling first, then the floor.
Clamped(r) ==
    LET capped == IF maxRate > 0 /\ r > maxRate THEN maxRate ELSE r
    IN  IF capped < Floor THEN Floor ELSE capped

\* ObserveHeaders, on an answer with both headers and a reset to come.
\* Below two seconds of budget the remainder is spread over them.
ObserveHeaders(c) ==
    /\ pc[c] = "sent"
    /\ \E remaining \in Remainings, secs \in Resets :
         LET refill == Max({budgetRate, remaining \div secs})
             target == Clamped(IF remaining < refill * 2 THEN remaining \div 2 ELSE refill)
         IN  /\ target <= TopRate
             /\ budgetRate' = refill
             /\ rate' = target
    /\ headerDriven' = TRUE /\ successes' = 0
    /\ Goto(c, "observed")
    /\ UNCHANGED <<now, ceiling, maxRate, lastRequest, pending, slot, used>>

\* Mutant: the blind ramp forgets the explicit ceiling.
RampedFreely ==
    LET grown == (rate * 5 + 3) \div 4
        below == IF ceiling > 0 /\ grown > (ceiling * 9) \div 10
                 THEN (ceiling * 9) \div 10 ELSE grown
    IN  IF below < Floor THEN Floor ELSE below

Ramped ==
    LET grown == (rate * 5 + 3) \div 4
        below == IF ceiling > 0 /\ grown > (ceiling * 9) \div 10
                 THEN (ceiling * 9) \div 10 ELSE grown
    IN  Clamped(below)

OnSuccess(c) ==
    /\ pc[c] \in {"sent", "observed"}
    /\ \/ /\ headerDriven
          /\ successes' = 0
          /\ UNCHANGED rate
       \/ /\ ~headerDriven /\ successes + 1 < RampAfter
          /\ successes' = successes + 1
          /\ UNCHANGED rate
       \/ /\ ~headerDriven /\ successes + 1 >= RampAfter
          /\ Ramped <= TopRate
          /\ rate' = Ramped
          /\ successes' = 0
    /\ Goto(c, "idle")
    /\ UNCHANGED <<now, ceiling, maxRate, budgetRate, headerDriven,
                   lastRequest, pending, slot, used>>

OnRateLimit(c) ==
    /\ pc[c] \in {"sent", "observed"}
    /\ ceiling' = rate
    /\ rate' = IF rate \div 2 < Floor THEN Floor ELSE rate \div 2
    /\ budgetRate' = IF headerDriven THEN budgetRate ELSE budgetRate \div 2
    /\ successes' = 0
    /\ Goto(c, "idle")
    /\ UNCHANGED <<now, maxRate, headerDriven, lastRequest, pending, slot, used>>

Next ==
    \/ Tick
    \/ \E c \in Callers : \/ Reserve(c) \/ Complete(c) \/ Release(c)
                          \/ ObserveHeaders(c) \/ OnSuccess(c) \/ OnRateLimit(c)

Spec == Init /\ [][Next]_vars

-----------------------------------------------------------------------------
(* Properties.                                                              *)

Fastest == IF maxRate > 0 THEN maxRate ELSE TopRate
Gap     == Second \div Fastest

\* The user's --rate-limit is a hard ceiling: whatever headers, successes and
\* 429s arrive, in any order, the rate stays between the floor and it.
RateInBounds == rate >= Floor /\ rate <= Fastest

Apart(s, t) == s - t >= Gap \/ t - s >= Gap

asleep == {c \in Callers : pc[c] = "asleep"}

\* Of any two requests that went out, any two callers that sleep, and a request
\* and a sleeper, the slots are never closer than the fastest rate allows, and
\* never the same, however cancellations move the tip.
SlotsApart ==
    /\ \A i, j \in 1..Len(used) : i # j => Apart(used[i], used[j])
    /\ \A c, d \in asleep : c # d => Apart(slot[c], slot[d])
    /\ \A i \in 1..Len(used), c \in asleep : Apart(used[i], slot[c])

\* No two sleepers share a slot, and those asleep are those pending.
OwnSlots ==
    /\ pending = {slot[c] : c \in asleep}
    /\ \A c, d \in asleep : c # d => slot[c] # slot[d]

\* The tip stands in the future only for somebody: a cancelled reservation
\* never makes the callers after it wait for a slot nobody will use.
TipIsOwned == lastRequest <= now \/ lastRequest \in pending
=============================================================================
