----------------------------- MODULE TokenBucket -----------------------------
(***************************************************************************)
(* What the endpoint limiter promises (internal/platform/ratelimit.go,     *)
(* EndpointBudget): requests of one endpoint class are granted slots so    *)
(* that no stretch of time holds more than the burst plus what the steady  *)
(* rate adds.  One atomic bucket; who keeps it, and how, is not said here. *)
(*                                                                         *)
(* Time is in ticks.                                                       *)
(***************************************************************************)
EXTENDS EndpointBudget, Sequences

CONSTANTS
    MaxGrants,  \* bound: grants
    MaxTime     \* bound: ticks

VARIABLES
    ledger,  \* limiterLedger: tokens (in units) and updated_at
    grants   \* history: at, when the request asked, and slot, when it may go

bucketVars == <<ledger, grants>>

\* The zero ledger: no file yet, or one that cannot be read.
NoLedger == [tokens |-> 0, upd |-> 0]

-----------------------------------------------------------------------------
\* The ledger brought up to date at time t; a ledger dated in the future
\* holds a reservation and gains nothing.
Accrued(l, t) ==
    IF l.upd = 0 THEN [tokens |-> Capacity, upd |-> t]
    ELSE IF l.upd < t
         THEN [tokens |-> IF l.tokens + (t - l.upd) < Capacity
                          THEN l.tokens + (t - l.upd) ELSE Capacity,
               upd |-> t]
    ELSE l

\* Take a token, or reserve the next one to come by moving upd there.
Taken(l) ==
    IF l.tokens >= Refill
    THEN [tokens |-> l.tokens - Refill, upd |-> l.upd]
    ELSE [tokens |-> 0, upd |-> l.upd + (Refill - l.tokens)]

\* When the request that asked at t on an accrued ledger l may go.
Slot(l, t) == IF l.tokens >= Refill THEN t ELSE l.upd + (Refill - l.tokens)

Asked == IF grants = <<>> THEN 0 ELSE grants[Len(grants)].at

-----------------------------------------------------------------------------
BucketTypeOK ==
    /\ ledger \in [tokens : 0..Capacity, upd : Nat]
    /\ grants \in Seq([at : Nat, slot : Nat])

Init == ledger = NoLedger /\ grants = <<>>

Grant(t) ==
    LET l == Accrued(ledger, t)
    IN  /\ t >= 1 /\ t >= Asked
        /\ Len(grants) < MaxGrants
        /\ ledger' = Taken(l)
        /\ grants' = Append(grants, [at |-> t, slot |-> Slot(l, t)])

Next == \E t \in 1..MaxTime : Grant(t)

Spec == Init /\ [][Next]_bucketVars

-----------------------------------------------------------------------------
\* From the i-th grant's slot to the j-th's, both included, go no more
\* requests than the burst and what the steady rate adds in between
\* (EndpointLimiter.Wait: burst, refill and reservation).
BudgetKept ==
    \A j \in 1..Len(grants) : \A i \in 1..j :
        Refill * (j - i + 1) <= Capacity + (grants[j].slot - grants[i].slot)

\* Requests go in the order they asked, and never before they asked.
SlotsInOrder ==
    \A j \in 1..Len(grants) :
        /\ grants[j].slot >= grants[j].at
        /\ \A i \in 1..j : grants[i].slot <= grants[j].slot

==============================================================================
