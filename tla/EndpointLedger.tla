---------------------------- MODULE EndpointLedger ----------------------------
(***************************************************************************)
(* The endpoint limiter of internal/platform/ratelimit.go: a token bucket  *)
(* kept in a file every process of the profile reads and writes under a    *)
(* lock file.                                                              *)
(*                                                                         *)
(* The lock is the existence of a file (O_CREATE|O_EXCL).  A process that  *)
(* finds it older than StaleAfter removes it BY NAME and tries again; the  *)
(* holder releases it by name as well.  A killed process leaves the file.  *)
(* Within a process EndpointLimiter.mu admits one Wait at a time, so a     *)
(* process is one sequence of calls.                                       *)
(***************************************************************************)
EXTENDS EndpointBudget, Naturals, Sequences, FiniteSets

CONSTANTS
    Procs,       \* processes of one profile
    Crashy,      \* those that may be killed
    StaleAfter,  \* age at which a lock file counts as abandoned (2 minutes)
    LastCrash,   \* bound: no kill after this tick
    MaxCalls,    \* bound: Wait calls a process makes
    MaxGrants,   \* bound: grants
    MaxTime      \* bound: ticks

ASSUME LedgerAssumption ==
    /\ StaleAfter \in Nat \ {0}
    /\ LastCrash \in Nat /\ MaxCalls \in Nat
    /\ MaxGrants \in Nat /\ MaxTime \in Nat \ {0}
    /\ Crashy \subseteq Procs

VARIABLES
    clock,
    lock,    \* modification time of the lock file, 0 when there is none
    ledger,  \* the ledger file
    grants,  \* history: committed grants, in order
    pc,
    since,   \* when a process created its lock file
    now,     \* l.now(), read once inside the lock
    copy,    \* ledger a process read
    due,     \* when its sleep ends
    calls    \* Wait calls made

vars == <<clock, lock, ledger, grants, pc, since, now, copy, due, calls>>

\* The atomic bucket this protocol implements: the ledger file is its ledger,
\* and a grant is made when the file is replaced.
TB == INSTANCE TokenBucket WITH ledger <- ledger, grants <- grants

-----------------------------------------------------------------------------
Points == {"idle", "want", "blocked", "steal", "locked", "read", "written",
           "sleep", "dead"}

Critical(p) == pc[p] \in {"locked", "read", "written"}

TypeOK ==
    /\ clock \in 1..MaxTime
    /\ lock \in 0..MaxTime
    /\ ledger \in [tokens : 0..Capacity, upd : Nat]
    /\ grants \in Seq([at : Nat, slot : Nat])
    /\ pc \in [Procs -> Points]
    /\ since \in [Procs -> 0..MaxTime]
    /\ now \in [Procs -> 0..MaxTime]
    /\ copy \in [Procs -> [tokens : 0..Capacity, upd : Nat]]
    /\ due \in [Procs -> Nat]
    /\ calls \in [Procs -> Nat]

Init ==
    /\ clock = 1
    /\ lock = 0
    /\ ledger = TB!NoLedger
    /\ grants = <<>>
    /\ pc = [p \in Procs |-> "idle"]
    /\ since = [p \in Procs |-> 0]
    /\ now = [p \in Procs |-> 0]
    /\ copy = [p \in Procs |-> TB!NoLedger]
    /\ due = [p \in Procs |-> 0]
    /\ calls = [p \in Procs |-> 0]

Goto(p, point) == pc' = [pc EXCEPT ![p] = point]

-----------------------------------------------------------------------------
\* Assumed: a live holder finishes its few file operations before its lock
\* counts as abandoned.
Tick ==
    /\ clock < MaxTime
    /\ \A p \in Procs : Critical(p) => clock - since[p] < StaleAfter
    /\ clock' = clock + 1
    /\ UNCHANGED <<lock, ledger, grants, pc, since, now, copy, due, calls>>

Call(p) ==
    /\ pc[p] = "idle" /\ calls[p] < MaxCalls
    /\ calls' = [calls EXCEPT ![p] = @ + 1]
    /\ Goto(p, "want")
    /\ UNCHANGED <<clock, lock, ledger, grants, since, now, copy, due>>

\* O_CREATE|O_EXCL succeeds only when there is no file.
Acquire(p) ==
    /\ pc[p] = "want" /\ lock = 0
    /\ lock' = clock
    /\ since' = [since EXCEPT ![p] = clock]
    /\ Goto(p, "locked")
    /\ UNCHANGED <<clock, ledger, grants, now, copy, due, calls>>

FindLocked(p) ==
    /\ pc[p] = "want" /\ lock # 0
    /\ Goto(p, "blocked")
    /\ UNCHANGED <<clock, lock, ledger, grants, since, now, copy, due, calls>>

\* Mutants: any lock is taken over; none ever is.
AnyLock   == lock # 0
NeverLock == FALSE

AbandonedLock == lock # 0 /\ clock - lock > StaleAfter

\* Stat: the file is gone or young (sleep 10 ms, try again), or abandoned.
Inspect(p) ==
    /\ pc[p] = "blocked"
    /\ Goto(p, IF AbandonedLock THEN "steal" ELSE "want")
    /\ UNCHANGED <<clock, lock, ledger, grants, since, now, copy, due, calls>>

\* os.Remove: whatever file has the name by now.
Steal(p) ==
    /\ pc[p] = "steal"
    /\ lock' = 0
    /\ Goto(p, "want")
    /\ UNCHANGED <<clock, ledger, grants, since, now, copy, due, calls>>

Read(p) ==
    /\ pc[p] = "locked"
    /\ now' = [now EXCEPT ![p] = clock]
    /\ copy' = [copy EXCEPT ![p] = ledger]
    /\ Goto(p, "read")
    /\ UNCHANGED <<clock, lock, ledger, grants, since, due, calls>>

\* Tokens accrued, one taken or reserved, the file replaced (rename).
Write(p) ==
    LET l == TB!Accrued(copy[p], now[p])
    IN  /\ pc[p] = "read" /\ Len(grants) < MaxGrants
        /\ ledger' = TB!Taken(l)
        /\ grants' = Append(grants, [at |-> now[p],
                                     slot |-> TB!Slot(l, now[p])])
        /\ due' = [due EXCEPT ![p] = TB!Slot(l, now[p])]
        /\ Goto(p, "written")
        /\ UNCHANGED <<clock, lock, since, now, copy, calls>>

\* Writing failed: the lock is released and Wait returns the error.
WriteFails(p) ==
    /\ pc[p] = "read"
    /\ lock' = 0
    /\ Goto(p, "idle")
    /\ UNCHANGED <<clock, ledger, grants, since, now, copy, due, calls>>

Release(p) ==
    /\ pc[p] = "written"
    /\ lock' = 0
    /\ Goto(p, "sleep")
    /\ UNCHANGED <<clock, ledger, grants, since, now, copy, due, calls>>

\* The slot is reached and the request goes.
Wake(p) ==
    /\ pc[p] = "sleep" /\ due[p] <= clock
    /\ Goto(p, "idle")
    /\ UNCHANGED <<clock, lock, ledger, grants, since, now, copy, due, calls>>

\* The caller's context ends during either sleep: the one between two looks
\* at a young lock, or the one for the slot, which stays taken.
Cancel(p) ==
    /\ \/ pc[p] = "sleep"
       \/ pc[p] = "blocked" /\ ~AbandonedLock
    /\ Goto(p, "idle")
    /\ UNCHANGED <<clock, lock, ledger, grants, since, now, copy, due, calls>>

Crash(p) ==
    /\ p \in Crashy /\ clock <= LastCrash
    /\ pc[p] # "dead"
    /\ Goto(p, "dead")
    /\ UNCHANGED <<clock, lock, ledger, grants, since, now, copy, due, calls>>

-----------------------------------------------------------------------------
Step(p) ==
    \/ Acquire(p) \/ FindLocked(p) \/ Inspect(p) \/ Steal(p)
    \/ Read(p) \/ Write(p) \/ WriteFails(p) \/ Release(p) \/ Wake(p)

Next == Tick \/ \E p \in Procs : Call(p) \/ Step(p) \/ Cancel(p) \/ Crash(p)

Spec == Init /\ [][Next]_vars

\* A live process runs and time passes; no call, cancellation or kill is owed.
Fairness == WF_vars(Tick) /\ \A p \in Procs : WF_vars(Step(p))

FairSpec == Spec /\ Fairness

-----------------------------------------------------------------------------
\* The lock file excludes: never two processes between creating it and
\* removing it (acquireLedgerLock).
Exclusive == \A p, q \in Procs : Critical(p) /\ Critical(q) => p = q

\* The test name's promise: a shared limiter honours burst across instances.
HonorsBurst == TB!BudgetKept

\* Requests go in the order they asked across processes, and none before it
\* asked, though a reservation dates the ledger ahead of every clock.
SlotsGoInOrder == TB!SlotsInOrder

\* A process that wants the lock gets past it, though the holder may have
\* been killed and left the file behind (the two-minute rule).
LockRecovered ==
    \A p \in Procs : pc[p] = "want" ~> pc[p] \in {"read", "idle", "dead"}

\* Every process's view of the file is that of the one atomic bucket.
IsTokenBucket == TB!Spec

=============================================================================
