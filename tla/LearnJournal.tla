---------------------------- MODULE LearnJournal ----------------------------
(***************************************************************************)
(* The invocation journal and the pass that turns failed flags and their   *)
(* corrections into candidates (internal/learn/journal.go, derive.go,      *)
(* internal/store/candidates.go).  Every command that ends appends one     *)
(* line to today's segment and then reads on from the file cursor, under a *)
(* file lock, to pair each failed flag with the invocation that followed   *)
(* it in its session.  Sightings and a second cursor are committed in one  *)
(* SQLite transaction; the file cursor is replaced after it.               *)
(*                                                                         *)
(* A process of the model is one invocation.  Its name is its line, so a   *)
(* segment is given by where each process's line stands (at), how many     *)
(* complete lines it has (lines) and whether a partial one follows (torn). *)
(* A cursor <<d, n>> stands for the byte after the n-th line of day d's    *)
(* segment; <<0, 0>> is the start of the journal.  All invocations are of  *)
(* one command and misspell one flag: one candidate row.                   *)
(***************************************************************************)
EXTENDS Integers, FiniteSets, FiniteSetsExt, Functions

CONSTANTS
    Procs,      \* command invocations, each a process that ends
    Sessions,   \* session keys
    Nobody,     \* model value: the offset lock is free
    Window,     \* flagCorrectionWindow, in clock units
    DayLength,  \* clock units per day
    KeepDays,   \* journalMaxSegmentAgeDays
    MaxLines,   \* journalMaxTotalBytes, in lines
    PassLimit,  \* deriveDrainLimit
    MaxNow,     \* bound: clock units that pass
    MaxFaults   \* bound: lines written short and losses of the offset file

ASSUME ProcsAssumption == IsFiniteSet(Procs) /\ Nobody \notin Procs
ASSUME LimitsAssumption ==
    /\ Window \in Nat /\ DayLength \in Nat \ {0} /\ KeepDays \in Nat
    /\ MaxLines \in Nat /\ PassLimit \in Nat \ {0} /\ MaxNow \in Nat
    /\ MaxFaults \in Nat

VARIABLES
    now,     \* wall clock
    lines,   \* complete lines of each day's segment
    torn,    \* days whose segment ends in a line without its newline
    at,      \* where each invocation's line was written
    gone,    \* invocations whose line is no longer readable
    inv,     \* session, outcome and timestamp of each invocation
    off,     \* journal.offset: the file cursor
    stored,  \* learn_derive_offset: the cursor committed with the sightings
    cand,    \* the learn_candidates row: status and sightings
    lock,    \* holder of journal.offset.lock
    pc,      \* control point of each process
    work,    \* local variables of each process's derivation pass
    counts,  \* history: how often each failure was counted
    wrote,   \* history: when each line was written
    losses   \* history: how often the offset file was lost

journalVars == <<lines, torn, at, gone, inv, wrote>>
deriveVars  == <<off, stored, cand, lock, work, counts, losses>>
vars == <<now, journalVars, deriveVars, pc>>

-----------------------------------------------------------------------------
(* Positions and what a reader sees from one.                               *)

Start == <<0, 0>>

\* JournalCursor.Before.
Before(c, e) == c[1] < e[1] \/ (c[1] = e[1] /\ c[2] < e[2])

DayOf(t) == 1 + (t \div DayLength)
Days     == 1..DayOf(MaxNow)

Listed(ls, ts) == {d \in Days : ls[d] > 0 \/ d \in ts}
Segments == Listed(lines, torn)

\* ReadJournalFrom: the entries after c and the cursor behind them.  Segments
\* before c's own are never listed again; a trailing partial line stays.
Batch(c) == {p \in Procs \ gone : Before(c, at[p])}
End(c)   == LET listed == {d \in Segments : c[1] <= d}
            IN  IF listed = {} THEN c ELSE <<Max(listed), lines[Max(listed)]>>

\* journalNewlinePast: a complete line behind c.
LinePast(c) ==
    \E d \in Segments : c[1] <= d /\ (IF d = c[1] THEN c[2] ELSE 0) < lines[d]

\* pairFlagCorrections.  The next line of the session decides a failure; one
\* without a next line is pending while it is fresh.
LaterInSession(b, f) ==
    {s \in b : inv[s].sess = inv[f].sess /\ Before(at[f], at[s])}

NextInSession(b, f, s) ==
    /\ s \in LaterInSession(b, f)
    /\ \A r \in LaterInSession(b, f) : ~Before(at[r], at[s])

Corrects(f, s) ==
    /\ ~inv[f].ok /\ inv[s].ok
    /\ inv[f].ts <= inv[s].ts /\ inv[s].ts - inv[f].ts <= Window

Pairs(b) == {f \in b : \E s \in b : NextInSession(b, f, s) /\ Corrects(f, s)}

\* Mutant: a batch is never held back.
NeverPending(b) == FALSE

Pending(b) ==
    \E f \in b : /\ ~inv[f].ok /\ now - inv[f].ts <= Window
                 /\ LaterInSession(b, f) = {}

-----------------------------------------------------------------------------
\* A run is over when it skipped its pass, failed, or was killed in it.
Finals  == {"done", "over"}
Holding == {"read", "commit", "store", "hold", "unlock"}
Points  == {"idle", "append", "try", "wait"} \cup Holding \cup Finals

NoWork == [start |-> Start, end |-> Start, found |-> {}, resumed |-> FALSE,
           pass |-> 0]

Cursors == Nat \X Nat

\* Types, and the exclusion the offset lock gives: one pass at a time.
TypeOK ==
    /\ now \in 0..MaxNow
    /\ lines \in [Days -> Nat] /\ torn \subseteq Days
    /\ at \in [Procs -> Cursors] /\ gone \subseteq Procs
    /\ inv \in [Procs -> [sess : Sessions, ok : BOOLEAN, ts : 0..MaxNow]]
    /\ off \in Cursors /\ stored \in Cursors
    /\ cand \in [status : {"none", "open", "expired", "confirmed", "rejected"},
                 sightings : Nat]
    /\ lock \in Procs \cup {Nobody}
    /\ pc \in [Procs -> Points] /\ \A p \in Procs : pc[p] \in Holding <=> lock = p
    /\ work \in [Procs -> [start : Cursors, end : Cursors, found : SUBSET Procs,
                           resumed : BOOLEAN, pass : Nat]]
    /\ counts \in [Procs -> Nat]
    /\ wrote \in [Procs -> 0..MaxNow] /\ losses \in 0..MaxFaults

\* The candidate of the pair is new, or was rejected on an earlier day;
\* sightings are counted from here.
Init ==
    /\ now = 0
    /\ lines = [d \in Days |-> 0] /\ torn = {}
    /\ at = [p \in Procs |-> Start] /\ gone = {} /\ wrote = [p \in Procs |-> 0]
    /\ \E s \in [Procs -> Sessions] :
          inv = [p \in Procs |-> [sess |-> s[p], ok |-> TRUE, ts |-> 0]]
    /\ off = Start /\ stored = Start
    /\ cand \in {[status |-> v, sightings |-> 0] : v \in {"none", "rejected"}}
    /\ lock = Nobody
    /\ pc = [p \in Procs |-> "idle"]
    /\ work = [p \in Procs |-> NoWork]
    /\ counts = [p \in Procs |-> 0] /\ losses = 0

Tick ==
    /\ now < MaxNow
    /\ now' = now + 1
    /\ UNCHANGED <<journalVars, deriveVars, pc>>

Goto(p, point) == pc' = [pc EXCEPT ![p] = point]

-----------------------------------------------------------------------------
(* AppendJournalEntry.                                                      *)

Segment(p) == DayOf(inv[p].ts)

\* The command has ended.  Timestamp and segment are taken from the clock, and
\* repairJournalSegmentTail closes a partial last line with a newline.
Invoke(p) ==
    /\ pc[p] = "idle"
    /\ \E ok \in BOOLEAN :
          inv' = [inv EXCEPT ![p] = [sess |-> inv[p].sess, ok |-> ok, ts |-> now]]
    /\ LET d == DayOf(now)
       IN  /\ lines' = IF d \in torn THEN [lines EXCEPT ![d] = @ + 1] ELSE lines
           /\ torn' = torn \ {d}
    /\ Goto(p, "append")
    /\ UNCHANGED <<now, at, gone, wrote, deriveVars>>

\* Runs whose line was never written whole.
Short == {p \in Procs : at[p] = Start /\ pc[p] \notin {"idle", "append"}}

\* A short write, because the disk is full: the command goes on to derive.
Tear(p) ==
    /\ pc[p] = "append"
    /\ Cardinality(Short) + losses < MaxFaults
    /\ torn' = torn \cup {Segment(p)}
    /\ Goto(p, "try")
    /\ UNCHANGED <<now, lines, at, gone, inv, wrote, deriveVars>>

\* cleanupJournalSegments: whole segments, oldest first and never the newest,
\* up to the first that is neither too old nor, with what is left, too big.
Expendable(ls, ts) ==
    LET segs == Listed(ls, ts)
        MustGo(d) ==
            \/ d < DayOf(now) - KeepDays
            \/ SumFunctionOnSet(ls, {e \in segs : d <= e}) > MaxLines
    IN  {d \in segs \ {Max(segs)} : \A e \in segs : e <= d => MustGo(e)}

\* One O_APPEND write, then the best-effort cleanup.  Behind a partial line
\* that another process left in the meantime the write completes that line,
\* which no reader can parse.  Commands of the learn family go no further, like
\* a run killed now: they stay where they are.
Append(p) ==
    /\ pc[p] = "append"
    /\ LET d     == Segment(p)
           grown == [lines EXCEPT ![d] = @ + 1]
       IN  \E removed \in {{}, Expendable(grown, torn \ {d})} :
             /\ lines' = [e \in Days |-> IF e \in removed THEN 0 ELSE grown[e]]
             /\ torn' = (torn \ {d}) \ removed
             /\ at' = [at EXCEPT ![p] = <<d, grown[d]>>]
             /\ gone' = gone \cup {q \in Procs : at'[q][1] \in removed}
                             \cup (IF d \in torn THEN {p} ELSE {})
    /\ wrote' = [wrote EXCEPT ![p] = now]
    /\ Goto(p, "try")
    /\ UNCHANGED <<now, inv, deriveVars>>

-----------------------------------------------------------------------------
(* DeriveFlagCorrections: the post-run pass, under journal.offset.lock.     *)

Finish(p, point) ==
    /\ Goto(p, point)
    /\ lock' = Nobody
    /\ work' = [work EXCEPT ![p] = NoWork]

\* The try-lock, and after the polls the blocking lock.
Acquire(p) ==
    /\ pc[p] \in {"try", "wait"}
    /\ lock = Nobody
    /\ lock' = p
    /\ Goto(p, "read")
    /\ UNCHANGED <<now, journalVars, off, stored, cand, work, counts, losses>>

\* Mutant: a busy lock alone sends the run home.
GiveUpBusy(p) ==
    /\ pc[p] = "try"
    /\ lock # Nobody
    /\ Goto(p, "done")
    /\ UNCHANGED <<now, journalVars, deriveVars>>

\* journalHasUnreadTail: a peer has read everything, or lines remain.
GiveUp(p) ==
    /\ pc[p] = "try"
    /\ lock # Nobody
    /\ End(off) = off
    /\ Goto(p, "done")
    /\ UNCHANGED <<now, journalVars, deriveVars>>

Insist(p) ==
    /\ pc[p] = "try"
    /\ lock # Nobody
    /\ End(off) # off
    /\ Goto(p, "wait")
    /\ UNCHANGED <<now, journalVars, deriveVars>>

\* deriveFlagCorrectionsLocked up to the commit.  The window read is
\* (start, end]; a held or caught-up batch leaves the file cursor alone.
ReadBatch(p) ==
    /\ pc[p] = "read"
    /\ LET b     == Batch(off)
           held  == Pending(b) \/ End(off) = off
           found == IF held THEN {} ELSE Pairs(b)
       IN  /\ work' = [work EXCEPT ![p] =
                          [start |-> off, end |-> End(off), found |-> found,
                           resumed |-> work[p].resumed, pass |-> work[p].pass]]
           /\ \/ held /\ Goto(p, "hold")
              \/ ~held /\ found = {} /\ Goto(p, "store")
              \/ ~held /\ found # {} /\ Goto(p, "commit")
    /\ UNCHANGED <<now, journalVars, off, stored, cand, lock, counts, losses>>

\* Mutant: the tombstone is forgotten.
SightedAlways(c, n) ==
    [status |-> IF c.status = "confirmed" THEN c.status ELSE "open",
     sightings |-> c.sightings + n]

\* execDerivedCandidate, n times on one signature.
Sighted(c, n) ==
    CASE c.status = "rejected" -> c
      [] c.status = "none"     -> [status |-> "open", sightings |-> n]
      [] c.status = "expired"  -> [status |-> "open", sightings |-> c.sightings + n]
      [] OTHER                 -> [c EXCEPT !.sightings = @ + n]

\* Mutant: the stored cursor is written but not compared.
CommitBlind(p) ==
    /\ pc[p] = "commit"
    /\ counts' = [f \in Procs |->
                     IF f \in work[p].found THEN counts[f] + 1 ELSE counts[f]]
    /\ cand' = Sighted(cand, Cardinality(work[p].found))
    /\ stored' = work[p].end
    /\ Goto(p, "store")
    /\ UNCHANGED <<now, journalVars, off, lock, work, losses>>

\* CommitFlagCorrections: one immediate transaction.
Commit(p) ==
    /\ pc[p] = "commit"
    /\ LET w == work[p]
       IN  \/ /\ Before(stored, w.end) /\ ~Before(w.start, stored)
              /\ counts' = [f \in Procs |->
                               IF f \in w.found THEN counts[f] + 1 ELSE counts[f]]
              /\ cand' = Sighted(cand, Cardinality(w.found))
              /\ stored' = w.end
              /\ Goto(p, "store")
              /\ UNCHANGED <<off, lock, work>>
           \/ /\ Before(w.start, stored) /\ Before(stored, w.end)
              /\ IF w.resumed THEN Finish(p, "over")
                 ELSE /\ Goto(p, "read")
                      /\ work' = [work EXCEPT ![p].resumed = TRUE]
                      /\ UNCHANGED lock
              /\ off' = IF w.resumed THEN off ELSE stored
              /\ UNCHANGED <<stored, cand, counts>>
           \/ /\ ~Before(stored, w.end)
              /\ Goto(p, "store")
              /\ UNCHANGED <<off, stored, cand, counts, lock, work>>
    /\ UNCHANGED <<now, journalVars, losses>>

\* The store cannot be opened, the transaction fails, or, after the commit, the
\* store cannot be closed or the offset file not written.
PassFails(p) ==
    /\ pc[p] \in {"commit", "store"}
    /\ Finish(p, "over")
    /\ UNCHANGED <<now, journalVars, off, stored, cand, counts, losses>>

\* StoreJournalOffset (one rename), then journalNewlinePast decides whether
\* deriveFlagCorrectionsUntilStable scans again before it unlocks.
Drain(p) ==
    /\ pc[p] \in {"store", "hold"}
    /\ off' = IF pc[p] = "store" THEN work[p].end ELSE off
    /\ IF LinePast(work[p].end) /\ work[p].pass + 1 < PassLimit
       THEN /\ work' = [work EXCEPT ![p] = [NoWork EXCEPT !.pass = work[p].pass + 1]]
            /\ Goto(p, "read")
       ELSE /\ Goto(p, "unlock")
            /\ UNCHANGED work
    /\ UNCHANGED <<now, journalVars, stored, cand, lock, counts, losses>>

Unlock(p) ==
    /\ pc[p] = "unlock"
    /\ Finish(p, "done")
    /\ UNCHANGED <<now, journalVars, off, stored, cand, counts, losses>>

\* The holder is killed and the system drops its lock.  A process killed
\* elsewhere just takes no more steps.
Kill(p) ==
    /\ lock = p
    /\ Finish(p, "over")
    /\ UNCHANGED <<now, journalVars, off, stored, cand, counts, losses>>

\* LoadJournalOffset of a missing or unreadable file is the start.
LoseOffset ==
    /\ Cardinality(Short) + losses < MaxFaults
    /\ off # Start
    /\ off' = Start
    /\ losses' = losses + 1
    /\ UNCHANGED <<now, journalVars, stored, cand, lock, work, counts, pc>>

-----------------------------------------------------------------------------
(* Verdicts on the candidate: learnings confirm, reject, expiry and purge.  *)

Verdict ==
    /\ \/ cand.status = "open" /\ cand' = [cand EXCEPT !.status = "confirmed"]
       \/ /\ cand.status \in {"open", "expired"}
          /\ cand' = [cand EXCEPT !.status = "rejected"]
       \/ cand.status = "open" /\ cand' = [cand EXCEPT !.status = "expired"]
    /\ UNCHANGED <<now, journalVars, off, stored, lock, work, counts, losses, pc>>

PurgeCandidates(includeTombstones) ==
    /\ \/ cand.status \in {"expired", "confirmed"}
       \/ includeTombstones /\ cand.status = "rejected"
    /\ cand' = [status |-> "none", sightings |-> 0]
    /\ UNCHANGED <<now, journalVars, off, stored, lock, work, counts, losses, pc>>

Step(p) ==
    \/ Append(p) \/ Acquire(p) \/ GiveUp(p) \/ Insist(p)
    \/ ReadBatch(p) \/ Commit(p) \/ Drain(p) \/ Unlock(p)

Next ==
    \/ Tick \/ LoseOffset \/ Verdict
    \/ \E b \in BOOLEAN : PurgeCandidates(b)
    \/ \E p \in Procs : Invoke(p) \/ Tear(p) \/ PassFails(p) \/ Kill(p) \/ Step(p)

Spec == Init /\ [][Next]_vars

-----------------------------------------------------------------------------
(* Properties.                                                              *)

\* However passes overlap, crash between the commit and the file cursor, or
\* start over from a lost file cursor, no failure is counted twice: the
\* cursor committed with the sightings decides (CommitFlagCorrections).
CountedAtMostOnce == \A p \in Procs : counts[p] <= 1

\* A candidate never claims more sightings than there were failures that a
\* pass paired and committed, through expiry, reopening, rejection and purge.
SightingsAreReal ==
    cand.sightings <= Cardinality({p \in Procs : counts[p] > 0})

\* Lines that reached a segment after its day was over.  A reader that has
\* moved on to the next segment never sees them.
Stray(p) == DayOf(wrote[p]) > DayOf(inv[p].ts)

\* A run that goes home without error leaves its own line to nobody: the line
\* has been read, or a failure in the window it read, which had no later line
\* in its session then, holds the batch for its retry (DeriveFlagCorrections:
\* polls, blocking acquire, drain).
OwnLineReadStep ==
    \A p \in Procs :
        pc[p] # "done" /\ pc'[p] = "done" /\ losses = 0 /\ p \in Batch(off) /\ ~Stray(p) =>
            \E f \in Procs :
                /\ ~inv[f].ok /\ Before(off, at[f]) /\ ~Before(work[p].end, at[f])
                /\ \A s \in LaterInSession(Batch(off), f) :
                      Stray(s) \/ Before(work[p].end, at[s])

OwnLineRead == [][OwnLineReadStep]_vars

\* A failure and the success that follows it in its session, both read past
\* and the success journaled within the window, have been counted: no
\* interleaving of appends, passes, cleanups and crashes splits the pair.
ReadPast(p) ==
    p \notin gone /\ ~Stray(p) /\ at[p] # Start /\ ~Before(off, at[p])

CorrectionsAreCounted ==
    \A f, s \in Procs :
        /\ Corrects(f, s) /\ ReadPast(f) /\ ReadPast(s)
        /\ NextInSession(Procs \ gone, f, s)
        /\ wrote[s] - inv[f].ts <= Window
        => counts[f] >= 1

\* A verdict outlives late sightings: a rejected correction comes back only
\* after a purge of its tombstone, a confirmed one is not reopened.
VerdictStep ==
    /\ cand.status = "rejected" => cand' = cand \/ cand'.status = "none"
    /\ cand.status = "confirmed" => cand'.status \in {"confirmed", "none"}

VerdictsHold == [][VerdictStep]_vars
=============================================================================
