------------------------ MODULE LearnJournal_proofs ------------------------
(***************************************************************************)
(* For any number of invocations, any interleaving of appends, cleanups    *)
(* and passes, crashes and losses of the offset file:                      *)
(*   NeverCountedTwice, SightingsNeverInflated, VerdictsAreKept            *)
(*                   no failed flag is counted twice, and no candidate     *)
(*                   claims a sighting that did not happen;                *)
(*   NoCorrectionLost                                                      *)
(*                   no failure is split from the success correcting it;   *)
(*   OwnLineIsRead   a run ends with its own line read, or behind a        *)
(*                   failure that waits for its correction.                *)
(* JournalInv is about positions: lines keep theirs, and what was counted  *)
(* stands at or before the stored cursor.  CoverInv is about what lies     *)
(* before a cursor that some reader goes on from: nothing is appended      *)
(* there any more, no failure there needs a line behind it, and every pair *)
(* there has been counted.  Cleanup keeps it as it removes the oldest      *)
(* first.                                                                  *)
(***************************************************************************)
EXTENDS LearnJournal, FiniteSetTheorems, TLAPS

\* A set of days that is not empty has a last one.
HasLast(S) == S # {} => \E m \in S : \A d \in S : d <= m

\* A line that can be read stands inside its segment.
LinesStand ==
    \A q \in Procs \ gone : at[q] # Start =>
        at[q][1] \in Days /\ 1 <= at[q][2] /\ at[q][2] <= lines[at[q][1]]

\* An invocation that has not written its line has no place and no count.
Unwritten == \A q \in Procs :
    pc[q] \in {"idle", "append"} => at[q] = Start /\ counts[q] = 0

\* What was counted stands at or before the cursor stored with it.
CountedIsStored == \A q \in Procs : counts[q] > 0 => ~Before(stored, at[q])

\* What a pass is about to count stands inside the window it read.
FoundInWindow == \A p \in Procs : pc[p] = "commit" =>
    \A f \in work[p].found : Before(work[p].start, at[f]) /\ ~Before(work[p].end, at[f])

JournalInv ==
    /\ TypeOK /\ HasLast(Segments) /\ LinesStand /\ Unwritten
    /\ CountedIsStored /\ CountedAtMostOnce /\ FoundInWindow /\ SightingsAreReal

-----------------------------------------------------------------------------
(* Days, segments and cursors.                                              *)

\* A timestamp of the model has a day of the model.
LEMMA DayInRange ==
    ASSUME NEW t \in 0..MaxNow
    PROVE  DayOf(t) \in Days
<1>1. MaxNow \in Nat /\ DayLength \in Nat \ {0} /\ t \in Nat /\ t <= MaxNow
    BY LimitsAssumption
<1>2. t \div DayLength \in Nat /\ t \div DayLength <= MaxNow \div DayLength
    BY <1>1
<1>3. MaxNow \div DayLength \in Nat
    BY <1>1
<1> QED BY <1>2, <1>3 DEF DayOf, Days

LEMMA DaysAreNat == Days \subseteq Nat \ {0}
<1>1. MaxNow \div DayLength \in Nat
    BY LimitsAssumption
<1> QED BY <1>1 DEF Days, DayOf

\* Max of a set with a last element is that element.
LEMMA LastIsMax ==
    ASSUME NEW S, S \subseteq Nat, S # {}, HasLast(S)
    PROVE  Max(S) \in S /\ \A d \in S : d <= Max(S)
<1>1. PICK m \in S : \A d \in S : m >= d
    BY DEF HasLast
<1>2. Max(S) \in S /\ \A d \in S : Max(S) >= d
    BY <1>1 DEF Max
<1> QED BY <1>2

\* One more day keeps a last day; dropping days other than the last does.
LEMMA LastAfterAdd ==
    ASSUME NEW S, S \subseteq Nat, HasLast(S), NEW d \in Nat
    PROVE  HasLast(S \cup {d})
<1>1. CASE S = {}
    BY <1>1 DEF HasLast
<1>2. CASE S # {}
    <2>1. PICK m \in S : \A e \in S : e <= m
        BY <1>2 DEF HasLast
    <2>2. \A e \in S \cup {d} : e <= IF m <= d THEN d ELSE m
        BY <2>1
    <2> QED BY <2>1, <2>2 DEF HasLast
<1> QED BY <1>1, <1>2

LEMMA LastAfterDrop ==
    ASSUME NEW S, S \subseteq Nat, HasLast(S), NEW T, T \subseteq S,
           S # {} => Max(S) \in T
    PROVE  HasLast(T)
<1>1. CASE S = {}
    BY <1>1 DEF HasLast
<1>2. CASE S # {}
    <2>1. Max(S) \in T /\ \A d \in T : d <= Max(S)
        BY <1>2, LastIsMax
    <2> QED BY <2>1 DEF HasLast
<1> QED BY <1>1, <1>2

\* Cursors are totally ordered and none stands before the start.
LEMMA CursorOrder ==
    ASSUME NEW a \in Cursors, NEW b \in Cursors, NEW c \in Cursors
    PROVE  /\ ~Before(a, Start)
           /\ Before(a, b) /\ Before(b, c) => Before(a, c)
           /\ ~Before(a, b) /\ ~Before(b, c) => ~Before(a, c)
           /\ Before(a, b) => ~Before(b, a)
BY DEF Cursors, Before, Start

\* A reader's window ends at or behind every line it returns.
LEMMA EndCovers ==
    ASSUME TypeOK, HasLast(Segments), LinesStand, NEW c \in Cursors
    PROVE  /\ End(c) \in Cursors
           /\ \A q \in Batch(c) : at[q] # Start /\ ~Before(End(c), at[q])
<1> DEFINE listed == {d \in Segments : c[1] <= d}
<1>1. Segments \subseteq Days /\ listed \subseteq Nat
    BY DaysAreNat DEF Segments, Listed
<1>2. HasLast(listed)
    BY <1>1, DaysAreNat DEF HasLast, Cursors
<1>3. CASE listed = {}
    <2>1. \A q \in Batch(c) : FALSE
        <3> SUFFICES ASSUME NEW q \in Batch(c) PROVE FALSE
            OBVIOUS
        <3>1. q \in Procs \ gone /\ Before(c, at[q]) /\ at[q] \in Cursors
            BY DEF Batch, TypeOK
        <3>2. at[q] # Start
            BY <3>1, CursorOrder
        <3>3. at[q][1] \in Segments /\ c[1] <= at[q][1]
            BY <3>1, <3>2 DEF LinesStand, Segments, Listed, Before, Cursors, TypeOK
        <3> QED BY <3>3, <1>3
    <2> QED BY <2>1, <1>3 DEF End
<1>4. CASE listed # {}
    <2> DEFINE m == Max(listed)
    <2>1. m \in listed /\ \A d \in listed : d <= m
        BY <1>1, <1>2, <1>4, LastIsMax
    <2>2. End(c) = <<m, lines[m]>>
        BY <1>4 DEF End
    <2>3. m \in Days /\ m \in Nat /\ lines[m] \in Nat
        BY <2>1, <1>1, DaysAreNat DEF TypeOK
    <2> HIDE DEF m
    <2>4. \A q \in Batch(c) : at[q] # Start /\ ~Before(End(c), at[q])
        <3> SUFFICES ASSUME NEW q \in Batch(c)
                     PROVE  at[q] # Start /\ ~Before(End(c), at[q])
            OBVIOUS
        <3>1. q \in Procs \ gone /\ Before(c, at[q]) /\ at[q] \in Cursors
            BY DEF Batch, TypeOK
        <3>2. at[q] # Start
            BY <3>1, CursorOrder
        <3>3. at[q][2] <= lines[at[q][1]] /\ at[q][1] \in listed
            BY <3>1, <3>2 DEF LinesStand, Segments, Listed, Before, Cursors, TypeOK
        <3>4. at[q][1] <= m
            BY <3>3, <2>1
        <3> QED BY <3>1, <3>2, <3>3, <3>4, <2>2, <2>3 DEF Before, Cursors
    <2> QED BY <2>2, <2>3, <2>4 DEF Cursors
<1> QED BY <1>3, <1>4
-----------------------------------------------------------------------------
(* The append and the cleanup.                                              *)

\* What the cleanup removes is not the newest of what is listed.
LEMMA CleanupKeepsNewest ==
    ASSUME NEW ls, NEW ts, Listed(ls, ts) # {}
    PROVE  Max(Listed(ls, ts)) \notin Expendable(ls, ts)
BY DEF Expendable

\* A segment older than one that goes, goes.
LEMMA OldestGoFirst ==
    ASSUME NEW ls, NEW ts, Listed(ls, ts) \subseteq Nat, NEW e \in Expendable(ls, ts),
           NEW c \in Listed(ls, ts), c <= e, c # Max(Listed(ls, ts))
    PROVE  c \in Expendable(ls, ts)
<1> DEFINE segs == Listed(ls, ts)
           MustGo(d) ==
               \/ d < DayOf(now) - KeepDays
               \/ SumFunctionOnSet(ls, {b \in segs : d <= b}) > MaxLines
<1>1. \A b : b \in Expendable(ls, ts) <=>
                b \in segs \ {Max(segs)} /\ \A d \in segs : d <= b => MustGo(d)
    BY DEF Expendable
<1> HIDE DEF MustGo, segs
<1>2. segs \subseteq Nat /\ c \in segs /\ c # Max(segs) /\ e \in segs
    BY <1>1 DEF segs
<1>3. \A d \in segs : d <= c => d <= e
    BY <1>2
<1> QED BY <1>1, <1>2, <1>3

LEMMA OneMore ==
    ASSUME lines \in [Days -> Nat], NEW d \in Days
    PROVE  /\ [lines EXCEPT ![d] = @ + 1] \in [Days -> Nat]
           /\ <<d, [lines EXCEPT ![d] = @ + 1][d]>> \in Cursors
<1>1. lines[d] + 1 \in Nat /\ d \in Nat
    BY DaysAreNat
<1> QED BY <1>1 DEF Cursors

LEMMA TypeKept ==
    ASSUME TypeOK, HasLast(Segments), LinesStand, [Next]_vars
    PROVE  TypeOK'
<1> USE DaysAreNat, LimitsAssumption, ProcsAssumption DEF TypeOK, Holding, Finals, Points
<1>1. CASE Tick
    BY <1>1 DEF Tick, journalVars, deriveVars
<1>2. CASE LoseOffset
    <2>1. Cardinality(Short) \in Nat
        BY FS_Subset, FS_CardinalityType DEF Short
    <2>2. losses + 1 \in 0..MaxFaults
        BY <1>2, <2>1 DEF LoseOffset
    <2> QED BY <1>2, <2>2 DEF LoseOffset, journalVars, Start, Cursors
<1>3. CASE Verdict
    BY <1>3 DEF Verdict, journalVars
<1>4. ASSUME NEW b \in BOOLEAN, PurgeCandidates(b) PROVE TypeOK'
    BY <1>4 DEF PurgeCandidates, journalVars
<1>5. ASSUME NEW p \in Procs, Invoke(p) PROVE TypeOK'
    <2>1. DayOf(now) \in Days
        BY DayInRange
    <2>2. lines' \in [Days -> Nat] /\ torn' \subseteq Days
        <3>1. lines' = lines \/ lines' = [lines EXCEPT ![DayOf(now)] = @ + 1]
            BY <1>5 DEF Invoke
        <3>2. torn' = torn \ {DayOf(now)}
            BY <1>5 DEF Invoke
        <3>3. [lines EXCEPT ![DayOf(now)] = @ + 1] \in [Days -> Nat]
            BY <2>1, OneMore
        <3> QED BY <3>1, <3>2, <3>3
    <2>3. inv' \in [Procs -> [sess : Sessions, ok : BOOLEAN, ts : 0..MaxNow]]
        <3>1. PICK ok \in BOOLEAN :
                  inv' = [inv EXCEPT ![p] = [sess |-> inv[p].sess, ok |-> ok, ts |-> now]]
            BY <1>5 DEF Invoke
        <3> QED BY <3>1
    <2>4. pc' \in [Procs -> Points] /\ \A q \in Procs : pc'[q] \in Holding <=> lock' = q
        BY <1>5 DEF Invoke, Goto, deriveVars
    <2> QED BY <1>5, <2>2, <2>3, <2>4 DEF Invoke, deriveVars
<1>6. ASSUME NEW p \in Procs, Tear(p) PROVE TypeOK'
    <2>1. Segment(p) \in Days
        BY DayInRange DEF Segment
    <2> QED BY <1>6, <2>1 DEF Tear, Goto, deriveVars
<1>7. ASSUME NEW p \in Procs, PassFails(p) PROVE TypeOK'
    BY <1>7 DEF PassFails, Finish, Goto, journalVars, NoWork, Start, Cursors
<1>8. ASSUME NEW p \in Procs, Kill(p) PROVE TypeOK'
    BY <1>8 DEF Kill, Finish, Goto, journalVars, NoWork, Start, Cursors
<1>9. ASSUME NEW p \in Procs, Append(p) PROVE TypeOK'
    <2>1. Segment(p) \in Days
        BY DayInRange DEF Segment
    <2> DEFINE d == Segment(p)
               grown == [lines EXCEPT ![d] = @ + 1]
    <2>2. grown \in [Days -> Nat] /\ <<d, grown[d]>> \in Cursors
        BY <2>1, OneMore
    <2>3. PICK removed :
              /\ lines' = [e \in Days |-> IF e \in removed THEN 0 ELSE grown[e]]
              /\ torn' = (torn \ {d}) \ removed
              /\ at' = [at EXCEPT ![p] = <<d, grown[d]>>]
              /\ gone' = gone \cup {q \in Procs : at'[q][1] \in removed}
                              \cup (IF d \in torn THEN {p} ELSE {})
        BY <1>9 DEF Append
    <2> HIDE DEF grown, d
    <2>4. lines' \in [Days -> Nat] /\ torn' \subseteq Days /\ gone' \subseteq Procs
        BY <2>2, <2>3
    <2>5. at' \in [Procs -> Cursors]
        BY <2>2, <2>3
    <2>6. pc' \in [Procs -> Points] /\ \A q \in Procs : pc'[q] \in Holding <=> lock' = q
        BY <1>9 DEF Append, Goto, deriveVars
    <2> QED BY <1>9, <2>4, <2>5, <2>6 DEF Append, deriveVars
<1>10. ASSUME NEW p \in Procs, Acquire(p) PROVE TypeOK'
    BY <1>10 DEF Acquire, Goto, journalVars
<1>11. ASSUME NEW p \in Procs, GiveUp(p) \/ Insist(p) PROVE TypeOK'
    BY <1>11 DEF GiveUp, Insist, Goto, journalVars, deriveVars
<1>12. ASSUME NEW p \in Procs, ReadBatch(p) PROVE TypeOK'
    <2>1. End(off) \in Cursors
        BY EndCovers
    <2>2. Pairs(Batch(off)) \subseteq Procs
        BY DEF Pairs, Batch
    <2>3. PICK found \in SUBSET Procs :
              work' = [work EXCEPT ![p] = [start |-> off, end |-> End(off), found |-> found,
                                          resumed |-> work[p].resumed, pass |-> work[p].pass]]
        BY <1>12, <2>2 DEF ReadBatch
    <2>4. work' \in [Procs -> [start : Cursors, end : Cursors, found : SUBSET Procs,
                               resumed : BOOLEAN, pass : Nat]]
        <3>1. work[p].resumed \in BOOLEAN /\ work[p].pass \in Nat
            OBVIOUS
        <3> QED BY <2>1, <2>3, <3>1
    <2>5. PICK point \in {"hold", "store", "commit"} : pc' = [pc EXCEPT ![p] = point]
        BY <1>12 DEF ReadBatch, Goto
    <2>6. pc' \in [Procs -> Points] /\ \A q \in Procs : pc'[q] \in Holding <=> lock' = q
        BY <1>12, <2>5 DEF ReadBatch
    <2> QED BY <1>12, <2>4, <2>6 DEF ReadBatch, journalVars
<1>13. ASSUME NEW p \in Procs, Commit(p) PROVE TypeOK'
    <2>1. Cardinality(work[p].found) \in Nat
        BY FS_Subset, FS_CardinalityType
    <2>2. Sighted(cand, Cardinality(work[p].found)) \in
             [status : {"none", "open", "expired", "confirmed", "rejected"}, sightings : Nat]
        BY <2>1 DEF Sighted
    <2>3. cand' = cand \/ cand' = Sighted(cand, Cardinality(work[p].found))
        BY <1>13 DEF Commit
    <2>4. counts' \in [Procs -> Nat] /\ stored' \in Cursors /\ off' \in Cursors
        BY <1>13 DEF Commit
    <2>5. \/ /\ work' = work \/ work' = [work EXCEPT ![p].resumed = TRUE]
             /\ pc' = [pc EXCEPT ![p] = "store"] \/ pc' = [pc EXCEPT ![p] = "read"]
             /\ lock' = lock
          \/ Finish(p, "over")
        BY <1>13 DEF Commit, Goto
    <2>6. NoWork \in [start : Cursors, end : Cursors, found : SUBSET Procs,
                      resumed : BOOLEAN, pass : Nat]
        BY DEF NoWork, Start, Cursors
    <2>7. work' \in [Procs -> [start : Cursors, end : Cursors, found : SUBSET Procs,
                               resumed : BOOLEAN, pass : Nat]]
        <3>1. CASE work' = [work EXCEPT ![p].resumed = TRUE]
            <4>1. [work[p] EXCEPT !.resumed = TRUE] \in
                      [start : Cursors, end : Cursors, found : SUBSET Procs,
                       resumed : BOOLEAN, pass : Nat]
                <5>1. work[p] \in [start : Cursors, end : Cursors, found : SUBSET Procs,
                                   resumed : BOOLEAN, pass : Nat]
                    OBVIOUS
                <5> HIDE DEF TypeOK
                <5> QED BY <5>1
            <4> QED BY <3>1, <4>1
        <3>2. CASE Finish(p, "over")
            BY <2>6, <3>2 DEF Finish
        <3> QED BY <2>5, <3>1, <3>2
    <2>8. pc' \in [Procs -> Points] /\ \A q \in Procs : pc'[q] \in Holding <=> lock' = q
        <3>1. pc[p] = "commit" /\ lock = p
            BY <1>13 DEF Commit
        <3>2. CASE lock' = lock /\ (pc' = [pc EXCEPT ![p] = "store"] \/ pc' = [pc EXCEPT ![p] = "read"])
            BY <3>1, <3>2
        <3>3. CASE Finish(p, "over")
            BY <3>1, <3>3 DEF Finish, Goto
        <3> QED BY <2>5, <3>2, <3>3
    <2>9. lock' \in Procs \cup {Nobody}
        BY <2>5 DEF Finish
    <2> QED BY <1>13, <2>2, <2>3, <2>4, <2>7, <2>8, <2>9 DEF Commit, journalVars
<1>14. ASSUME NEW p \in Procs, Drain(p) PROVE TypeOK'
    <2>1. [NoWork EXCEPT !.pass = work[p].pass + 1] \in
              [start : Cursors, end : Cursors, found : SUBSET Procs,
               resumed : BOOLEAN, pass : Nat]
        <3>1. work[p].pass + 1 \in Nat
            OBVIOUS
        <3>2. NoWork \in [start : Cursors, end : Cursors, found : SUBSET Procs,
                          resumed : BOOLEAN, pass : Nat]
            BY DEF NoWork, Start, Cursors
        <3> QED BY <3>1, <3>2
    <2>2. work' \in [Procs -> [start : Cursors, end : Cursors, found : SUBSET Procs,
                               resumed : BOOLEAN, pass : Nat]]
        BY <1>14, <2>1 DEF Drain
    <2>3. pc' \in [Procs -> Points] /\ \A q \in Procs : pc'[q] \in Holding <=> lock' = q
        BY <1>14 DEF Drain, Goto
    <2> QED BY <1>14, <2>2, <2>3 DEF Drain, journalVars
<1>15. ASSUME NEW p \in Procs, Unlock(p) PROVE TypeOK'
    BY <1>15 DEF Unlock, Finish, Goto, journalVars, NoWork, Start, Cursors
<1>16. CASE UNCHANGED vars
    BY <1>16 DEF vars, journalVars, deriveVars
<1> QED BY <1>1, <1>2, <1>3, <1>4, <1>5, <1>6, <1>7, <1>8, <1>9, <1>10, <1>11, <1>12,
           <1>13, <1>14, <1>15, <1>16 DEF Next, Step

\* Files change in three actions only.
LEMMA FilesChange ==
    ASSUME [Next]_vars
    PROVE  \/ \E p \in Procs : Invoke(p) \/ Tear(p) \/ Append(p)
           \/ UNCHANGED journalVars
BY DEF Next, Step, vars, Tick, LoseOffset, Verdict, PurgeCandidates, PassFails, Kill,
       Acquire, GiveUp, Insist, ReadBatch, Commit, Drain, Unlock

LEMMA LastKept ==
    ASSUME TypeOK, HasLast(Segments), [Next]_vars
    PROVE  HasLast(Segments)'
<1>1. Segments \subseteq Nat
    BY DaysAreNat DEF Segments, Listed
<1>2. ASSUME NEW p \in Procs, Invoke(p) PROVE HasLast(Segments)'
    <2>1. Segments' = Segments
        BY <1>2, DayInRange DEF Invoke, Segments, Listed, TypeOK
    <2> QED BY <2>1 DEF HasLast
<1>3. ASSUME NEW p \in Procs, Tear(p) PROVE HasLast(Segments)'
    <2>1. Segment(p) \in Days
        BY DayInRange DEF Segment, TypeOK
    <2>2. Segments' = Segments \cup {Segment(p)}
        BY <1>3, <2>1 DEF Tear, Segments, Listed
    <2>3. Segment(p) \in Nat
        BY <2>1, DaysAreNat
    <2> QED BY <1>1, <2>2, <2>3, LastAfterAdd DEF HasLast
<1>4. ASSUME NEW p \in Procs, Append(p) PROVE HasLast(Segments)'
    <2> DEFINE d == Segment(p)
               grown == [lines EXCEPT ![d] = @ + 1]
               segs == Listed(grown, torn \ {d})
    <2>1. d \in Days /\ d \in Nat
        BY DayInRange, DaysAreNat DEF Segment, TypeOK
    <2>2. segs = Segments \cup {d}
        BY <2>1 DEF Segments, Listed, TypeOK
    <2>3. HasLast(segs) /\ segs \subseteq Nat /\ segs # {}
        BY <2>1, <2>2, <1>1, LastAfterAdd
    <2>4. PICK removed \in {{}, Expendable(grown, torn \ {d})} :
              /\ lines' = [e \in Days |-> IF e \in removed THEN 0 ELSE grown[e]]
              /\ torn' = (torn \ {d}) \ removed
        BY <1>4 DEF Append
    <2>5. Segments' = segs \ removed
        BY <2>4 DEF Segments, Listed
    <2>6. Max(segs) \in segs /\ Max(segs) \notin removed
        BY <2>3, CleanupKeepsNewest, LastIsMax
    <2> QED BY <2>3, <2>5, <2>6, LastAfterDrop DEF HasLast
<1>5. CASE UNCHANGED journalVars
    BY <1>5 DEF journalVars, Segments, Listed, HasLast
<1> QED BY <1>2, <1>3, <1>4, <1>5, FilesChange

LEMMA LinesKept ==
    ASSUME TypeOK, LinesStand, Unwritten, [Next]_vars
    PROVE  LinesStand'
<1>1. ASSUME NEW p \in Procs, Invoke(p) PROVE LinesStand'
    BY <1>1, DaysAreNat DEF Invoke, LinesStand, TypeOK, Cursors
<1>2. ASSUME NEW p \in Procs, Tear(p) PROVE LinesStand'
    BY <1>2 DEF Tear, LinesStand
<1>3. ASSUME NEW p \in Procs, Append(p) PROVE LinesStand'
    <2> DEFINE d == Segment(p)
               grown == [lines EXCEPT ![d] = @ + 1]
    <2>1. d \in Days
        BY DayInRange DEF Segment, TypeOK
    <2>2. PICK removed :
              /\ lines' = [e \in Days |-> IF e \in removed THEN 0 ELSE grown[e]]
              /\ at' = [at EXCEPT ![p] = <<d, grown[d]>>]
              /\ gone' = gone \cup {q \in Procs : at'[q][1] \in removed}
                              \cup (IF d \in torn THEN {p} ELSE {})
        BY <1>3 DEF Append
    <2>3. SUFFICES ASSUME NEW q \in Procs \ gone', at'[q] # Start
                   PROVE  at'[q][1] \in Days /\ 1 <= at'[q][2] /\ at'[q][2] <= lines'[at'[q][1]]
        BY DEF LinesStand
    <2>4. q \notin gone /\ at'[q][1] \notin removed
        BY <2>2, <2>3
    <2>5. CASE q = p
        BY <2>1, <2>2, <2>4, <2>5 DEF TypeOK
    <2>6. CASE q # p
        <3>1. at'[q] = at[q] /\ at[q][1] \in Days /\ 1 <= at[q][2] /\ at[q][2] <= lines[at[q][1]]
            BY <2>2, <2>3, <2>4, <2>6 DEF LinesStand, TypeOK
        <3>2. lines'[at[q][1]] = grown[at[q][1]] /\ grown[at[q][1]] >= lines[at[q][1]]
            BY <2>1, <2>2, <2>4, <3>1 DEF TypeOK
        <3> QED BY <3>1, <3>2, <2>1 DEF TypeOK, Cursors
    <2> QED BY <2>5, <2>6
<1>4. CASE UNCHANGED journalVars
    BY <1>4 DEF journalVars, LinesStand
<1> QED BY <1>1, <1>2, <1>3, <1>4, FilesChange
-----------------------------------------------------------------------------
(* What a step may do to the lines behind a cursor.                         *)

\* Timestamps and segments are never ahead of the clock.
TimesInv ==
    /\ \A q \in Procs : inv[q].ts <= now
    /\ \A d \in Segments : d <= DayOf(now)

LEMMA DayMonotone ==
    ASSUME NEW t \in 0..MaxNow, NEW u \in 0..MaxNow, t <= u
    PROVE  DayOf(t) <= DayOf(u)
<1>1. MaxNow \in Nat /\ DayLength \in Nat \ {0} /\ t \in Nat /\ u \in Nat
    BY LimitsAssumption
<1>2. t \div DayLength <= u \div DayLength
    BY <1>1
<1>3. t \div DayLength \in Nat /\ u \div DayLength \in Nat
    BY <1>1
<1> QED BY <1>2, <1>3 DEF DayOf

LEMMA ClockMoves ==
    ASSUME TypeOK, [Next]_vars
    PROVE  now' \in 0..MaxNow /\ now <= now'
<1>1. now' = now \/ Tick
    BY DEF Next, Step, vars, LoseOffset, Verdict, PurgeCandidates, PassFails, Kill,
           Acquire, GiveUp, Insist, ReadBatch, Commit, Drain, Unlock, Invoke, Tear, Append
<1> QED BY <1>1, LimitsAssumption DEF TypeOK, Tick

\* A line is written into the segment of its own day.
LEMMA SegmentsGrow ==
    ASSUME TypeOK, [Next]_vars
    PROVE  \A d \in Segments' : d \in Segments \/ \E p \in Procs : d = Segment(p)
<1>1. ASSUME NEW p \in Procs, Invoke(p) PROVE Segments' \subseteq Segments
    BY <1>1, DayInRange DEF Invoke, Segments, Listed, TypeOK
<1>2. ASSUME NEW p \in Procs, Tear(p) PROVE Segments' \subseteq Segments \cup {Segment(p)}
    BY <1>2 DEF Tear, Segments, Listed
<1>3. ASSUME NEW p \in Procs, Append(p) PROVE Segments' \subseteq Segments \cup {Segment(p)}
    BY <1>3 DEF Append, Segments, Listed, TypeOK
<1>4. CASE UNCHANGED journalVars
    BY <1>4 DEF journalVars, Segments, Listed
<1> QED BY <1>1, <1>2, <1>3, <1>4, FilesChange

LEMMA TimesKept ==
    ASSUME TypeOK, TimesInv, [Next]_vars
    PROVE  TimesInv'
<1>1. now' \in 0..MaxNow /\ now \in 0..MaxNow /\ now <= now' /\ MaxNow \in Nat
    BY ClockMoves, LimitsAssumption DEF TypeOK
<1>2. ASSUME NEW q \in Procs PROVE inv'[q].ts <= now'
    <2>1. inv'[q].ts \in {inv[q].ts, now}
        <3>1. ASSUME NEW p \in Procs, Invoke(p) PROVE inv'[q].ts \in {inv[q].ts, now}
            BY <3>1 DEF Invoke, TypeOK
        <3>2. (\E p \in Procs : Invoke(p)) \/ inv' = inv
            BY FilesChange DEF Tear, Append, journalVars
        <3> QED BY <3>1, <3>2
    <2>2. inv[q].ts \in 0..MaxNow /\ inv[q].ts <= now
        BY DEF TypeOK, TimesInv
    <2> QED BY <1>1, <2>1, <2>2
<1>3. ASSUME NEW d \in Segments' PROVE d <= DayOf(now')
    <2>1. DayOf(now) <= DayOf(now') /\ DayOf(now) \in Nat /\ DayOf(now') \in Nat
        BY <1>1, DayMonotone, DayInRange, DaysAreNat
    <2>2. ASSUME NEW p \in Procs, d = Segment(p) PROVE d \in Nat /\ d <= DayOf(now)
        <3>1. inv[p].ts \in 0..MaxNow /\ inv[p].ts <= now
            BY DEF TypeOK, TimesInv
        <3> QED BY <1>1, <2>2, <3>1, DayMonotone, DayInRange, DaysAreNat DEF Segment
    <2>3. ASSUME d \in Segments PROVE d \in Nat /\ d <= DayOf(now)
        BY <2>3, DaysAreNat DEF TimesInv, Segments, Listed
    <2> QED BY <2>1, <2>2, <2>3, SegmentsGrow
<1> QED BY <1>2, <1>3 DEF TimesInv

\* The segment of today is the newest, so the cleanup spares it and everything
\* of it; what it removes it removes oldest first.
LEMMA CleanupOldestFirst ==
    ASSUME TypeOK, LinesStand, HasLast(Segments), TimesInv, NEW p \in Procs, Append(p)
    PROVE  \E removed \in SUBSET Days :
             /\ lines' = [e \in Days |-> IF e \in removed THEN 0 ELSE
                             [lines EXCEPT ![Segment(p)] = @ + 1][e]]
             /\ at' = [at EXCEPT ![p] =
                          <<Segment(p), [lines EXCEPT ![Segment(p)] = @ + 1][Segment(p)]>>]
             /\ gone' = gone \cup {q \in Procs : at'[q][1] \in removed}
                             \cup (IF Segment(p) \in torn THEN {p} ELSE {})
             /\ DayOf(now) \notin removed
             /\ \A e \in removed : \A d \in Segments : d <= e => d \in removed
<1> DEFINE d == Segment(p)
           grown == [lines EXCEPT ![d] = @ + 1]
           segs == Listed(grown, torn \ {d})
<1>1. PICK removed \in {{}, Expendable(grown, torn \ {d})} :
          /\ lines' = [e \in Days |-> IF e \in removed THEN 0 ELSE grown[e]]
          /\ at' = [at EXCEPT ![p] = <<d, grown[d]>>]
          /\ gone' = gone \cup {q \in Procs : at'[q][1] \in removed}
                          \cup (IF d \in torn THEN {p} ELSE {})
    BY DEF Append
<1>2. d \in Days /\ d \in Nat /\ d <= DayOf(now) /\ DayOf(now) \in Nat
    <2>1. inv[p].ts \in 0..MaxNow /\ now \in 0..MaxNow /\ inv[p].ts <= now
        BY DEF TypeOK, TimesInv
    <2> QED BY <2>1, DayInRange, DayMonotone, DaysAreNat DEF Segment
<1>3. segs = Segments \cup {d} /\ segs \subseteq Nat /\ segs \subseteq Days
    <2>1. segs = Segments \cup {d}
        BY <1>2 DEF Segments, Listed, TypeOK
    <2>2. segs \subseteq Days
        BY DEF Listed
    <2> QED BY <2>1, <2>2, DaysAreNat
<1>4. HasLast(segs)
    <2>1. Segments \subseteq Nat
        BY <1>3
    <2> QED BY <1>2, <1>3, <2>1, LastAfterAdd
<1>5. Max(segs) \in segs /\ \A e \in segs : e <= Max(segs)
    BY <1>2, <1>3, <1>4, LastIsMax
<1>6. removed \subseteq segs \ {Max(segs)}
    BY DEF Expendable
<1>7. \A e \in removed : \A c \in Segments : c <= e => c \in removed
    <2> SUFFICES ASSUME NEW e \in removed, NEW c \in Segments, c <= e PROVE c \in removed
        OBVIOUS
    <2>1. e \in segs /\ c \in segs /\ e # Max(segs) /\ e <= Max(segs) /\ Max(segs) \in Nat
          /\ e \in Nat /\ c \in Nat
        BY <1>3, <1>5, <1>6
    <2>2. c # Max(segs)
        BY <2>1
    <2>3. removed = Expendable(grown, torn \ {d})
        OBVIOUS
    <2> QED BY <2>1, <2>2, <2>3, <1>3, OldestGoFirst
<1>8. DayOf(now) \notin removed
    <2> SUFFICES ASSUME DayOf(now) \in removed PROVE FALSE
        OBVIOUS
    <2>1. \A e \in segs : e <= DayOf(now)
        BY <1>2, <1>3 DEF TimesInv
    <2>2. Max(segs) <= DayOf(now) /\ DayOf(now) <= Max(segs) /\ Max(segs) \in Nat
        BY <1>3, <1>5, <1>6, <2>1
    <2>3. Max(segs) = DayOf(now)
        BY <1>2, <2>2
    <2> HIDE DEF segs
    <2> QED BY <1>6, <2>3
<1> HIDE DEF grown, segs, d
<1>9. removed \in SUBSET Days
    BY <1>3, <1>6
<1> QED BY <1>1, <1>7, <1>8, <1>9 DEF grown, d

-----------------------------------------------------------------------------
(* The invariant.                                                           *)

LEMMA InitInv == Init => JournalInv
<1> SUFFICES ASSUME Init PROVE JournalInv
    OBVIOUS
<1> USE LimitsAssumption, ProcsAssumption DEF Init
<1>1. TypeOK
    <2>1. \A p \in Procs : inv[p] \in [sess : Sessions, ok : BOOLEAN, ts : 0..MaxNow]
        OBVIOUS
    <2>2. lines \in [Days -> Nat] /\ inv \in [Procs -> [sess : Sessions, ok : BOOLEAN, ts : 0..MaxNow]]
        BY <2>1
    <2> QED BY <2>2 DEF TypeOK, Start, Cursors, NoWork, Points, Holding, Finals
<1>2. HasLast(Segments) /\ LinesStand /\ Unwritten
    BY DEF HasLast, Segments, Listed, LinesStand, Unwritten
<1>3. CountedIsStored /\ CountedAtMostOnce /\ FoundInWindow
    BY DEF CountedIsStored, CountedAtMostOnce, FoundInWindow
<1>4. SightingsAreReal
    <2>1. {p \in Procs : counts[p] > 0} = {}
        OBVIOUS
    <2>2. cand.sightings = 0
        OBVIOUS
    <2> QED BY <2>1, <2>2, FS_EmptySet DEF SightingsAreReal
<1> QED BY <1>1, <1>2, <1>3, <1>4 DEF JournalInv

\* Only a commit changes the counts or the cursor stored with them.
LEMMA CountsChange ==
    ASSUME [Next]_vars
    PROVE  (\E p \in Procs : Commit(p)) \/ UNCHANGED <<counts, stored>>
BY DEF Next, Step, vars, Tick, LoseOffset, Verdict, PurgeCandidates, PassFails, Kill,
       Acquire, GiveUp, Insist, ReadBatch, Drain, Unlock, Invoke, Tear, Append,
       deriveVars

\* Only an append gives a line its place.
LEMMA PlacesChange ==
    ASSUME TypeOK, Unwritten, [Next]_vars
    PROVE  \A q \in Procs : at[q] # Start => at'[q] = at[q]
BY FilesChange DEF Invoke, Tear, Append, journalVars, Unwritten, TypeOK

\* One process moves at a time; it enters a commit by reading a batch only,
\* and comes to its append from the start of its epilogue only.
LEMMA WhoMoves ==
    ASSUME TypeOK, [Next]_vars
    PROVE  \/ UNCHANGED <<pc, work>>
           \/ \E p \in Procs :
                /\ \A q \in Procs \ {p} : pc'[q] = pc[q] /\ work'[q] = work[q]
                /\ pc'[p] # "idle"
                /\ pc'[p] = "append" => pc[p] = "idle"
                /\ pc'[p] = "commit" => ReadBatch(p)
<1> USE DEF TypeOK, Goto, Finish
<1>1. CASE Tick \/ LoseOffset \/ Verdict \/ \E b \in BOOLEAN : PurgeCandidates(b)
    BY <1>1 DEF Tick, LoseOffset, Verdict, PurgeCandidates, deriveVars
<1>2. ASSUME NEW p \in Procs, Invoke(p) \/ Tear(p) \/ Append(p) \/ GiveUp(p) \/ Insist(p)
      PROVE  /\ \A q \in Procs \ {p} : pc'[q] = pc[q] /\ work'[q] = work[q]
             /\ pc'[p] \notin {"idle", "commit"} /\ (pc'[p] = "append" => pc[p] = "idle")
    BY <1>2 DEF Invoke, Tear, Append, GiveUp, Insist, deriveVars
<1>3. ASSUME NEW p \in Procs, PassFails(p) \/ Kill(p) \/ Unlock(p) \/ Acquire(p)
      PROVE  /\ \A q \in Procs \ {p} : pc'[q] = pc[q] /\ work'[q] = work[q]
             /\ pc'[p] \notin {"idle", "commit", "append"}
    BY <1>3 DEF PassFails, Kill, Unlock, Acquire
<1>4. ASSUME NEW p \in Procs, Commit(p)
      PROVE  /\ \A q \in Procs \ {p} : pc'[q] = pc[q] /\ work'[q] = work[q]
             /\ pc'[p] \notin {"idle", "commit", "append"}
    BY <1>4 DEF Commit
<1>5. ASSUME NEW p \in Procs, Drain(p)
      PROVE  /\ \A q \in Procs \ {p} : pc'[q] = pc[q] /\ work'[q] = work[q]
             /\ pc'[p] \notin {"idle", "commit", "append"}
    BY <1>5 DEF Drain
<1>6. ASSUME NEW p \in Procs, ReadBatch(p)
      PROVE  /\ \A q \in Procs \ {p} : pc'[q] = pc[q] /\ work'[q] = work[q]
             /\ pc'[p] \notin {"idle", "append"}
    BY <1>6 DEF ReadBatch
<1> QED BY <1>1, <1>2, <1>3, <1>4, <1>5, <1>6 DEF Next, Step, vars, deriveVars

LEMMA UnwrittenKept ==
    ASSUME TypeOK, Unwritten, FoundInWindow, [Next]_vars
    PROVE  Unwritten'
<1> SUFFICES ASSUME NEW q \in Procs, pc'[q] \in {"idle", "append"}
             PROVE  at'[q] = Start /\ counts'[q] = 0
    BY DEF Unwritten
<1>1. pc[q] \in {"idle", "append"}
    BY WhoMoves
<1>2. at[q] = Start /\ counts[q] = 0
    BY <1>1 DEF Unwritten
<1>3. at'[q] = Start
    <2>1. ASSUME NEW p \in Procs, Append(p) PROVE p # q
        BY <2>1 DEF Append, Goto, TypeOK
    <2> QED BY <1>2, <2>1, FilesChange DEF Invoke, Tear, Append, journalVars, TypeOK
<1>4. ASSUME NEW p \in Procs, Commit(p) PROVE counts'[q] = 0
    <2>1. q \notin work[p].found
        BY <1>2, <1>4, CursorOrder DEF Commit, FoundInWindow, TypeOK
    <2> QED BY <1>2, <1>4, <2>1 DEF Commit
<1> QED BY <1>2, <1>3, <1>4, CountsChange

LEMMA FoundKept ==
    ASSUME TypeOK, HasLast(Segments), LinesStand, Unwritten, FoundInWindow, [Next]_vars
    PROVE  FoundInWindow'
<1> SUFFICES ASSUME NEW p \in Procs, pc'[p] = "commit", NEW f \in work'[p].found
             PROVE  Before(work'[p].start, at'[f]) /\ ~Before(work'[p].end, at'[f])
    BY DEF FoundInWindow
<1>1. CASE ReadBatch(p)
    <2>1. /\ work'[p].start = off /\ work'[p].end = End(off)
          /\ work'[p].found \subseteq Pairs(Batch(off))
        BY <1>1 DEF ReadBatch, TypeOK
    <2>2. f \in Batch(off) /\ at' = at
        BY <1>1, <2>1 DEF Pairs, ReadBatch, journalVars
    <2>3. Before(off, at[f]) /\ ~Before(End(off), at[f])
        BY <2>2, EndCovers DEF Batch, TypeOK
    <2> QED BY <2>1, <2>2, <2>3
<1>2. CASE ~ReadBatch(p)
    <2>1. pc[p] = "commit" /\ work'[p] = work[p]
        BY <1>2, WhoMoves
    <2>2. Before(work[p].start, at[f]) /\ ~Before(work[p].end, at[f]) /\ f \in Procs
        BY <2>1 DEF FoundInWindow, TypeOK
    <2>3. at'[f] = at[f]
        BY <2>2, PlacesChange, CursorOrder DEF TypeOK
    <2> QED BY <2>1, <2>2, <2>3
<1> QED BY <1>1, <1>2

\* What a commit counts was never counted before.
LEMMA CommitIsFresh ==
    ASSUME TypeOK, CountedIsStored, FoundInWindow, NEW p \in Procs, Commit(p)
    PROVE  \/ UNCHANGED <<counts, stored, cand>>
           \/ /\ stored' = work[p].end /\ Before(stored, work[p].end)
              /\ counts' = [f \in Procs |->
                               IF f \in work[p].found THEN counts[f] + 1 ELSE counts[f]]
              /\ cand' = Sighted(cand, Cardinality(work[p].found))
              /\ \A f \in work[p].found : counts[f] = 0 /\ ~Before(stored', at[f])
<1> SUFFICES ASSUME Before(stored, work[p].end), ~Before(work[p].start, stored)
             PROVE  \A f \in work[p].found : counts[f] = 0 /\ ~Before(work[p].end, at[f])
    BY DEF Commit
<1> TAKE f \in work[p].found
<1>1. Before(work[p].start, at[f]) /\ ~Before(work[p].end, at[f]) /\ f \in Procs
    BY DEF Commit, FoundInWindow, TypeOK
<1>2. at[f] \in Cursors /\ stored \in Cursors /\ work[p].start \in Cursors
    BY <1>1 DEF TypeOK
<1>3. Before(stored, at[f])
    BY <1>1, <1>2 DEF Before, Cursors
<1>4. counts[f] = 0
    BY <1>1, <1>3 DEF CountedIsStored, TypeOK
<1> QED BY <1>1, <1>4

LEMMA CountsKept ==
    ASSUME TypeOK, Unwritten, CountedIsStored, CountedAtMostOnce, FoundInWindow, [Next]_vars
    PROVE  CountedIsStored' /\ CountedAtMostOnce'
<1>1. \A q \in Procs : counts[q] > 0 => at'[q] = at[q]
    <2> SUFFICES ASSUME NEW q \in Procs, counts[q] > 0 PROVE at'[q] = at[q]
        OBVIOUS
    <2>1. pc[q] \notin {"idle", "append"}
        BY DEF Unwritten
    <2> QED BY <2>1, FilesChange DEF Invoke, Tear, Append, journalVars, TypeOK
<1>2. CASE UNCHANGED <<counts, stored>>
    BY <1>1, <1>2 DEF CountedIsStored, CountedAtMostOnce
<1>3. ASSUME NEW p \in Procs, Commit(p), ~UNCHANGED <<counts, stored>>
      PROVE  CountedIsStored' /\ CountedAtMostOnce'
    <2>1. /\ stored' = work[p].end /\ Before(stored, work[p].end)
          /\ counts' = [f \in Procs |->
                           IF f \in work[p].found THEN counts[f] + 1 ELSE counts[f]]
          /\ \A f \in work[p].found : counts[f] = 0 /\ ~Before(stored', at[f])
        BY <1>3, CommitIsFresh
    <2>2. at' = at
        BY <1>3 DEF Commit, journalVars
    <2>3. ASSUME NEW q \in Procs, counts'[q] > 0
          PROVE  ~Before(stored', at[q]) /\ counts'[q] <= 1
        <3>1. CASE q \in work[p].found
            BY <2>1, <3>1
        <3>2. CASE q \notin work[p].found
            <4>1. counts'[q] = counts[q] /\ ~Before(stored, at[q])
                BY <2>1, <2>3, <3>2 DEF CountedIsStored
            <4>2. at[q] \in Cursors /\ stored \in Cursors /\ work[p].end \in Cursors
                BY DEF TypeOK
            <4> QED BY <2>1, <4>1, <4>2 DEF CountedAtMostOnce, Before, Cursors
        <3> QED BY <3>1, <3>2
    <2>4. \A q \in Procs : counts'[q] \in Nat
        BY <2>1 DEF TypeOK
    <2> QED BY <2>2, <2>3, <2>4 DEF CountedIsStored, CountedAtMostOnce
<1> QED BY <1>2, <1>3, CountsChange
\* The candidate changes by a commit, a verdict or a purge.
LEMMA CandChange ==
    ASSUME TypeOK, [Next]_vars
    PROVE  \/ \E p \in Procs : Commit(p) /\ ~UNCHANGED <<counts, stored, cand>>
           \/ Verdict \/ \E b \in BOOLEAN : PurgeCandidates(b)
           \/ UNCHANGED <<counts, cand>>
BY DEF Next, Step, vars, Tick, LoseOffset, PassFails, Kill, Acquire, GiveUp, Insist,
       ReadBatch, Drain, Unlock, Invoke, Tear, Append, deriveVars

LEMMA SightingsKept ==
    ASSUME TypeOK, CountedIsStored, FoundInWindow, SightingsAreReal, [Next]_vars
    PROVE  SightingsAreReal'
<1> DEFINE counted == {q \in Procs : counts[q] > 0}
<1>1. CASE UNCHANGED counts /\ cand'.sightings <= cand.sightings /\ cand'.sightings \in Nat
    <2>1. cand.sightings \in Nat
        BY DEF TypeOK
    <2>2. IsFiniteSet(counted) /\ Cardinality(counted) \in Nat
        BY ProcsAssumption, FS_Subset, FS_CardinalityType
    <2> QED BY <1>1, <2>1, <2>2 DEF SightingsAreReal
<1>2. ASSUME NEW p \in Procs, Commit(p), ~UNCHANGED <<counts, stored, cand>>
      PROVE  SightingsAreReal'
    <2> DEFINE found == work[p].found
    <2>1. /\ counts' = [f \in Procs |-> IF f \in found THEN counts[f] + 1 ELSE counts[f]]
          /\ cand' = Sighted(cand, Cardinality(found))
          /\ \A f \in found : counts[f] = 0
        BY <1>2, CommitIsFresh
    <2>2. found \subseteq Procs /\ counts \in [Procs -> Nat]
        BY DEF TypeOK
    <2>3. {q \in Procs : counts'[q] > 0} = counted \cup found /\ counted \cap found = {}
        BY <2>1, <2>2
    <2>4. IsFiniteSet(counted) /\ IsFiniteSet(found)
        BY <2>2, ProcsAssumption, FS_Subset
    <2>5. Cardinality(counted \cup found) = Cardinality(counted) + Cardinality(found)
        <3>1. Cardinality(counted \cup found) =
                 Cardinality(counted) + Cardinality(found) - Cardinality(counted \cap found)
            BY <2>4, FS_Union
        <3>2. Cardinality(counted \cap found) = 0
            BY <2>3, FS_EmptySet
        <3>3. Cardinality(counted) \in Nat /\ Cardinality(found) \in Nat
            BY <2>4, FS_CardinalityType
        <3> QED BY <3>1, <3>2, <3>3
    <2>6. Cardinality(counted) \in Nat /\ Cardinality(found) \in Nat
        BY <2>4, FS_CardinalityType
    <2>7. cand.sightings <= Cardinality(counted) /\ cand.sightings \in Nat
        BY DEF SightingsAreReal, TypeOK
    <2> HIDE DEF counted, found
    <2>8. cand'.sightings <= Cardinality(counted) + Cardinality(found)
        BY <2>1, <2>6, <2>7 DEF Sighted, TypeOK
    <2> QED BY <2>3, <2>5, <2>8 DEF SightingsAreReal
<1>3. CASE Verdict \/ \E b \in BOOLEAN : PurgeCandidates(b)
    <2>1. UNCHANGED counts /\ cand'.sightings <= cand.sightings /\ cand'.sightings \in Nat
        BY <1>3 DEF Verdict, PurgeCandidates, TypeOK
    <2> QED BY <1>1, <2>1
<1>4. CASE UNCHANGED <<counts, cand>>
    BY <1>4 DEF SightingsAreReal
<1> QED BY <1>2, <1>3, <1>4, CandChange

\* A line keeps its place, its stamps and its outcome.
LEMMA LineStands ==
    ASSUME TypeOK, Unwritten, [Next]_vars, NEW q \in Procs, at[q] # Start
    PROVE  at'[q] = at[q] /\ inv'[q] = inv[q] /\ wrote'[q] = wrote[q]
<1>1. pc[q] \notin {"idle", "append"}
    BY DEF Unwritten
<1>2. ASSUME NEW p \in Procs, Invoke(p) \/ Tear(p) \/ Append(p)
      PROVE  at'[q] = at[q] /\ inv'[q] = inv[q] /\ wrote'[q] = wrote[q]
    BY <1>1, <1>2 DEF Invoke, Tear, Append, TypeOK
<1> QED BY <1>2, FilesChange DEF journalVars

\* A readable line loses its place to the cleanup only, and then every line
\* before it has gone too.
LEMMA OldestGone ==
    ASSUME JournalInv, TimesInv, [Next]_vars,
           NEW r \in Procs \ gone, NEW f \in Procs \ gone',
           at[f] # Start, at[r] # Start, Before(at[f], at[r])
    PROVE  r \notin gone'
<1>0. TypeOK /\ LinesStand /\ HasLast(Segments) /\ Unwritten
    BY DEF JournalInv
<1>1. CASE gone' = gone
    BY <1>1
<1>2. ASSUME NEW p \in Procs, Append(p) PROVE r \notin gone'
    <2>1. PICK removed \in SUBSET Days :
             /\ at' = [at EXCEPT ![p] =
                          <<Segment(p), [lines EXCEPT ![Segment(p)] = @ + 1][Segment(p)]>>]
             /\ gone' = gone \cup {q \in Procs : at'[q][1] \in removed}
                             \cup (IF Segment(p) \in torn THEN {p} ELSE {})
             /\ \A e \in removed : \A d \in Segments : d <= e => d \in removed
        BY <1>0, <1>2, CleanupOldestFirst
    <2>2. r # p /\ at'[r] = at[r] /\ at'[f] = at[f]
        BY <1>0, <1>2, LineStands DEF Unwritten, Append
    <2>3. f \notin gone /\ at[f][1] \notin removed
        BY <2>1, <2>2
    <2>4. at[f][1] \in Segments /\ at[f][1] <= at[r][1]
        <3>1. at[f] \in Cursors /\ at[r] \in Cursors
            BY <1>0 DEF TypeOK
        <3>2. at[f][1] \in Days /\ 1 <= lines[at[f][1]]
            BY <1>0, <2>3, <3>1 DEF LinesStand, TypeOK, Cursors
        <3> QED BY <1>0, <3>1, <3>2 DEF Before, Segments, Listed, Cursors, TypeOK
    <2>5. at[r][1] \notin removed
        BY <2>1, <2>3, <2>4
    <2> QED BY <2>1, <2>2, <2>5
<1>3. gone' = gone \/ \E p \in Procs : Append(p)
    BY FilesChange DEF Invoke, Tear, journalVars
<1> QED BY <1>1, <1>2, <1>3

\* c lies before whatever is appended from now on, but for stray lines.
Valid(c) ==
    \/ c[1] < DayOf(now)
    \/ c[1] = DayOf(now) /\ c[2] <= lines[DayOf(now)]

LEMMA ValidKept ==
    ASSUME JournalInv, TimesInv, [Next]_vars, NEW c \in Cursors, Valid(c)
    PROVE  Valid(c)'
<1>0. /\ TypeOK /\ LinesStand /\ HasLast(Segments)
      /\ now \in 0..MaxNow /\ now' \in 0..MaxNow /\ now <= now'
    BY ClockMoves DEF JournalInv, TypeOK
<1>1. /\ DayOf(now) \in Days /\ DayOf(now) \in Nat /\ DayOf(now') \in Nat
      /\ DayOf(now) <= DayOf(now') /\ c \in Nat \X Nat
    BY <1>0, DayInRange, DayMonotone, DaysAreNat DEF Cursors
<1>2. lines[DayOf(now)] \in Nat
    BY <1>0, <1>1 DEF TypeOK
<1>3. now' = now => lines'[DayOf(now)] \in Nat /\ lines[DayOf(now)] <= lines'[DayOf(now)]
    <2>1. CASE lines' = lines
        BY <1>2, <2>1
    <2>2. ASSUME NEW p \in Procs, Invoke(p)
          PROVE  lines'[DayOf(now)] \in Nat /\ lines[DayOf(now)] <= lines'[DayOf(now)]
        BY <1>0, <1>1, <1>2, <2>2 DEF Invoke, TypeOK
    <2>3. ASSUME NEW p \in Procs, Append(p)
          PROVE  lines'[DayOf(now)] \in Nat /\ lines[DayOf(now)] <= lines'[DayOf(now)]
        <3>1. PICK removed \in SUBSET Days :
                 /\ lines' = [e \in Days |-> IF e \in removed THEN 0 ELSE
                                 [lines EXCEPT ![Segment(p)] = @ + 1][e]]
                 /\ DayOf(now) \notin removed
            BY <1>0, <2>3, CleanupOldestFirst
        <3>2. lines'[DayOf(now)] \in {lines[DayOf(now)], lines[DayOf(now)] + 1}
            BY <1>0, <1>1, <3>1 DEF TypeOK
        <3> QED BY <1>2, <3>2
    <2>4. lines' = lines \/ \E p \in Procs : Invoke(p) \/ Append(p)
        BY FilesChange DEF Tear, journalVars
    <2> QED BY <2>1, <2>2, <2>3, <2>4
<1>4. CASE now' = now
    BY <1>1, <1>2, <1>3, <1>4 DEF Valid
<1>5. CASE now' # now
    <2>1. Tick
        BY <1>5 DEF Next, Step, vars, LoseOffset, Verdict, PurgeCandidates, PassFails, Kill,
               Acquire, GiveUp, Insist, ReadBatch, Commit, Drain, Unlock, Invoke, Tear, Append
    <2>2. lines' = lines
        BY <2>1 DEF Tick, journalVars
    <2> QED BY <1>1, <1>2, <2>2 DEF Valid
<1> QED BY <1>4, <1>5

\* A line that is not stray is appended behind every such cursor, now.
LEMMA AppendedPast ==
    ASSUME JournalInv, TimesInv, [Next]_vars, NEW q \in Procs,
           at[q] = Start, at'[q] # Start
    PROVE  /\ pc[q] = "append" /\ inv'[q] = inv[q] /\ wrote'[q] = now
           /\ ~Stray(q)' => \A c \in Cursors : Valid(c) => Before(c, at'[q])
<1>0. TypeOK /\ now \in 0..MaxNow /\ inv[q].ts \in 0..MaxNow /\ inv[q].ts <= now
    BY DEF JournalInv, TypeOK, TimesInv
<1>1. Append(q)
    <2>1. ASSUME NEW p \in Procs, Append(p) PROVE p = q
        BY <1>0, <2>1 DEF Append, TypeOK
    <2>2. \E p \in Procs : Append(p)
        BY FilesChange DEF Invoke, Tear, journalVars
    <2> QED BY <2>1, <2>2
<1>2. pc[q] = "append" /\ inv'[q] = inv[q] /\ wrote'[q] = now
    BY <1>0, <1>1 DEF Append, TypeOK
<1>3. ASSUME ~Stray(q)', NEW c \in Cursors, Valid(c) PROVE Before(c, at'[q])
    <2>1. DayOf(inv[q].ts) <= DayOf(now) /\ DayOf(inv[q].ts) \in Nat /\ DayOf(now) \in Nat
          /\ DayOf(now) \in Days
        BY <1>0, DayInRange, DayMonotone, DaysAreNat
    <2>2. Segment(q) = DayOf(now)
        BY <1>2, <1>3, <2>1 DEF Stray, Segment
    <2>3. at'[q] = <<DayOf(now), lines[DayOf(now)] + 1>> /\ lines[DayOf(now)] \in Nat
        BY <1>0, <1>1, <2>1, <2>2 DEF Append, TypeOK
    <2> QED BY <1>3, <2>1, <2>3 DEF Valid, Before, Cursors
<1> QED BY <1>2, <1>3

-----------------------------------------------------------------------------
(* No pair is split.                                                        *)

\* A readable line that c has passed; ReadPast is this of the file cursor.
Behind(c, q) == q \notin gone /\ ~Stray(q) /\ at[q] # Start /\ ~Before(c, at[q])

\* The failure f needs no line behind c: the next one of its session stands
\* before c, or whatever comes after c comes too late.
Answered(c, f) ==
    \/ \E r \in LaterInSession(Procs \ gone, f) : ~Before(c, at[r])
    \/ /\ now - inv[f].ts > Window
       /\ \A s \in Procs \ gone :
             at[s] # Start /\ ~Stray(s) /\ Before(c, at[s]) => wrote[s] - inv[f].ts > Window

Settled(c) == \A f \in Procs : Behind(c, f) /\ ~inv[f].ok => Answered(c, f)

\* What CorrectionsAreCounted is about.
Corrected(f, s) ==
    /\ Corrects(f, s) /\ NextInSession(Procs \ gone, f, s)
    /\ wrote[s] - inv[f].ts <= Window

\* Every corrected failure before c has been counted, or is in found.
Covered(c, found) ==
    \A f, s \in Procs : Behind(c, f) /\ Behind(c, s) /\ Corrected(f, s) =>
        counts[f] >= 1 \/ f \in found

Whole(c, found) == Valid(c) /\ Settled(c) /\ Covered(c, found)

\* The cursors a reader goes on from, and those it is about to: with a window
\* that a pass is to commit comes what it found in it.
Claimed(c, found) ==
    \/ c \in {off, stored} /\ found = {}
    \/ \E p \in Procs : pc[p] = "commit" /\ c = work[p].end /\ found = work[p].found
    \/ \E p \in Procs : pc[p] = "store" /\ c = work[p].end /\ found = {}

CoverInv ==
    TimesInv /\ \A c \in Cursors, found \in SUBSET Procs : Claimed(c, found) => Whole(c, found)

\* Nothing comes to stand before a valid cursor any more.
LEMMA BehindBefore ==
    ASSUME JournalInv, TimesInv, [Next]_vars, NEW c \in Cursors, Valid(c),
           NEW q \in Procs, Behind(c, q)'
    PROVE  Behind(c, q) /\ at'[q] = at[q] /\ inv'[q] = inv[q] /\ wrote'[q] = wrote[q]
<1>0. TypeOK /\ Unwritten
    BY DEF JournalInv
<1>1. at[q] # Start
    BY AppendedPast DEF Behind
<1>2. at'[q] = at[q] /\ inv'[q] = inv[q] /\ wrote'[q] = wrote[q]
    BY <1>0, <1>1, LineStands
<1>3. gone \subseteq gone'
    BY FilesChange DEF Invoke, Tear, Append, journalVars
<1> QED BY <1>1, <1>2, <1>3 DEF Behind, Stray

LEMMA SettledKept ==
    ASSUME JournalInv, TimesInv, [Next]_vars, NEW c \in Cursors, Valid(c), Settled(c)
    PROVE  Settled(c)'
<1>0. /\ TypeOK /\ Unwritten /\ now \in 0..MaxNow /\ now' \in 0..MaxNow /\ now <= now'
      /\ gone \subseteq gone' /\ Window \in Nat /\ MaxNow \in Nat
    BY ClockMoves, LimitsAssumption, FilesChange
       DEF JournalInv, TypeOK, Invoke, Tear, Append, journalVars
<1> SUFFICES ASSUME NEW f \in Procs, Behind(c, f)', ~inv'[f].ok PROVE Answered(c, f)'
    BY DEF Settled
<1>1. Behind(c, f) /\ at'[f] = at[f] /\ inv'[f] = inv[f] /\ at[f] # Start /\ f \notin gone'
    BY BehindBefore DEF Behind
<1>2. Answered(c, f)
    BY <1>1 DEF Settled
<1>3. CASE \E r \in LaterInSession(Procs \ gone, f) : ~Before(c, at[r])
    <2>1. PICK r \in Procs \ gone : r \in LaterInSession(Procs \ gone, f) /\ ~Before(c, at[r])
        BY <1>3 DEF LaterInSession
    <2>2. Before(at[f], at[r]) /\ inv[r].sess = inv[f].sess
        BY <2>1 DEF LaterInSession
    <2>3. at[r] # Start
        BY <1>0, <2>2, CursorOrder DEF TypeOK
    <2>4. r \notin gone' /\ at'[r] = at[r] /\ inv'[r] = inv[r]
        BY <1>0, <1>1, <2>2, <2>3, OldestGone, LineStands
    <2> QED BY <1>1, <2>1, <2>2, <2>4 DEF Answered, LaterInSession
<1>4. CASE /\ now - inv[f].ts > Window
           /\ \A s \in Procs \ gone :
                 at[s] # Start /\ ~Stray(s) /\ Before(c, at[s]) => wrote[s] - inv[f].ts > Window
    <2>1. inv[f].ts \in Nat /\ now' - inv'[f].ts > Window
        BY <1>0, <1>1, <1>4 DEF TypeOK
    <2>2. ASSUME NEW s \in Procs \ gone', at'[s] # Start, ~Stray(s)', Before(c, at'[s])
          PROVE  wrote'[s] - inv'[f].ts > Window
        <3>1. CASE at[s] = Start
            BY <1>1, <1>4, <2>2, <3>1, AppendedPast
        <3>2. CASE at[s] # Start
            <4>1. at'[s] = at[s] /\ inv'[s] = inv[s] /\ wrote'[s] = wrote[s]
                BY <1>0, <3>2, LineStands
            <4> QED BY <1>0, <1>1, <1>4, <2>2, <3>2, <4>1 DEF Stray
        <3> QED BY <3>1, <3>2
    <2> QED BY <2>1, <2>2 DEF Answered
<1> QED BY <1>2, <1>3, <1>4 DEF Answered

LEMMA CoveredKept ==
    ASSUME JournalInv, TimesInv, [Next]_vars, NEW c \in Cursors, NEW found \in SUBSET Procs,
           Valid(c), Covered(c, found)
    PROVE  Covered(c, found)'
<1>0. TypeOK /\ Unwritten /\ gone \subseteq gone'
    BY FilesChange DEF JournalInv, Invoke, Tear, Append, journalVars
<1> SUFFICES ASSUME NEW f \in Procs, NEW s \in Procs,
                    Behind(c, f)', Behind(c, s)', Corrected(f, s)'
             PROVE  counts'[f] >= 1 \/ f \in found
    BY DEF Covered
<1>1. /\ Behind(c, f) /\ at'[f] = at[f] /\ inv'[f] = inv[f] /\ at[f] # Start /\ f \notin gone'
      /\ Behind(c, s) /\ at'[s] = at[s] /\ inv'[s] = inv[s] /\ wrote'[s] = wrote[s]
      /\ s \notin gone
    BY BehindBefore DEF Behind
<1>2. ASSUME NEW r \in LaterInSession(Procs \ gone, f) PROVE ~Before(at[r], at[s])
    <2>1. r \in Procs \ gone /\ Before(at[f], at[r]) /\ inv[r].sess = inv[f].sess
        BY <1>2 DEF LaterInSession
    <2>2. at[r] # Start
        BY <1>0, <2>1, CursorOrder DEF TypeOK
    <2>3. r \notin gone' /\ at'[r] = at[r] /\ inv'[r] = inv[r]
        BY <1>0, <1>1, <2>1, <2>2, OldestGone, LineStands
    <2> QED BY <1>1, <2>1, <2>3 DEF Corrected, NextInSession, LaterInSession
<1>3. Corrected(f, s)
    BY <1>1, <1>2 DEF Corrected, Corrects, NextInSession, LaterInSession
<1>4. counts[f] >= 1 \/ f \in found
    BY <1>1, <1>3 DEF Covered
<1>5. counts'[f] \in {counts[f], counts[f] + 1} /\ counts[f] \in Nat
    BY <1>0, CountsChange DEF Commit, TypeOK
<1> QED BY <1>4, <1>5

LEMMA WholeKept ==
    ASSUME JournalInv, TimesInv, [Next]_vars, NEW c \in Cursors, NEW found \in SUBSET Procs,
           Whole(c, found)
    PROVE  Whole(c, found)'
BY ValidKept, SettledKept, CoveredKept DEF Whole

\* A reader's new cursor is behind nothing that can be read.
LEMMA EndAfterAll ==
    ASSUME TypeOK, HasLast(Segments), LinesStand, NEW c \in Cursors,
           NEW q \in Procs \ gone, at[q] # Start
    PROVE  ~Before(End(c), at[q])
<1>1. CASE Before(c, at[q])
    BY <1>1, EndCovers DEF Batch
<1>2. CASE ~Before(c, at[q])
    <2> DEFINE listed == {d \in Segments : c[1] <= d}
    <2>1. /\ at[q] \in Cursors /\ c \in Nat \X Nat /\ at[q][1] \in Days
          /\ at[q][1] <= c[1] /\ at[q][2] <= lines[at[q][1]]
        BY <1>2 DEF TypeOK, LinesStand, Before, Cursors
    <2>2. CASE listed = {}
        BY <1>2, <2>2 DEF End
    <2>3. CASE listed # {}
        <3>1. listed \subseteq Nat /\ HasLast(listed) /\ listed \subseteq Days
            <4>1. Segments \subseteq Days /\ listed \subseteq Nat /\ listed \subseteq Segments
                BY DaysAreNat DEF Segments, Listed
            <4>2. HasLast(listed)
                BY <4>1, DaysAreNat DEF HasLast, Cursors
            <4> QED BY <4>1, <4>2
        <3>2. Max(listed) \in listed
            BY <2>3, <3>1, LastIsMax
        <3>3. End(c) = <<Max(listed), lines[Max(listed)]>>
            BY <2>3 DEF End
        <3>4. PICK m \in listed : End(c) = <<m, lines[m]>> /\ m \in Nat /\ lines[m] \in Nat
            BY <3>1, <3>2, <3>3 DEF TypeOK
        <3>5. c[1] <= m
            BY <3>4
        <3> HIDE DEF listed
        <3> QED BY <2>1, <3>4, <3>5 DEF Before, Cursors
    <2> QED BY <2>2, <2>3
<1> QED BY <1>1, <1>2

LEMMA EndValid ==
    ASSUME TypeOK, HasLast(Segments), TimesInv, NEW c \in Cursors, Valid(c)
    PROVE  Valid(End(c))
<1> DEFINE listed == {d \in Segments : c[1] <= d}
<1>1. CASE listed = {}
    BY <1>1 DEF End
<1>2. CASE listed # {}
    <2>1. listed \subseteq Nat /\ HasLast(listed) /\ listed \subseteq Days
        <3>1. Segments \subseteq Days /\ listed \subseteq Nat /\ listed \subseteq Segments
            BY DaysAreNat DEF Segments, Listed
        <3>2. HasLast(listed)
            BY <3>1, DaysAreNat DEF HasLast, Cursors
        <3> QED BY <3>1, <3>2
    <2>2. Max(listed) \in listed
        BY <1>2, <2>1, LastIsMax
    <2>3. End(c) = <<Max(listed), lines[Max(listed)]>>
        BY <1>2 DEF End
    <2>4. PICK m \in listed : End(c) = <<m, lines[m]>> /\ m \in Nat /\ lines[m] \in Nat
        BY <2>1, <2>2, <2>3 DEF TypeOK
    <2>5. m <= DayOf(now) /\ DayOf(now) \in Nat
        BY <2>4, DayInRange, DaysAreNat DEF TimesInv, TypeOK
    <2> QED BY <2>4, <2>5 DEF Valid
<1> QED BY <1>1, <1>2

\* A batch that is not held back leaves nothing open before its end but what
\* it pairs.
LEMMA BatchWhole ==
    ASSUME JournalInv, TimesInv, Whole(off, {}), ~Pending(Batch(off))
    PROVE  Whole(End(off), Pairs(Batch(off)))
<1>0. /\ TypeOK /\ HasLast(Segments) /\ LinesStand /\ off \in Cursors /\ End(off) \in Cursors
      /\ \A q \in Procs : at[q] \in Cursors
    BY EndCovers DEF JournalInv, TypeOK
<1>1. \A q \in Procs \ gone : at[q] # Start => ~Before(End(off), at[q])
    BY <1>0, EndAfterAll
<1>2. Valid(End(off))
    BY <1>0, EndValid DEF Whole
<1>3. ASSUME NEW f \in Procs, Behind(End(off), f), ~inv[f].ok
      PROVE  Answered(End(off), f)
    <2>1. CASE Before(off, at[f])
        <3>1. f \in Batch(off)
            BY <1>3, <2>1 DEF Batch, Behind
        <3>2. CASE now - inv[f].ts > Window
            BY <1>1, <3>2 DEF Answered
        <3>3. CASE ~(now - inv[f].ts > Window)
            <4>1. now - inv[f].ts <= Window
                BY <1>0, <3>3, LimitsAssumption DEF TypeOK
            <4>2. PICK r \in Batch(off) : r \in LaterInSession(Batch(off), f)
                BY <1>3, <3>1, <4>1 DEF Pending, LaterInSession
            <4>3. r \in LaterInSession(Procs \ gone, f)
                BY <4>2 DEF LaterInSession, Batch
            <4>4. ~Before(End(off), at[r])
                BY <1>0, EndCovers
            <4> QED BY <4>3, <4>4 DEF Answered
        <3> QED BY <3>2, <3>3
    <2>2. CASE ~Before(off, at[f])
        <3>1. Answered(off, f)
            BY <1>3, <2>2 DEF Whole, Settled, Behind
        <3>2. CASE now - inv[f].ts > Window
            BY <1>1, <3>2 DEF Answered
        <3>3. CASE \E r \in LaterInSession(Procs \ gone, f) : ~Before(off, at[r])
            <4>1. PICK r \in LaterInSession(Procs \ gone, f) : ~Before(off, at[r])
                BY <3>3
            <4>2. r \in Procs \ gone /\ at[r] # Start
                BY <1>0, <4>1, CursorOrder DEF LaterInSession
            <4> QED BY <1>1, <4>1, <4>2 DEF Answered
        <3> QED BY <3>1, <3>2, <3>3 DEF Answered
    <2> QED BY <2>1, <2>2
<1>4. ASSUME NEW f \in Procs, NEW s \in Procs,
             Behind(End(off), f), Behind(End(off), s), Corrected(f, s)
      PROVE  counts[f] >= 1 \/ f \in Pairs(Batch(off))
    <2>0. Before(at[f], at[s]) /\ f \notin gone /\ s \notin gone
        BY <1>4 DEF Corrected, NextInSession, LaterInSession, Behind
    <2>1. CASE ~Before(off, at[s])
        <3>1. ~Before(off, at[f])
            BY <1>0, <2>0, <2>1, CursorOrder
        <3> QED BY <1>4, <2>1, <3>1 DEF Whole, Covered, Behind
    <2>2. CASE Before(off, at[f])
        <3>1. Before(off, at[s])
            BY <1>0, <2>0, <2>2, CursorOrder
        <3>2. f \in Batch(off) /\ s \in Batch(off)
            BY <2>0, <2>2, <3>1 DEF Batch
        <3>3. NextInSession(Batch(off), f, s)
            BY <1>4, <3>2 DEF Corrected, NextInSession, LaterInSession, Batch
        <3> QED BY <1>4, <3>2, <3>3 DEF Pairs, Corrected
    <2>3. CASE ~Before(off, at[f]) /\ Before(off, at[s])
        <3>1. Answered(off, f)
            BY <1>4, <2>3 DEF Whole, Settled, Behind, Corrected, Corrects
        <3>2. ASSUME NEW r \in LaterInSession(Procs \ gone, f), ~Before(off, at[r])
              PROVE  FALSE
            <4>1. r \in Procs /\ ~Before(at[r], at[s])
                BY <1>4, <3>2 DEF Corrected, NextInSession, LaterInSession
            <4>2. ~Before(off, at[s])
                BY <1>0, <3>2, <4>1, CursorOrder
            <4> QED BY <2>3, <4>2
        <3>3. wrote[s] - inv[f].ts > Window
            BY <1>4, <2>0, <2>3, <3>1, <3>2 DEF Answered, Behind
        <3> QED BY <1>0, <1>4, <3>3, LimitsAssumption DEF Corrected, TypeOK
    <2> QED BY <2>1, <2>2, <2>3
<1> QED BY <1>2, <1>3, <1>4 DEF Whole, Settled, Covered

\* Everything stands behind the start of the journal.
LEMMA StartWhole ==
    ASSUME TypeOK
    PROVE  Whole(Start, {})
<1>1. \A q \in Procs : at[q] # Start => Before(Start, at[q])
    BY DEF TypeOK, Start, Before, Cursors
<1>2. DayOf(now) >= 1
    BY DayInRange DEF Days, TypeOK
<1>3. Valid(Start)
    <2>1. DayOf(now) \in Nat
        BY DayInRange, DaysAreNat DEF TypeOK
    <2> QED BY <1>2, <2>1 DEF Valid, Start
<1> QED BY <1>1, <1>3 DEF Whole, Settled, Covered, Behind

\* A claim a step makes is one that stood, or one of four new ones.
LEMMA ClaimsMove ==
    ASSUME TypeOK, [Next]_vars, NEW c \in Cursors, NEW found \in SUBSET Procs,
           Claimed(c, found)'
    PROVE  \/ Claimed(c, found)
           \/ c = Start /\ found = {}
           \/ \E p \in Procs : /\ ReadBatch(p) /\ ~Pending(Batch(off))
                               /\ c = End(off) /\ found = Pairs(Batch(off))
           \/ \E p \in Procs : /\ Commit(p) /\ c = work[p].end /\ found = {}
                               /\ \/ ~Before(stored, c)
                                  \/ counts' = [f \in Procs |->
                                        IF f \in work[p].found THEN counts[f] + 1 ELSE counts[f]]
<1>1. CASE UNCHANGED <<off, stored, pc, work>>
    BY <1>1 DEF Claimed
<1>2. CASE LoseOffset
    BY <1>2 DEF LoseOffset, Claimed
<1>3. ASSUME NEW p \in Procs,
             Invoke(p) \/ Tear(p) \/ Append(p) \/ GiveUp(p) \/ Insist(p) \/ Acquire(p)
      PROVE  Claimed(c, found)
    <2>1. UNCHANGED <<off, stored, work>>
        BY <1>3 DEF Invoke, Tear, Append, GiveUp, Insist, Acquire, deriveVars
    <2>2. \A q \in Procs : pc'[q] \in {"commit", "store"} => pc'[q] = pc[q]
        BY <1>3 DEF Invoke, Tear, Append, GiveUp, Insist, Acquire, Goto, TypeOK
    <2> QED BY <2>1, <2>2 DEF Claimed
<1>4. ASSUME NEW p \in Procs, PassFails(p) \/ Kill(p) \/ Unlock(p)
      PROVE  Claimed(c, found)
    <2>1. UNCHANGED <<off, stored>>
        BY <1>4 DEF PassFails, Kill, Unlock
    <2>2. \A q \in Procs : pc'[q] \in {"commit", "store"} => pc'[q] = pc[q] /\ work'[q] = work[q]
        BY <1>4 DEF PassFails, Kill, Unlock, Finish, Goto, TypeOK
    <2> QED BY <2>1, <2>2 DEF Claimed
<1>5. ASSUME NEW p \in Procs, Drain(p)
      PROVE  Claimed(c, found)
    <2>1. stored' = stored /\ (off' = off \/ (pc[p] = "store" /\ off' = work[p].end))
        BY <1>5 DEF Drain
    <2>2. \A q \in Procs : pc'[q] \in {"commit", "store"} => pc'[q] = pc[q] /\ work'[q] = work[q]
        BY <1>5 DEF Drain, Goto, TypeOK
    <2> QED BY <2>1, <2>2 DEF Claimed
<1>6. ASSUME NEW p \in Procs, ReadBatch(p)
      PROVE  \/ Claimed(c, found)
             \/ ~Pending(Batch(off)) /\ c = End(off) /\ found = Pairs(Batch(off))
    <2>1. /\ UNCHANGED <<off, stored>> /\ \A q \in Procs \ {p} : pc'[q] = pc[q] /\ work'[q] = work[q]
          /\ work'[p].end = End(off)
        BY <1>6 DEF ReadBatch, Goto, TypeOK
    <2>2. pc'[p] = "commit" => ~Pending(Batch(off)) /\ work'[p].found = Pairs(Batch(off))
        BY <1>6 DEF ReadBatch, Goto, TypeOK
    <2>3. pc'[p] = "store" => ~Pending(Batch(off)) /\ Pairs(Batch(off)) = {}
        BY <1>6 DEF ReadBatch, Goto, TypeOK
    <2> QED BY <2>1, <2>2, <2>3 DEF Claimed
<1>7. ASSUME NEW p \in Procs, Commit(p)
      PROVE  \/ Claimed(c, found)
             \/ /\ c = work[p].end /\ found = {}
                /\ \/ ~Before(stored, c)
                   \/ counts' = [f \in Procs |->
                         IF f \in work[p].found THEN counts[f] + 1 ELSE counts[f]]
    <2>0. \A q \in Procs \ {p} : pc'[q] = pc[q] /\ work'[q] = work[q]
        BY <1>7 DEF Commit, Finish, Goto, TypeOK
    <2>1. CASE off' = off /\ stored' = work[p].end
               /\ pc' = [pc EXCEPT ![p] = "store"] /\ work' = work
               /\ counts' = [f \in Procs |->
                                IF f \in work[p].found THEN counts[f] + 1 ELSE counts[f]]
        BY <2>0, <2>1 DEF Claimed, TypeOK
    <2>2. CASE off' \in {off, stored} /\ stored' = stored /\ pc'[p] \in {"read", "over"}
        BY <2>0, <2>2 DEF Claimed
    <2>3. CASE off' = off /\ stored' = stored /\ pc' = [pc EXCEPT ![p] = "store"]
               /\ work' = work /\ ~Before(stored, work[p].end)
        BY <2>0, <2>3 DEF Claimed, TypeOK
    <2>4. \/ /\ off' = off /\ stored' = work[p].end
             /\ pc' = [pc EXCEPT ![p] = "store"] /\ work' = work
             /\ counts' = [f \in Procs |->
                              IF f \in work[p].found THEN counts[f] + 1 ELSE counts[f]]
          \/ off' \in {off, stored} /\ stored' = stored /\ pc'[p] \in {"read", "over"}
          \/ /\ off' = off /\ stored' = stored /\ pc' = [pc EXCEPT ![p] = "store"]
             /\ work' = work /\ ~Before(stored, work[p].end)
        BY <1>7 DEF Commit, Finish, Goto, TypeOK
    <2> QED BY <2>1, <2>2, <2>3, <2>4
<1>8. CASE Tick \/ Verdict \/ \E b \in BOOLEAN : PurgeCandidates(b)
    BY <1>1, <1>8 DEF Tick, Verdict, PurgeCandidates, deriveVars
<1> QED BY <1>1, <1>2, <1>3, <1>4, <1>5, <1>6, <1>7, <1>8
        DEF Next, Step, vars, deriveVars

LEMMA CoverKept ==
    ASSUME JournalInv, CoverInv, [Next]_vars
    PROVE  CoverInv'
<1>0. TypeOK /\ TimesInv /\ TimesInv' /\ off \in Cursors /\ stored \in Cursors
      /\ {} \in SUBSET Procs
    BY TimesKept DEF JournalInv, CoverInv, TypeOK
<1>1. Whole(off, {}) /\ Whole(stored, {})
    BY <1>0 DEF CoverInv, Claimed
<1> SUFFICES ASSUME NEW c \in Cursors, NEW found \in SUBSET Procs, Claimed(c, found)'
             PROVE  Whole(c, found)'
    BY <1>0 DEF CoverInv
<1>2. CASE Claimed(c, found)
    BY <1>0, <1>2, WholeKept DEF CoverInv
<1>3. CASE c = Start /\ found = {}
    BY <1>0, <1>3, StartWhole, WholeKept
<1>4. ASSUME NEW p \in Procs, ReadBatch(p), ~Pending(Batch(off)),
             c = End(off), found = Pairs(Batch(off))
      PROVE  Whole(c, found)'
    <2>1. Whole(c, found)
        BY <1>0, <1>1, <1>4, BatchWhole
    <2> QED BY <1>0, <2>1, WholeKept
<1>5. ASSUME NEW p \in Procs, Commit(p), c = work[p].end, found = {}, ~Before(stored, c)
      PROVE  Whole(c, found)'
    <2>1. Whole(c, work[p].found)
        BY <1>0, <1>5 DEF CoverInv, Claimed, Commit, TypeOK
    <2>2. \A q \in Procs : Behind(c, q) => Behind(stored, q)
        BY <1>0, <1>5, CursorOrder DEF Behind, TypeOK
    <2>3. Covered(c, {})
        BY <1>1, <2>2 DEF Whole, Covered
    <2>4. Whole(c, found)
        BY <1>5, <2>1, <2>3 DEF Whole
    <2> QED BY <1>0, <2>4, WholeKept
<1>6. ASSUME NEW p \in Procs, Commit(p), c = work[p].end, found = {},
             counts' = [f \in Procs |->
                           IF f \in work[p].found THEN counts[f] + 1 ELSE counts[f]]
      PROVE  Whole(c, found)'
    <2>1. PICK pairs \in SUBSET Procs : pairs = work[p].found
        BY <1>0 DEF TypeOK
    <2>2. Whole(c, pairs)
        BY <1>0, <1>6, <2>1 DEF CoverInv, Claimed, Commit, TypeOK
    <2>3. Whole(c, pairs)'
        BY <1>0, <2>2, WholeKept
    <2>4. \A f \in pairs : counts'[f] >= 1
        BY <1>0, <1>6, <2>1 DEF TypeOK
    <2> QED BY <1>6, <2>3, <2>4 DEF Whole, Covered
<1> QED BY <1>0, <1>2, <1>3, <1>4, <1>5, <1>6, ClaimsMove

LEMMA CoverInit == Init => CoverInv
<1> SUFFICES ASSUME Init PROVE CoverInv
    OBVIOUS
<1>1. TypeOK
    BY InitInv DEF JournalInv
<1>2. TimesInv
    <2>1. Segments = {}
        BY DEF Init, Segments, Listed
    <2>2. \A q \in Procs : inv[q].ts = 0 /\ now = 0
        BY DEF Init
    <2> QED BY <2>1, <2>2 DEF TimesInv
<1>3. \A c, found : Claimed(c, found) => c = Start /\ found = {}
    BY DEF Init, Claimed
<1> QED BY <1>1, <1>2, <1>3, StartWhole DEF CoverInv

-----------------------------------------------------------------------------
(* A run's own line.                                                        *)

\* What OwnLineRead promises of p, from the time its pass has read.
Waits(p) ==
    p \in Batch(off) /\ ~Stray(p) =>
        \E f \in Procs :
            /\ ~inv[f].ok /\ Before(off, at[f]) /\ ~Before(work[p].end, at[f])
            /\ \A s \in LaterInSession(Batch(off), f) :
                  Stray(s) \/ Before(work[p].end, at[s])

OwnInv == \A p \in Procs :
    /\ pc[p] \in {"commit", "store"} =>
          (p \notin gone /\ at[p] # Start => ~Before(work[p].end, at[p]))
    /\ pc[p] \in {"hold", "unlock"} =>
          Valid(work[p].end) /\ (losses = 0 => Waits(p))

\* While p holds the lock nobody else moves the file cursor, unless the file
\* is lost.
LEMMA PassMoves ==
    ASSUME TypeOK, [Next]_vars, NEW p \in Procs
    PROVE  /\ pc'[p] \in {"commit", "store"} =>
                 \/ ReadBatch(p)
                 \/ pc[p] \in {"commit", "store"} /\ work'[p].end = work[p].end
           /\ pc'[p] \in {"hold", "unlock"} =>
                 \/ ReadBatch(p) \/ Drain(p)
                 \/ /\ pc[p] \in {"hold", "unlock"} /\ work'[p] = work[p]
                    /\ off' = off \/ losses' # 0
           /\ losses' = 0 => losses = 0
<1> USE DEF TypeOK, Goto, Finish
<1>1. losses' = losses \/ LoseOffset
    BY DEF Next, Step, vars, deriveVars, Tick, Verdict, PurgeCandidates, PassFails, Kill,
           Acquire, GiveUp, Insist, ReadBatch, Commit, Drain, Unlock, Invoke, Tear, Append
<1>2. losses' = 0 => losses = 0
    BY <1>1, LimitsAssumption DEF LoseOffset
<1>3. CASE LoseOffset
    <2>1. losses' # 0
        BY <1>3, LimitsAssumption DEF LoseOffset
    <2> QED BY <1>3, <2>1 DEF LoseOffset
<1>4. CASE Tick \/ Verdict \/ (\E b \in BOOLEAN : PurgeCandidates(b)) \/ UNCHANGED vars
    BY <1>2, <1>4 DEF Tick, Verdict, PurgeCandidates, deriveVars, vars
<1>5. ASSUME NEW q \in Procs,
             Invoke(q) \/ Tear(q) \/ Append(q) \/ GiveUp(q) \/ Insist(q) \/ Acquire(q)
      PROVE  /\ pc'[p] \in {"commit", "store", "hold", "unlock"} => pc'[p] = pc[p]
             /\ work' = work /\ off' = off
    BY <1>5 DEF Invoke, Tear, Append, GiveUp, Insist, Acquire, deriveVars
<1>6. ASSUME NEW q \in Procs, PassFails(q) \/ Kill(q) \/ Unlock(q)
      PROVE  /\ pc'[p] \in {"commit", "store", "hold", "unlock"} =>
                   pc'[p] = pc[p] /\ work'[p] = work[p]
             /\ off' = off
    BY <1>6 DEF PassFails, Kill, Unlock
<1>7. ASSUME NEW q \in Procs, ReadBatch(q)
      PROVE  /\ p # q => pc'[p] = pc[p] /\ work'[p] = work[p]
             /\ off' = off
    BY <1>7 DEF ReadBatch
<1>8. ASSUME NEW q \in Procs, Commit(q)
      PROVE  /\ p # q => pc'[p] = pc[p] /\ work'[p] = work[p]
             /\ p = q => /\ pc'[p] \notin {"hold", "unlock"}
                         /\ pc'[p] = "store" => work' = work /\ pc[p] = "commit"
                         /\ pc'[p] # "commit"
             /\ pc[p] \in {"hold", "unlock"} => p # q /\ q = lock /\ p = lock
    BY <1>8 DEF Commit, Holding
<1>9. ASSUME NEW q \in Procs, Drain(q)
      PROVE  /\ p # q => pc'[p] = pc[p] /\ work'[p] = work[p]
             /\ p = q => pc'[p] \in {"read", "unlock"}
             /\ pc[p] \in {"hold", "unlock"} => p = q
    BY <1>9 DEF Drain, Holding
<1> QED BY <1>2, <1>3, <1>4, <1>5, <1>6, <1>7, <1>8, <1>9 DEF Next, Step

\* What p waits for stays while its line and the file cursor stay.
LEMMA WaitsKept ==
    ASSUME JournalInv, JournalInv', TimesInv, [Next]_vars, NEW p \in Procs,
           pc[p] \in {"hold", "unlock"}, work'[p] = work[p], off' = off,
           Valid(work[p].end), Waits(p)
    PROVE  Waits(p)'
<1>0. /\ TypeOK /\ TypeOK' /\ Unwritten /\ gone \subseteq gone'
      /\ \A q \in Procs : at[q] \in Cursors /\ at'[q] \in Cursors
      /\ off \in Cursors /\ work[p].end \in Cursors
    BY FilesChange DEF JournalInv, TypeOK, Invoke, Tear, Append, journalVars
<1> SUFFICES ASSUME p \in Batch(off)', ~Stray(p)'
             PROVE  \E f \in Procs :
                       /\ ~inv'[f].ok /\ Before(off, at'[f]) /\ ~Before(work[p].end, at'[f])
                       /\ \A s \in LaterInSession(Batch(off), f)' :
                             Stray(s)' \/ Before(work[p].end, at'[s])
    BY DEF Waits
<1>1. p \notin gone' /\ Before(off, at'[p]) /\ at'[p] # Start
    BY <1>0, CursorOrder DEF Batch
<1>2. at[p] # Start
    BY <1>1, AppendedPast
<1>3. p \in Batch(off) /\ ~Stray(p)
    BY <1>0, <1>1, <1>2, LineStands DEF Batch, Stray
<1>4. PICK f \in Procs :
         /\ ~inv[f].ok /\ Before(off, at[f]) /\ ~Before(work[p].end, at[f])
         /\ \A s \in LaterInSession(Batch(off), f) : Stray(s) \/ Before(work[p].end, at[s])
    BY <1>3 DEF Waits
<1>5. at[f] # Start
    BY <1>0, <1>4, CursorOrder
<1>6. at'[f] = at[f] /\ inv'[f] = inv[f]
    BY <1>0, <1>5, LineStands
<1>7. ASSUME NEW s \in LaterInSession(Batch(off), f)'
      PROVE  Stray(s)' \/ Before(work[p].end, at'[s])
    <2>1. /\ s \in Procs /\ s \notin gone' /\ Before(off, at'[s])
          /\ inv'[s].sess = inv'[f].sess /\ Before(at'[f], at'[s])
        BY <1>7 DEF LaterInSession, Batch
    <2>2. at'[s] # Start
        BY <1>0, <2>1, CursorOrder
    <2>3. CASE at[s] = Start
        BY <1>0, <2>1, <2>2, <2>3, AppendedPast
    <2>4. CASE at[s] # Start
        <3>1. at'[s] = at[s] /\ inv'[s] = inv[s] /\ wrote'[s] = wrote[s]
            BY <1>0, <2>1, <2>4, LineStands
        <3>2. s \in LaterInSession(Batch(off), f)
            BY <1>0, <1>6, <2>1, <3>1 DEF LaterInSession, Batch
        <3> QED BY <1>4, <3>1, <3>2 DEF Stray
    <2> QED BY <2>3, <2>4
<1> QED BY <1>4, <1>6, <1>7

\* A pass that reads has its own line in its window, or a failure to wait for.
LEMMA ReadOwn ==
    ASSUME JournalInv, CoverInv, NEW p \in Procs, ReadBatch(p)
    PROVE  /\ pc'[p] \in {"commit", "store"} =>
                 (p \notin gone' /\ at'[p] # Start => ~Before(work'[p].end, at'[p]))
           /\ pc'[p] = "hold" => Valid(work[p].end)' /\ Waits(p)'
           /\ pc'[p] # "unlock"
<1>0. /\ TypeOK /\ HasLast(Segments) /\ LinesStand /\ off \in Cursors /\ TimesInv
      /\ {} \in SUBSET Procs
    BY DEF JournalInv, CoverInv, TypeOK
<1>1. /\ UNCHANGED <<now, lines, at, gone, inv, wrote, off>>
      /\ work'[p].end = End(off) /\ pc'[p] # "unlock"
      /\ pc'[p] = "hold" => Pending(Batch(off)) \/ End(off) = off
    BY <1>0 DEF ReadBatch, journalVars, Goto, TypeOK
<1>2. \A q \in Batch(off) : at[q] # Start /\ ~Before(End(off), at[q])
    BY <1>0, EndCovers
<1>3. Valid(End(off))
    BY <1>0, EndValid DEF CoverInv, Claimed, Whole
<1>4. p \notin gone /\ at[p] # Start => ~Before(End(off), at[p])
    BY <1>0, EndAfterAll
<1>5. ASSUME Pending(Batch(off)) \/ End(off) = off, p \in Batch(off)
      PROVE  \E f \in Procs :
                /\ ~inv[f].ok /\ Before(off, at[f]) /\ ~Before(End(off), at[f])
                /\ LaterInSession(Batch(off), f) = {}
    <2>1. Pending(Batch(off))
        BY <1>2, <1>5 DEF Batch
    <2>2. PICK f \in Batch(off) : ~inv[f].ok /\ LaterInSession(Batch(off), f) = {}
        BY <2>1 DEF Pending
    <2> QED BY <1>2, <2>2 DEF Batch
<1>6. Batch(off)' = Batch(off) /\ \A f : LaterInSession(Batch(off), f)' = LaterInSession(Batch(off), f)
    BY <1>1 DEF Batch, LaterInSession
<1>7. pc'[p] = "hold" => Waits(p)'
    BY <1>1, <1>5, <1>6 DEF Waits
<1>8. Valid(work[p].end)'
    BY <1>1, <1>3 DEF Valid
<1> QED BY <1>1, <1>4, <1>7, <1>8

LEMMA OwnKept ==
    ASSUME JournalInv, JournalInv', CoverInv, OwnInv, [Next]_vars
    PROVE  OwnInv'
<1>0. TypeOK /\ Unwritten /\ TimesInv /\ gone \subseteq gone'
    BY FilesChange DEF JournalInv, CoverInv, Invoke, Tear, Append, journalVars
<1> SUFFICES ASSUME NEW p \in Procs
             PROVE  /\ pc'[p] \in {"commit", "store"} =>
                          (p \notin gone' /\ at'[p] # Start => ~Before(work'[p].end, at'[p]))
                    /\ pc'[p] \in {"hold", "unlock"} =>
                          Valid(work[p].end)' /\ (losses' = 0 => Waits(p)')
    BY DEF OwnInv
<1>1. CASE ReadBatch(p)
    BY <1>1, ReadOwn
<1>2. CASE ~ReadBatch(p) /\ pc'[p] \in {"commit", "store"}
    <2>1. pc[p] \in {"commit", "store"} /\ work'[p].end = work[p].end
        BY <1>0, <1>2, PassMoves
    <2>2. at'[p] # Start => at[p] # Start /\ at'[p] = at[p]
        BY <1>0, <2>1, AppendedPast, LineStands
    <2> QED BY <1>0, <1>2, <2>1, <2>2 DEF OwnInv
<1>3. CASE Drain(p) /\ pc'[p] = "unlock"
    <2>1. UNCHANGED <<now, lines, at, gone, inv, wrote>> /\ work' = work /\ losses' = losses
        BY <1>0, <1>3 DEF Drain, Goto, journalVars, TypeOK
    <2>2. CASE pc[p] = "hold"
        <3>1. off' = off
            BY <1>3, <2>2 DEF Drain
        <3>2. Valid(work[p].end) /\ (losses = 0 => Waits(p))
            BY <2>2 DEF OwnInv
        <3>3. Valid(work[p].end)'
            BY <2>1, <3>2 DEF Valid
        <3>4. losses' = 0 => Waits(p)'
            BY <1>0, <2>1, <2>2, <3>1, <3>2, WaitsKept
        <3> QED BY <1>3, <3>3, <3>4
    <2>3. CASE pc[p] = "store"
        <3>1. off' = work[p].end
            BY <1>3, <2>3 DEF Drain
        <3>2. p \notin gone /\ at[p] # Start => ~Before(work[p].end, at[p])
            BY <2>3 DEF OwnInv
        <3>3. work[p].end \in Cursors /\ {} \in SUBSET Procs /\ at[p] \in Cursors
            BY <1>0 DEF TypeOK
        <3>4. Valid(work[p].end)
            BY <2>3, <3>3 DEF CoverInv, Claimed, Whole
        <3>5. Valid(work[p].end)'
            BY <2>1, <3>4 DEF Valid
        <3>6. p \notin Batch(off)'
            BY <2>1, <3>1, <3>2, <3>3, CursorOrder DEF Batch
        <3> QED BY <1>3, <3>5, <3>6 DEF Waits
    <2> QED BY <1>3, <2>2, <2>3 DEF Drain
<1>4. CASE ~ReadBatch(p) /\ ~Drain(p) /\ pc'[p] \in {"hold", "unlock"}
    <2>1. /\ pc[p] \in {"hold", "unlock"} /\ work'[p] = work[p]
          /\ off' = off \/ losses' # 0
          /\ losses' = 0 => losses = 0
        BY <1>0, <1>4, PassMoves
    <2>2. Valid(work[p].end) /\ (losses = 0 => Waits(p))
        BY <2>1 DEF OwnInv
    <2>3. PICK c \in Cursors : c = work[p].end
        BY <1>0 DEF TypeOK
    <2>4. Valid(c)'
        BY <1>0, <2>2, <2>3, ValidKept
    <2>5. Valid(work[p].end)'
        BY <2>1, <2>3, <2>4 DEF Valid
    <2>6. losses' = 0 => Waits(p)'
        BY <1>0, <2>1, <2>2, WaitsKept
    <2> QED BY <1>4, <2>5, <2>6
<1>5. Drain(p) => pc'[p] \in {"read", "unlock"}
    BY <1>0 DEF Drain, Goto, TypeOK
<1> QED BY <1>1, <1>2, <1>3, <1>4, <1>5

-----------------------------------------------------------------------------
(* The theorems.                                                            *)

LEMMA JournalStep == JournalInv /\ [Next]_vars => JournalInv'
BY TypeKept, LastKept, LinesKept, UnwrittenKept, CountsKept, FoundKept, SightingsKept
   DEF JournalInv

\* The inductive invariant: what was counted lies before the stored cursor, and
\* what a pass found lies in its window (CommitFlagCorrections).
THEOREM JournalInvariant == Spec => []JournalInv
<1> QED BY InitInv, JournalStep, PTL DEF Spec

\* The offset lock lets one pass through at a time, and types hold: for any
\* number of invocations (TryWithFileLock, DeriveFlagCorrections).
THEOREM JournalTypes == Spec => []TypeOK
<1>1. JournalInv => TypeOK
    BY DEF JournalInv
<1> QED BY JournalInvariant, <1>1, PTL

\* No failure is counted twice (CommitFlagCorrections).
THEOREM NeverCountedTwice == Spec => []CountedAtMostOnce
<1>1. JournalInv => CountedAtMostOnce
    BY DEF JournalInv
<1> QED BY JournalInvariant, <1>1, PTL

\* A candidate's sightings never exceed the failures that were counted.
THEOREM SightingsNeverInflated == Spec => []SightingsAreReal
<1>1. JournalInv => SightingsAreReal
    BY DEF JournalInv
<1> QED BY JournalInvariant, <1>1, PTL

\* A rejected correction is not revived, a confirmed one not reopened, by any
\* step but a purge (execDerivedCandidate, RejectCandidate, PurgeCandidates).
THEOREM VerdictsAreKept == Spec => VerdictsHold
<1>1. ASSUME TypeOK, [Next]_vars
      PROVE  VerdictStep
    <2>1. CASE Verdict \/ \E b \in BOOLEAN : PurgeCandidates(b)
        BY <2>1 DEF Verdict, PurgeCandidates, VerdictStep, TypeOK
    <2>2. ASSUME NEW p \in Procs, Commit(p)
          PROVE  VerdictStep
        <3>1. cand' = cand \/ cand' = Sighted(cand, Cardinality(work[p].found))
            BY <2>2 DEF Commit
        <3>2. ASSUME NEW n, cand' = Sighted(cand, n)
              PROVE  /\ cand.status = "rejected" => cand' = cand
                     /\ cand.status = "confirmed" => cand'.status = "confirmed"
            BY <3>2 DEF Sighted, TypeOK
        <3> QED BY <3>1, <3>2 DEF VerdictStep
    <2>3. CASE cand' = cand
        BY <2>3 DEF VerdictStep
    <2>4. \/ \E p \in Procs : Commit(p)
          \/ Verdict \/ \E b \in BOOLEAN : PurgeCandidates(b)
          \/ cand' = cand
        BY <1>1, CandChange
    <2> QED BY <2>1, <2>2, <2>3, <2>4
<1> QED BY <1>1, JournalTypes, PTL DEF Spec, VerdictsHold

\* CorrectionsAreCounted: no interleaving of appends, passes, cleanups, kills
\* and losses of the offset file splits a failure from the success that
\* corrects it (ReadJournalFrom, pairFlagCorrections, CommitFlagCorrections).
THEOREM NoCorrectionLost == Spec => []CorrectionsAreCounted
<1>1. Init => JournalInv /\ CoverInv
    BY InitInv, CoverInit
<1>2. JournalInv /\ CoverInv /\ [Next]_vars => (JournalInv /\ CoverInv)'
    BY JournalStep, CoverKept
<1>3. JournalInv /\ CoverInv => CorrectionsAreCounted
    <2> SUFFICES ASSUME JournalInv, CoverInv, NEW f \in Procs, NEW s \in Procs,
                        Corrects(f, s), ReadPast(f), ReadPast(s),
                        NextInSession(Procs \ gone, f, s), wrote[s] - inv[f].ts <= Window
                 PROVE  counts[f] >= 1
        BY DEF CorrectionsAreCounted
    <2>1. Whole(off, {})
        <3>1. off \in Cursors
            BY DEF JournalInv, TypeOK
        <3> QED BY <3>1 DEF CoverInv, Claimed
    <2>2. Behind(off, f) /\ Behind(off, s) /\ Corrected(f, s)
        BY DEF ReadPast, Behind, Corrected
    <2> QED BY <2>1, <2>2 DEF Whole, Covered
<1> QED BY <1>1, <1>2, <1>3, PTL DEF Spec

\* OwnLineRead: a run that goes home without error has its own line read, or
\* leaves it behind a failure that still waits for its retry, whatever other
\* runs append, read and remove meanwhile (DeriveFlagCorrections).
THEOREM OwnLineIsRead == Spec => OwnLineRead
<1>1. Init => JournalInv /\ CoverInv /\ OwnInv
    BY InitInv, CoverInit DEF Init, OwnInv
<1>2. JournalInv /\ CoverInv /\ OwnInv /\ [Next]_vars => (JournalInv /\ CoverInv /\ OwnInv)'
    BY JournalStep, CoverKept, OwnKept
<1>3. JournalInv /\ CoverInv /\ OwnInv /\ [Next]_vars => [OwnLineReadStep]_vars
    <2> SUFFICES ASSUME JournalInv, OwnInv, Next, NEW p \in Procs,
                        pc[p] # "done", pc'[p] = "done", losses = 0,
                        p \in Batch(off), ~Stray(p)
                 PROVE  Unlock(p)
        BY DEF OwnLineReadStep, OwnInv, Waits, Unlock
    <2>1. TypeOK /\ HasLast(Segments) /\ LinesStand /\ off \in Cursors
        BY DEF JournalInv, TypeOK
    <2>2. ~GiveUp(p)
        BY <2>1, EndCovers DEF GiveUp, Batch
    <2>3. ASSUME NEW q \in Procs PROVE /\ ~Invoke(q) /\ ~Tear(q) /\ ~Append(q) /\ ~Insist(q)
                                       /\ ~Acquire(q) /\ (GiveUp(q) => q = p)
        BY <2>1 DEF Invoke, Tear, Append, GiveUp, Insist, Acquire, Goto, TypeOK
    <2>4. ASSUME NEW q \in Procs PROVE /\ ~PassFails(q) /\ ~Kill(q) /\ ~ReadBatch(q)
                                       /\ ~Drain(q) /\ (Unlock(q) => q = p)
        BY <2>1 DEF PassFails, Kill, ReadBatch, Drain, Unlock, Finish, Goto, TypeOK
    <2>5. ASSUME NEW q \in Procs PROVE ~Commit(q)
        BY <2>1 DEF Commit, Finish, Goto, TypeOK
    <2> QED BY <2>2, <2>3, <2>4, <2>5
            DEF Next, Step, Tick, LoseOffset, Verdict, PurgeCandidates, deriveVars
<1> QED BY <1>1, <1>2, <1>3, PTL DEF Spec, OwnLineRead
=============================================================================
