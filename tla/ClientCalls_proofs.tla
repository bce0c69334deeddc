------------------------- MODULE ClientCalls_proofs -------------------------
(***************************************************************************)
(* For any set of calls, any retry policy and any interleaving:            *)
(*   CallsTyped         the state keeps its shape;                         *)
(*   EffectsStayBounded retries, late deliveries and refills keep what a   *)
(*                      mutation can do to the server within its allowance;*)
(*   ReportsStayTrue    what is reported of a mutation is what happened;   *)
(*   StaleExplained     a read is stale only if its answer, or the entry   *)
(*                      it hit, crossed a mutation's drop of the cache.    *)
(***************************************************************************)
EXTENDS ClientCalls, FiniteSetTheorems, TLAPS

Shape ==
    /\ applied \in [Calls -> Nat] /\ late \in [Calls -> Nat]
    /\ answer \in [Calls -> Answers]
    /\ pc \in [Calls -> Points]
    /\ replay \in [Calls -> BOOLEAN]
    /\ attempt \in [Calls -> 0..MaxRetries]

Reached(w) == applied[w] + late[w]
Allowance(w) == IF replay[w] THEN MaxRetries + 1 ELSE 1

\* Before each request at most one effect per attempt already spent; the
\* attempt is spent before the next request, except after a 429, which had
\* no effect.
Spent(w) ==
    /\ Reached(w) <= Allowance(w)
    /\ ~replay[w] => attempt[w] = 0
    /\ pc[w] = "idle" => Reached(w) = 0
    /\ pc[w] \in {"pacing", "refilling"} => Reached(w) <= attempt[w]
    /\ pc[w] = "sent" => Reached(w) <= attempt[w] + 1
    /\ pc[w] = "sent" /\ answer[w] \in {"none", "limited", "denied"} => Reached(w) <= attempt[w]
    /\ pc[w] = "napping" => attempt[w] < MaxRetries /\ Reached(w) <= attempt[w] + 1
    /\ pc[w] \in {"napping", "refilling"} => replay[w]
    /\ pc[w] # "sent" => answer[w] = "none"

CallsInv == Shape /\ \A w \in Writes : Spent(w)

-----------------------------------------------------------------------------
(* A step of one call leaves what the others have spent alone.             *)
Same(d) ==
    /\ pc'[d] = pc[d] /\ answer'[d] = answer[d] /\ attempt'[d] = attempt[d]
    /\ applied'[d] = applied[d] /\ late'[d] = late[d] /\ replay'[d] = replay[d]

LEMMA SameKeeps ==
    ASSUME NEW w \in Writes, Spent(w), Same(w)
    PROVE  Spent(w)'
BY DEF Spent, Same, Reached, Allowance

LEMMA ShapeKept ==
    ASSUME Shape, NEW c \in Calls,
           Step(c) \/ Network(c) \/ Start(c) \/ Hit(c) \/ Again(c) \/ Kill(c)
    PROVE  Shape' /\ \A d \in Calls \ {c} : Same(d)
<1> USE CallAssumption DEF Shape, Same, Points, Answers
<1>1. CASE Send(c) \/ Start(c)
    BY <1>1 DEF Send, Start, Goto, server
<1>2. CASE PaceExpires(c) \/ SleepExpires(c) \/ Hit(c) \/ WriteEntry(c)
    BY <1>2 DEF PaceExpires, SleepExpires, Hit, WriteEntry, Done, server
<1>3. CASE Wake(c) \/ Again(c)
    BY <1>3 DEF Wake, Again, server
<1>4. CASE WriteSucceeds(c) \/ ReadSucceeds(c) \/ Denied(c)
    BY <1>4 DEF WriteSucceeds, ReadSucceeds, Denied, Taken, Done, Goto
<1>5. CASE Limited(c)
    BY <1>5 DEF Limited, Taken, Sleep, Done
<1>6. CASE Failing(c)
    BY <1>6 DEF Failing, Taken, RetryOrFail, Sleep, Done
<1>7. CASE Arrive(c)
    BY <1>7 DEF Arrive, Apply, loop
<1>8. CASE NetworkFails(c)
    BY <1>8 DEF NetworkFails, GiveUp, RetryOrFail, Sleep, Done
<1>9. CASE AnswerLost(c)
    BY <1>9 DEF AnswerLost, GiveUp, Done
<1>10. CASE Kill(c)
    BY <1>10 DEF Kill, GiveUp, Done, server
<1> QED BY <1>1, <1>2, <1>3, <1>4, <1>5, <1>6, <1>7, <1>8, <1>9, <1>10
        DEF Step, Network

\* What each step does to the call that takes it.
LEMMA OwnStep ==
    ASSUME Shape, Shape', NEW w \in Writes, Spent(w),
           Step(w) \/ Network(w) \/ Start(w) \/ Hit(w) \/ Again(w) \/ Kill(w)
    PROVE  Spent(w)'
<1> USE CallAssumption DEF Shape, Spent, Reached, Allowance, Points, Answers, Calls
<1>1. CASE Send(w) \/ Start(w)
    BY <1>1 DEF Send, Start, Goto, server
<1>2. CASE PaceExpires(w) \/ SleepExpires(w) \/ WriteEntry(w)
    BY <1>2 DEF PaceExpires, SleepExpires, Asleep, WriteEntry, Done, server
<1>3. CASE Wake(w)
    BY <1>3 DEF Wake, Asleep, server
<1>4. CASE WriteSucceeds(w) \/ Denied(w)
    BY <1>4 DEF WriteSucceeds, Denied, Answered, Taken, Done
<1>5. CASE Limited(w)
  <2> PICK wait \in Waits :
          IF MayRetry(w) /\ WithinBudget(w, wait) THEN Sleep(w, "napping", wait)
          ELSE IF replay[w] /\ MaxRetries > 0 /\ attempt[w] >= MaxRetries
          THEN Sleep(w, "refilling", Max({wait, 1}))
          ELSE Done(w, "limited")
    BY <1>5 DEF Limited
  <2>1. pc[w] = "sent" /\ answer[w] = "limited" /\ Taken(w) /\ replay' = replay
    BY <1>5 DEF Limited, Answered
  <2>2. CASE MayRetry(w) /\ WithinBudget(w, wait)
    BY <2>1, <2>2 DEF MayRetry, Taken, Sleep
  <2>3. CASE ~(MayRetry(w) /\ WithinBudget(w, wait)) /\ replay[w]
             /\ MaxRetries > 0 /\ attempt[w] >= MaxRetries
    BY <2>1, <2>3 DEF Taken, Sleep
  <2>4. CASE ~(MayRetry(w) /\ WithinBudget(w, wait))
             /\ ~(replay[w] /\ MaxRetries > 0 /\ attempt[w] >= MaxRetries)
    BY <2>1, <2>4 DEF Taken, Done
  <2> QED BY <2>2, <2>3, <2>4
<1>6. CASE Failing(w)
    BY <1>6 DEF Failing, Answered, Taken, RetryOrFail, MayRetry, Sleep, Done
<1>7. CASE Arrive(w)
    BY <1>7 DEF Arrive, Apply, loop
<1>8. CASE NetworkFails(w)
    BY <1>8 DEF NetworkFails, GiveUp, RetryOrFail, MayRetry, Sleep, Done
<1>9. CASE AnswerLost(w)
    BY <1>9 DEF AnswerLost, GiveUp, Done
<1>10. CASE Kill(w)
    BY <1>10 DEF Kill, GiveUp, Done, server
<1>11. CASE Hit(w) \/ Again(w) \/ ReadSucceeds(w)
    BY <1>11 DEF Hit, Again, ReadSucceeds
<1> QED BY <1>1, <1>2, <1>3, <1>4, <1>5, <1>6, <1>7, <1>8, <1>9, <1>10, <1>11
        DEF Step, Network

LEMMA InvInit == Init => CallsInv
BY CallAssumption
   DEF Init, CallsInv, Shape, Spent, Reached, Allowance, Points, Answers, Calls

LEMMA InvStep == CallsInv /\ [Next]_vars => CallsInv'
<1> SUFFICES ASSUME CallsInv, [Next]_vars PROVE CallsInv'
    OBVIOUS
<1>1. ASSUME NEW c \in Calls,
             Step(c) \/ Network(c) \/ Start(c) \/ Hit(c) \/ Again(c) \/ Kill(c)
      PROVE  CallsInv'
  <2>1. Shape' /\ \A d \in Calls \ {c} : Same(d)
    BY <1>1, ShapeKept DEF CallsInv
  <2>2. ASSUME NEW w \in Writes PROVE Spent(w)'
    <3>1. CASE w = c
      BY <1>1, <2>1, <3>1, OwnStep DEF CallsInv
    <3>2. CASE w # c
      <4>1. Same(w)
        BY <2>1, <3>2 DEF Calls
      <4> QED BY <4>1, SameKeeps DEF CallsInv
    <3> QED BY <3>1, <3>2
  <2> QED BY <2>1, <2>2 DEF CallsInv
<1>2. ASSUME NEW v \in Writes, ArriveLate(v) PROVE CallsInv'
  <2>1. Shape'
    BY <1>2 DEF CallsInv, Shape, ArriveLate, Apply, loop, Calls
  <2>2. ASSUME NEW w \in Writes PROVE Spent(w)'
    <3>1. Reached(w)' = Reached(w)
      BY <1>2 DEF CallsInv, Shape, ArriveLate, Apply, Reached, Calls
    <3> QED BY <1>2, <3>1 DEF CallsInv, Spent, ArriveLate, Allowance, loop
  <2> QED BY <2>1, <2>2 DEF CallsInv
<1>3. CASE Tick \/ EntryExpires \/ UNCHANGED vars
  <2>1. Shape' /\ \A w \in Writes : Same(w)
    BY <1>3 DEF CallsInv, Shape, Same, Tick, EntryExpires, vars, server, loop
  <2> QED BY <2>1, SameKeeps DEF CallsInv
<1> QED BY <1>1, <1>2, <1>3 DEF Next

\* A mutation that may not be replayed has at most one effect on the server,
\* and a replayed one at most one per attempt allowed, whatever is lost,
\* delayed or answered 429 (doInternal).
THEOREM EffectsStayBounded == Spec => []EffectsBounded
<1>1. CallsInv => EffectsBounded
    BY CallAssumption
       DEF CallsInv, Shape, Spent, Reached, Allowance, EffectsBounded, Effects, Calls
<1> QED BY <1>1, InvInit, InvStep, PTL DEF Spec

-----------------------------------------------------------------------------
(* Typing.                                                                  *)

\* What TypeOK says of the entry, and where a call's answer and result live.
Entries == [by : Reads \cup {"nobody"}, ver : Nat, whole : BOOLEAN, raced : BOOLEAN]

Phase(c) ==
    /\ pc[c] # "sent" => answer[c] = "none"
    /\ pc[c] # "done" => result[c] = "none"
    /\ pc[c] = "writing" => c \in Reads

TypeInv ==
    /\ TypeOK /\ cache \in Entries
    /\ \A c \in Calls : Phase(c)

-----------------------------------------------------------------------------
(* Reports.                                                                 *)

\* "ok" is answered by the request that was applied; a mutation that was
\* refused has no request left that may still arrive.
Truth(w) ==
    /\ answer[w] = "ok" \/ result[w] = "ok" => applied[w] > 0
    /\ ~replay[w] /\ result[w] \in {"denied", "limited"} => Reached(w) = 0

-----------------------------------------------------------------------------
(* Staleness.                                                               *)

\* What a read holds, and the entry, are no older than any mutation reported
\* as successful, or have crossed its drop of the cache.
Current(r) ==
    /\ answer[r] = "ok" \/ pc[r] = "writing" => r \in racers \/ saw[r] >= published
    /\ result[r] = "ok" => r \in racers \/ saw[r] >= asked[r]

EntryCurrent == cache = NoEntry \/ cache.raced \/ cache.ver >= published

CacheInv == EntryCurrent /\ \A r \in Reads : Current(r)

\* A maximum of two numbers.
LEMMA PairMax ==
    ASSUME NEW a \in Nat, NEW b \in Nat
    PROVE  Max({a, b}) \in {a, b} /\ Max({a, b}) >= a /\ Max({a, b}) >= b
<1>1. \E m \in {a, b} : \A n \in {a, b} : m >= n
  OBVIOUS
<1> QED BY <1>1 DEF Max

\* A backoff is a number of seconds: 2 ^ n counts the subsets of 1..n.
LEMMA BackoffType ==
    ASSUME TypeOK, NEW c \in Calls
    PROVE  Backoff(c) \in Nat
<1>1. attempt[c] \in Nat
  BY CallAssumption DEF TypeOK
<1>2. IsFiniteSet(1..attempt[c]) /\ Cardinality(1..attempt[c]) = attempt[c]
  BY <1>1, FS_Interval
<1>3. /\ IsFiniteSet(SUBSET (1..attempt[c]))
      /\ Cardinality(SUBSET (1..attempt[c])) = 2 ^ Cardinality(1..attempt[c])
  BY <1>2, FS_SUBSET
<1> QED BY <1>2, <1>3, FS_CardinalityType DEF Backoff

LEMMA HorizonType == Horizon \in Nat /\ Horizon >= Deadline
<1>1. RetryBudget + 1 \in Nat /\ Deadline \in Nat
  BY CallAssumption
<1> QED BY <1>1, PairMax DEF Horizon

\* What Done, Goto and Sleep leave of a call.
LEMMA DoneType ==
    ASSUME TypeInv, NEW c \in Calls, NEW r \in Results \ {"none"}, Done(c, r)
    PROVE  /\ pc' = [pc EXCEPT ![c] = "done"] /\ pc' \in [Calls -> Points]
           /\ result' \in [Calls -> Results]
           /\ \A d \in Calls \ {c} : result'[d] = result[d]
           /\ attempt' \in [Calls -> 0..MaxRetries] /\ nap' \in [Calls -> Nat]
           /\ age' \in [Calls -> 0..Horizon]
<1> USE HorizonType, CallAssumption DEF TypeInv, TypeOK, Done, Points, Results
<1> QED OBVIOUS

LEMMA SleepType ==
    ASSUME TypeInv, NEW c \in Calls, NEW p \in {"napping", "refilling"},
           NEW n \in Nat, Sleep(c, p, n)
    PROVE  /\ pc' = [pc EXCEPT ![c] = p] /\ pc' \in [Calls -> Points]
           /\ nap' \in [Calls -> Nat]
           /\ UNCHANGED <<result, attempt, age>>
  BY DEF TypeInv, TypeOK, Sleep, Points

LEMMA RetryType ==
    ASSUME TypeInv, NEW c \in Calls, RetryOrFail(c)
    PROVE  (\E n \in Nat : Sleep(c, "napping", n)) \/ Done(c, "failed")
<1>1. Backoff(c) \in Nat
  BY BackoffType DEF TypeInv
<1> QED BY <1>1 DEF RetryOrFail

LEMMA LimitedType ==
    ASSUME TypeInv, NEW c \in Calls, Limited(c)
    PROVE  \/ \E n \in Nat, p \in {"napping", "refilling"} : Sleep(c, p, n)
           \/ Done(c, "limited")
<1>1. PICK wait \in Waits :
        \/ Sleep(c, "napping", wait)
        \/ Sleep(c, "refilling", Max({wait, 1}))
        \/ Done(c, "limited")
  BY DEF Limited
<1>2. wait \in Nat /\ Max({wait, 1}) \in Nat
  <2>1. wait \in Nat /\ 1 \in Nat
    BY CallAssumption
  <2> QED BY <2>1, PairMax
<1> QED BY <1>1, <1>2

\* The versions a call and the cache hold are no newer than the server's,
\* which only moves on.
LEMMA VersionGrows ==
    ASSUME TypeInv, version' \in Nat, version <= version',
           UNCHANGED <<saw, asked, published, cache>>
    PROVE  /\ published' \in 0..version' /\ saw' \in [Calls -> 0..version']
           /\ asked' \in [Calls -> 0..published']
           /\ cache' \in Entries /\ cache'.ver \in 0..version'
  BY DEF TypeInv, TypeOK

LEMMA TypeStep ==
    ASSUME TypeInv, NEW c \in Calls,
           Step(c) \/ Network(c) \/ Start(c) \/ Hit(c) \/ Again(c) \/ Kill(c)
    PROVE  TypeInv'
<1> USE CallAssumption DEF TypeInv
<1>0. /\ 0 \in 0..published /\ published \in 0..published
      /\ cache.ver \in 0..version /\ 0 \in 0..version
      /\ "none" \in Answers /\ NoEntry \in Entries /\ Reads \subseteq Calls
  BY DEF TypeOK, Answers, NoEntry, Entries, Calls
<1> USE <1>0
<1>1. CASE Send(c) \/ Start(c)
  BY <1>1 DEF TypeOK, Send, Start, Goto, server, store, Phase, Points
<1>2. CASE PaceExpires(c) \/ SleepExpires(c)
  <2>1. Done(c, "expired") /\ pc[c] # "sent"
    BY <1>2 DEF PaceExpires, SleepExpires, Asleep
  <2>2. "expired" \in Results \ {"none"}
    BY DEF Results
  <2> QED BY <1>2, <2>1, <2>2, DoneType
          DEF TypeOK, PaceExpires, SleepExpires, server, store, Phase
<1>3. CASE Hit(c)
  <2>1. \A b \in BOOLEAN : (IF b THEN "ok" ELSE "failed") \in Results \ {"none"}
    BY DEF Results
  <2>2. Done(c, IF cache.whole THEN "ok" ELSE "failed") /\ pc[c] = "idle"
    BY <1>3 DEF Hit
  <2> QED BY <1>3, <2>1, <2>2, DoneType DEF TypeOK, Entries, Hit, server, Phase
<1>4. CASE WriteEntry(c)
  <2>1. Done(c, "ok") /\ pc[c] = "writing" /\ "ok" \in Results \ {"none"}
    BY <1>4 DEF WriteEntry, Results
  <2>2. cache' \in Entries /\ cache'.ver = cache.ver
        /\ cache'.by \in Reads \cup {"nobody"}
        /\ {cache'.whole, cache'.raced} \subseteq BOOLEAN
    BY <1>4 DEF WriteEntry, Entries
  <2> QED BY <1>4, <2>1, <2>2, DoneType DEF TypeOK, WriteEntry, server, Phase
<1>5. CASE Wake(c)
  BY <1>5 DEF TypeOK, Wake, Asleep, server, store, Phase, Points
<1>6. CASE Again(c)
  BY <1>6 DEF TypeOK, Again, server, Phase, Points, Results
<1>7. CASE WriteSucceeds(c)
  <2>1. /\ Max({published, saw[c]}) \in {published, saw[c]}
        /\ Max({published, saw[c]}) >= published
    <3>1. published \in Nat /\ saw[c] \in Nat
      BY DEF TypeOK
    <3> QED BY <3>1, PairMax
  <2>2. /\ published' \in 0..version /\ published <= published'
        /\ Done(c, "ok") \/ Done(c, "failed")
    BY <1>7, <2>1 DEF WriteSucceeds, TypeOK
  <2>3. "ok" \in Results \ {"none"} /\ "failed" \in Results \ {"none"}
    BY DEF Results
  <2>4. /\ pc' = [pc EXCEPT ![c] = "done"] /\ pc' \in [Calls -> Points]
        /\ result' \in [Calls -> Results]
        /\ \A d \in Calls \ {c} : result'[d] = result[d]
        /\ attempt' \in [Calls -> 0..MaxRetries] /\ nap' \in [Calls -> Nat]
        /\ age' \in [Calls -> 0..Horizon]
    BY <2>2, <2>3, DoneType
  <2>5. /\ cache' = NoEntry /\ racers' \subseteq Reads
        /\ UNCHANGED <<version, applied, late, asked, replay, saw>>
        /\ answer' = [answer EXCEPT ![c] = "none"]
    BY <1>7 DEF WriteSucceeds, Taken, AfterMutation, Reading, TypeOK
  <2>6. asked' \in [Calls -> 0..published']
    BY <2>2, <2>5 DEF TypeOK
  <2> QED BY <2>2, <2>4, <2>5, <2>6 DEF TypeOK, Phase, NoEntry
<1>8. CASE ReadSucceeds(c)
  <2>0. /\ UNCHANGED <<version, applied, late, published, asked, racers, replay, saw>>
        /\ answer' = [answer EXCEPT ![c] = "none"] /\ c \in Reads
        /\ pc[c] = "sent"
    BY <1>8 DEF ReadSucceeds, Taken, Answered
  <2>1. CASE Goto(c, "writing") /\ cache' = [by |-> c, ver |-> saw[c],
                                             whole |-> FALSE, raced |-> c \in racers]
    BY <2>0, <2>1 DEF TypeOK, Goto, Entries, Points, Phase
  <2>2. CASE cache' = cache /\ (Done(c, "ok") \/ Done(c, "failed"))
    <3>1. "ok" \in Results \ {"none"} /\ "failed" \in Results \ {"none"}
      BY DEF Results
    <3> QED BY <2>0, <2>2, <3>1, DoneType DEF TypeOK, Phase
  <2> QED BY <1>8, <2>1, <2>2 DEF ReadSucceeds
<1>9. ASSUME \/ \E n \in Nat, p \in {"napping", "refilling"} : Sleep(c, p, n)
             \/ \E r \in Results \ {"none"} : Done(c, r),
             \/ answer' = answer /\ pc[c] # "sent"
             \/ answer' = [answer EXCEPT ![c] = "none"],
             pc[c] # "done", late' \in [Calls -> Nat],
             UNCHANGED <<version, applied, store, replay, saw>>
      PROVE  TypeInv'
  <2>1. ASSUME NEW n \in Nat, NEW p \in {"napping", "refilling"}, Sleep(c, p, n)
        PROVE  TypeInv'
    <3>1. /\ pc' = [pc EXCEPT ![c] = p] /\ pc' \in [Calls -> Points]
          /\ nap' \in [Calls -> Nat] /\ UNCHANGED <<result, attempt, age>>
      BY <2>1, SleepType
    <3>2. TypeOK'
      BY <1>9, <3>1 DEF TypeOK, store
    <3>3. ASSUME NEW d \in Calls PROVE Phase(d)'
      BY <1>9, <3>1 DEF TypeOK, Phase
    <3> QED BY <1>9, <3>2, <3>3 DEF store
  <2>2. CASE \E r \in Results \ {"none"} : Done(c, r)
    BY <1>9, <2>2, DoneType DEF TypeOK, store, Phase
  <2> QED BY <1>9, <2>1, <2>2
<1>10. {"failed", "denied", "limited", "killed"} \subseteq Results \ {"none"}
  BY DEF Results
<1>11. GiveUp(c) => /\ answer' = [answer EXCEPT ![c] = "none"]
                    /\ late' \in [Calls -> Nat]
                    /\ UNCHANGED <<version, applied>>
  BY DEF GiveUp, TypeOK
<1>12. Taken(c) => /\ answer' = [answer EXCEPT ![c] = "none"]
                   /\ late' \in [Calls -> Nat]
                   /\ UNCHANGED <<version, applied>>
  BY DEF Taken, TypeOK
<1>13. CASE Limited(c)
  BY <1>9, <1>10, <1>12, <1>13, LimitedType DEF Limited, Answered
<1>14. CASE Failing(c)
  BY <1>9, <1>10, <1>12, <1>14, RetryType DEF Failing, Answered
<1>15. CASE Denied(c)
  BY <1>9, <1>10, <1>12, <1>15 DEF Denied, Answered
<1>16. CASE NetworkFails(c)
  BY <1>9, <1>10, <1>11, <1>16, RetryType DEF NetworkFails
<1>17. CASE AnswerLost(c)
  BY <1>9, <1>10, <1>11, <1>17 DEF AnswerLost
<1>18. CASE Kill(c)
  BY <1>9, <1>10, <1>11, <1>18 DEF Kill, Running, server, TypeOK
<1>19. CASE Arrive(c)
  <2>1. version' \in Nat /\ version <= version' /\ applied' \in [Calls -> Nat]
    BY <1>19 DEF Arrive, Apply, TypeOK
  <2>2. UNCHANGED <<late, loop, store, replay>> /\ pc[c] = "sent"
        /\ answer' \in [Calls -> Answers]
        /\ \A d \in Calls \ {c} : answer'[d] = answer[d]
    BY <1>19 DEF Arrive, TypeOK
  <2>3. saw' \in [Calls -> 0..version']
    <3>1. version' \in 0..version' /\ \A d \in Calls : saw[d] \in 0..version'
      BY <2>1 DEF TypeOK
    <3> QED BY <1>19, <3>1 DEF Arrive, TypeOK
  <2>4. /\ published' \in 0..version' /\ asked' \in [Calls -> 0..published']
        /\ cache' \in Entries /\ cache'.ver \in 0..version'
    BY <2>1, <2>2 DEF TypeOK, store
  <2> QED BY <2>1, <2>2, <2>3, <2>4 DEF TypeOK, loop, store, Phase
<1> QED BY <1>1, <1>2, <1>3, <1>4, <1>5, <1>6, <1>7, <1>8, <1>13, <1>14, <1>15,
           <1>16, <1>17, <1>18, <1>19 DEF Step, Network

LEMMA TypeInit == Init => TypeInv
  BY HorizonType, CallAssumption
  DEF Init, TypeInv, TypeOK, Phase, Points, Results, Answers, NoEntry, Entries

LEMMA TypeNext == TypeInv /\ [Next]_vars => TypeInv'
<1> SUFFICES ASSUME TypeInv, [Next]_vars PROVE TypeInv'
  OBVIOUS
<1>1. ASSUME NEW w \in Writes, ArriveLate(w) PROVE TypeInv'
  <2>1. version' \in Nat /\ version <= version' /\ applied' \in [Calls -> Nat]
        /\ late' \in [Calls -> Nat]
    BY <1>1 DEF ArriveLate, Apply, TypeInv, TypeOK, Calls
  <2>2. UNCHANGED <<answer, loop, store, replay, saw>>
    BY <1>1 DEF ArriveLate
  <2> QED BY <2>1, <2>2, VersionGrows DEF TypeInv, TypeOK, loop, store, Phase
<1>2. CASE Tick
  <2>1. age' \in [Calls -> 0..Horizon] /\ nap' \in [Calls -> Nat]
    BY <1>2, HorizonType DEF Tick, TypeInv, TypeOK
  <2> QED BY <1>2, <2>1 DEF Tick, TypeInv, TypeOK, server, store, Phase
<1>3. CASE EntryExpires
  BY <1>3 DEF EntryExpires, TypeInv, TypeOK, server, loop, Phase, NoEntry, Entries
<1>4. CASE UNCHANGED vars
  BY <1>4 DEF vars, server, loop, store, TypeInv, TypeOK, Phase
<1> QED BY <1>1, <1>2, <1>3, <1>4, TypeStep DEF Next

-----------------------------------------------------------------------------
(* Reports are true.                                                        *)

\* A step of one call leaves what the others found and reported.
Still(d) == result'[d] = result[d] /\ saw'[d] = saw[d] /\ asked'[d] = asked[d]

LEMMA OthersStill ==
    ASSUME TypeInv, NEW c \in Calls, NEW d \in Calls \ {c},
           Step(c) \/ Network(c) \/ Start(c) \/ Hit(c) \/ Again(c) \/ Kill(c)
    PROVE  Still(d)
<1> USE DEF Still, TypeInv, TypeOK
<1>1. \A r : Done(c, r) => result'[d] = result[d]
  BY DEF Done
<1>2. RetryOrFail(c) => result'[d] = result[d]
  BY <1>1 DEF RetryOrFail, Sleep
<1>3. CASE Send(c) \/ PaceExpires(c) \/ Wake(c) \/ SleepExpires(c)
  BY <1>1, <1>3 DEF Send, PaceExpires, Wake, SleepExpires, Goto, store
<1>4. CASE WriteSucceeds(c) \/ ReadSucceeds(c) \/ WriteEntry(c)
  BY <1>1, <1>4 DEF WriteSucceeds, ReadSucceeds, WriteEntry, Goto
<1>5. CASE Limited(c)
  BY <1>1, <1>5 DEF Limited, Sleep, store
<1>6. CASE Failing(c) \/ NetworkFails(c) \/ Denied(c) \/ AnswerLost(c)
  BY <1>1, <1>2, <1>6 DEF Failing, NetworkFails, Denied, AnswerLost, store
<1>7. CASE Arrive(c)
  BY <1>7 DEF Arrive, loop, store
<1>8. CASE Start(c) \/ Hit(c) \/ Again(c) \/ Kill(c)
  BY <1>1, <1>8 DEF Start, Hit, Again, Kill, Goto, store
<1> QED BY <1>3, <1>4, <1>5, <1>6, <1>7, <1>8 DEF Step, Network

\* The steps of a mutation itself.
LEMMA TruthOwn ==
    ASSUME TypeInv, Shape, NEW w \in Writes, Spent(w), Truth(w),
           Step(w) \/ Network(w) \/ Start(w) \/ Hit(w) \/ Again(w) \/ Kill(w)
    PROVE  Truth(w)'
<1> USE CallAssumption DEF Truth, Reached, Calls
<1>0. /\ w \in Calls /\ w \notin Reads /\ Phase(w)
      /\ applied[w] \in Nat /\ late[w] \in Nat /\ replay \in [Calls -> BOOLEAN]
      /\ answer \in [Calls -> Answers] /\ result \in [Calls -> Results]
      /\ applied \in [Calls -> Nat]
  BY DEF TypeInv, TypeOK
<1> USE <1>0
<1>1. ASSUME NEW r, Done(w, r), r # "ok", r \notin {"denied", "limited"},
             applied'[w] = applied[w], answer'[w] \in {answer[w], "none"},
             replay' = replay
      PROVE  Truth(w)'
  BY <1>1 DEF Done
<1>2. ASSUME result' = result, pc[w] # "done",
             applied'[w] = applied[w], answer'[w] \in {answer[w], "none"}
      PROVE  Truth(w)'
  BY <1>2 DEF Phase
<1>3. CASE Send(w) \/ Wake(w) \/ Start(w)
  BY <1>2, <1>3 DEF Send, Wake, Start, Asleep, Goto, server
<1>4. CASE PaceExpires(w) \/ SleepExpires(w)
  BY <1>1, <1>4 DEF PaceExpires, SleepExpires, server
<1>5. CASE WriteSucceeds(w)
  BY <1>5 DEF WriteSucceeds, Answered, Taken, Done
<1>6. CASE ReadSucceeds(w) \/ WriteEntry(w) \/ Hit(w) \/ Again(w)
  BY <1>6 DEF ReadSucceeds, WriteEntry, Hit, Again, Phase
<1>7. CASE Denied(w)
  <2>1. /\ pc[w] = "sent" /\ answer[w] = "denied" /\ replay' = replay
        /\ answer'[w] = "none" /\ applied' = applied /\ late' = late
        /\ result'[w] = "denied"
    BY <1>7 DEF Denied, Answered, Taken, Done
  <2> QED BY <2>1 DEF Spent
<1>8. CASE Limited(w)
  <2>1. /\ pc[w] = "sent" /\ answer[w] = "limited" /\ replay' = replay
        /\ answer'[w] = "none" /\ applied' = applied /\ late' = late
    BY <1>8 DEF Limited, Answered, Taken
  <2>2. result' = result \/ result'[w] = "limited"
    BY <1>8 DEF Limited, Sleep, Done
  <2>3. CASE result' = result
    BY <1>2, <2>1, <2>3
  <2>4. CASE result'[w] = "limited"
    BY <2>1, <2>4 DEF Spent
  <2> QED BY <2>2, <2>3, <2>4
<1>9. CASE Failing(w) \/ NetworkFails(w)
  <2>1. /\ pc[w] = "sent" /\ replay' = replay /\ answer'[w] = "none"
        /\ applied' = applied /\ RetryOrFail(w)
    BY <1>9 DEF Failing, NetworkFails, Answered, Taken, GiveUp
  <2> QED BY <1>1, <1>2, <2>1 DEF RetryOrFail, Sleep
<1>10. CASE AnswerLost(w)
  BY <1>1, <1>10 DEF AnswerLost, GiveUp
<1>11. CASE Kill(w)
  BY <1>1, <1>11 DEF Kill, GiveUp, server
<1>12. CASE Arrive(w)
  BY <1>12 DEF Arrive, Apply, loop, Phase
<1> QED BY <1>3, <1>4, <1>5, <1>6, <1>7, <1>8, <1>9, <1>10, <1>11, <1>12
        DEF Step, Network

TruthInv == \A w \in Writes : Truth(w)

LEMMA TruthStep ==
    ASSUME TypeInv, CallsInv, TruthInv, [Next]_vars
    PROVE  TruthInv'
<1> SUFFICES ASSUME NEW w \in Writes PROVE Truth(w)'
  BY DEF TruthInv
<1>0. Truth(w) /\ Spent(w) /\ w \in Calls
  BY DEF TruthInv, CallsInv, Calls
<1>1. ASSUME NEW c \in Calls,
             Step(c) \/ Network(c) \/ Start(c) \/ Hit(c) \/ Again(c) \/ Kill(c)
      PROVE  Truth(w)'
  <2>1. CASE c = w
    BY <1>0, <1>1, <2>1, TruthOwn DEF CallsInv
  <2>2. CASE c # w
    <3>1. Same(w) /\ Still(w)
      BY <1>0, <1>1, <2>2, ShapeKept, OthersStill DEF CallsInv
    <3> QED BY <1>0, <3>1 DEF Truth, Reached, Same, Still
  <2> QED BY <2>1, <2>2
<1>2. ASSUME NEW v \in Writes, ArriveLate(v) PROVE Truth(w)'
  BY <1>0, <1>2 DEF Truth, Reached, ArriveLate, Apply, loop, TypeInv, TypeOK, Calls
<1>3. CASE Tick \/ EntryExpires \/ UNCHANGED vars
  BY <1>0, <1>3 DEF Truth, Reached, Tick, EntryExpires, vars, server, loop
<1> QED BY <1>1, <1>2, <1>3 DEF Next

-----------------------------------------------------------------------------
(* Staleness is explained.                                                  *)

\* The steps of a read itself.
LEMMA CurrentOwn ==
    ASSUME TypeInv, NEW r \in Reads, Current(r), EntryCurrent,
           Step(r) \/ Network(r) \/ Start(r) \/ Hit(r) \/ Again(r) \/ Kill(r)
    PROVE  Current(r)'
<1> USE DEF Current
<1>0. /\ r \in Calls /\ r \notin Writes /\ Phase(r)
      /\ version \in Nat /\ published \in 0..version
      /\ saw \in [Calls -> 0..version] /\ asked \in [Calls -> 0..published]
      /\ answer \in [Calls -> Answers] /\ result \in [Calls -> Results]
      /\ pc \in [Calls -> Points]
      /\ asked[r] <= published /\ asked[r] \in Nat /\ saw[r] \in Nat
      /\ published \in Nat /\ published <= version
  BY CallAssumption DEF TypeInv, TypeOK, Calls
<1> USE <1>0
<1>1. ASSUME NEW q, Done(r, q), q # "ok", answer'[r] \in {answer[r], "none"},
             pc[r] # "sent" \/ answer'[r] = "none"
      PROVE  Current(r)'
  <2>1. pc'[r] = "done" /\ result'[r] = "failed" /\ answer'[r] = "none"
    BY <1>1 DEF Done, Phase
  <2> QED BY <2>1
<1>2. ASSUME result' = result, pc[r] # "done", pc'[r] # "writing",
             answer'[r] = "none"
      PROVE  Current(r)'
  BY <1>2 DEF Phase
<1>3. CASE Send(r) \/ Wake(r) \/ Start(r)
  BY <1>2, <1>3 DEF Send, Wake, Start, Asleep, Goto, server, Phase
<1>4. CASE PaceExpires(r) \/ SleepExpires(r)
  BY <1>1, <1>4 DEF PaceExpires, SleepExpires, Asleep, server
<1>5. CASE WriteSucceeds(r)
  BY <1>5 DEF WriteSucceeds
<1>6. CASE ReadSucceeds(r)
  <2>1. /\ answer[r] = "ok" /\ answer'[r] = "none" /\ pc[r] = "sent"
        /\ UNCHANGED <<published, asked, racers, saw>>
    BY <1>6 DEF ReadSucceeds, Answered, Taken
  <2>2. r \in racers \/ (saw[r] >= published /\ saw[r] >= asked[r])
    BY <2>1
  <2> QED BY <2>1, <2>2
<1>7. CASE WriteEntry(r)
  <2>1. /\ pc[r] = "writing" /\ answer'[r] = "none" /\ pc'[r] = "done"
        /\ UNCHANGED <<published, asked, racers, saw>>
    BY <1>7 DEF WriteEntry, Done, server, Phase
  <2>2. r \in racers \/ (saw[r] >= published /\ saw[r] >= asked[r])
    BY <2>1
  <2> QED BY <2>1, <2>2
<1>8. CASE Hit(r)
  <2>1. /\ cache # NoEntry /\ asked'[r] = published /\ saw'[r] = cache.ver
        /\ cache.raced => r \in racers'
        /\ answer'[r] = "none" /\ pc'[r] = "done"
    BY <1>8 DEF Hit, Done, server, Phase
  <2> QED BY <2>1 DEF EntryCurrent
<1>9. CASE Again(r)
  BY <1>9 DEF Again, server, Phase
<1>10. CASE Denied(r)
  BY <1>1, <1>10 DEF Denied, Answered, Taken
<1>11. CASE Limited(r)
  <2>1. pc[r] = "sent" /\ answer'[r] = "none"
    BY <1>11 DEF Limited, Answered, Taken
  <2>2. (\E n \in Nat, p \in {"napping", "refilling"} : Sleep(r, p, n)) \/ Done(r, "limited")
    BY <1>11, LimitedType
  <2> QED BY <1>1, <1>2, <2>1, <2>2 DEF Sleep
<1>12. CASE Failing(r) \/ NetworkFails(r)
  <2>1. pc[r] = "sent" /\ answer'[r] = "none" /\ RetryOrFail(r)
    BY <1>12 DEF Failing, NetworkFails, Answered, Taken, GiveUp
  <2> QED BY <1>1, <1>2, <2>1 DEF RetryOrFail, Sleep
<1>13. CASE AnswerLost(r)
  BY <1>1, <1>13 DEF AnswerLost, GiveUp
<1>14. CASE Kill(r)
  BY <1>1, <1>14 DEF Kill, GiveUp, server
<1>15. CASE Arrive(r)
  <2>1. pc[r] = "sent" /\ version' = version /\ UNCHANGED <<loop, store>>
    BY <1>15 DEF Arrive, Apply
  <2>2. answer'[r] = "ok" => saw'[r] = version
    BY <1>15, <2>1 DEF Arrive
  <2> QED BY <2>1, <2>2 DEF loop, store, Phase
<1> QED BY <1>3, <1>4, <1>5, <1>6, <1>7, <1>8, <1>9, <1>10, <1>11, <1>12, <1>13,
           <1>14, <1>15 DEF Step, Network

\* What a step does to the entry, to what is published and to the racers.
LEMMA OwnStore ==
    ASSUME TypeInv, NEW c \in Calls, ~WriteSucceeds(c),
           Step(c) \/ Network(c) \/ Start(c) \/ Hit(c) \/ Again(c) \/ Kill(c)
    PROVE  /\ published' = published
           /\ \A r \in Reads \ {c} : r \in racers => r \in racers'
           /\ \/ cache' = cache
              \/ ReadSucceeds(c) /\ cache' = [by |-> c, ver |-> saw[c], whole |-> FALSE,
                                              raced |-> c \in racers]
              \/ WriteEntry(c) /\ cache' = [cache EXCEPT !.whole = TRUE]
                                 /\ cache.by = c
  BY DEF Step, Network, Send, PaceExpires, Wake, SleepExpires, ReadSucceeds, Limited,
     Failing, Denied, WriteEntry, Arrive, NetworkFails, AnswerLost, Start, Hit, Again,
     Kill, store

LEMMA EntryOwn ==
    ASSUME TypeInv, EntryCurrent, NEW c \in Calls, c \in Reads => Current(c),
           ~WriteSucceeds(c),
           Step(c) \/ Network(c) \/ Start(c) \/ Hit(c) \/ Again(c) \/ Kill(c)
    PROVE  EntryCurrent'
<1>1. CASE cache' = cache
  BY <1>1, OwnStore DEF EntryCurrent, NoEntry
<1>2. CASE ReadSucceeds(c) /\ cache' = [by |-> c, ver |-> saw[c], whole |-> FALSE,
                                        raced |-> c \in racers]
  <2>1. c \in Reads /\ answer[c] = "ok"
    BY <1>2 DEF ReadSucceeds, Answered
  <2> QED BY <1>2, <2>1, OwnStore DEF EntryCurrent, Current
<1>3. CASE WriteEntry(c) /\ cache' = [cache EXCEPT !.whole = TRUE] /\ cache.by = c
  <2>1. pc[c] = "writing" /\ cache \in Entries /\ c \in Reads
    BY <1>3 DEF WriteEntry, TypeInv, Phase
  <2>2. cache # NoEntry /\ cache'.ver = cache.ver /\ cache'.raced = cache.raced
    BY <1>3, <2>1, CallAssumption DEF Entries, NoEntry
  <2> QED BY <2>2, OwnStore DEF EntryCurrent
<1> QED BY <1>1, <1>2, <1>3, OwnStore

LEMMA CacheStep ==
    ASSUME TypeInv, Shape, CacheInv, [Next]_vars
    PROVE  CacheInv'
<1>0. EntryCurrent /\ \A r \in Reads : Current(r) /\ r \in Calls
  BY DEF CacheInv, Calls
<1>1. ASSUME NEW c \in Calls, ~WriteSucceeds(c),
             Step(c) \/ Network(c) \/ Start(c) \/ Hit(c) \/ Again(c) \/ Kill(c)
      PROVE  CacheInv'
  <2>1. ASSUME NEW r \in Reads PROVE Current(r)'
    <3>1. CASE r = c
      BY <1>0, <1>1, <3>1, CurrentOwn
    <3>2. CASE r # c
      <4>1. Same(r) /\ Still(r)
        BY <1>0, <1>1, <3>2, ShapeKept, OthersStill
      <4> QED BY <1>0, <1>1, <3>2, <4>1, OwnStore DEF Current, Same, Still
    <3> QED BY <3>1, <3>2
  <2> QED BY <1>0, <1>1, <2>1, EntryOwn DEF CacheInv
<1>2. ASSUME NEW w \in Calls, WriteSucceeds(w) PROVE CacheInv'
  <2>1. /\ cache' = NoEntry /\ racers' = racers \cup Reading /\ w \in Writes
        /\ w \notin Reads /\ answer[w] = "ok" /\ pc[w] = "sent"
    BY <1>2, CallAssumption DEF WriteSucceeds, AfterMutation, Answered
  <2>2. ASSUME NEW r \in Reads PROVE Current(r)'
    <3>1. Same(r) /\ Still(r)
      BY <1>0, <1>2, <2>1, ShapeKept, OthersStill DEF Step
    <3>2. r \in Reading \/ (answer[r] # "ok" /\ pc[r] # "writing")
      BY DEF Reading
    <3> QED BY <1>0, <2>1, <3>1, <3>2 DEF Current, Same, Still
  <2> QED BY <2>1, <2>2 DEF CacheInv, EntryCurrent, NoEntry
<1>3. ASSUME NEW v \in Writes, ArriveLate(v) PROVE CacheInv'
  BY <1>0, <1>3 DEF ArriveLate, loop, store, CacheInv, EntryCurrent, Current, NoEntry
<1>4. CASE Tick \/ EntryExpires \/ UNCHANGED vars
  <2>1. /\ UNCHANGED <<answer, pc, result, saw, asked, racers, published>>
        /\ cache' \in {cache, NoEntry}
    BY <1>4 DEF Tick, EntryExpires, vars, server, loop, store
  <2> QED BY <1>0, <2>1 DEF CacheInv, EntryCurrent, Current, NoEntry
<1> QED BY <1>1, <1>2, <1>3, <1>4 DEF Next

-----------------------------------------------------------------------------
(* The theorems.                                                            *)

AllInv == TypeInv /\ CallsInv /\ TruthInv /\ CacheInv

LEMMA AllInit == Init => AllInv
<1> SUFFICES ASSUME Init PROVE AllInv
  OBVIOUS
<1>1. TruthInv
  BY DEF Init, TruthInv, Truth, Calls
<1>2. CacheInv
  BY DEF Init, CacheInv, EntryCurrent, Current, Calls
<1> QED BY <1>1, <1>2, TypeInit, InvInit DEF AllInv

LEMMA AllStep == AllInv /\ [Next]_vars => AllInv'
  BY TypeNext, InvStep, TruthStep, CacheStep DEF AllInv, CallsInv

\* TypeOK holds for every number of calls: among others, no call has seen, and
\* the cache keeps, no version the server has not reached.
THEOREM CallsTyped == Spec => []TypeOK
<1>1. AllInv => TypeOK
  BY DEF AllInv, TypeInv
<1> QED BY <1>1, AllInit, AllStep, PTL DEF Spec

\* What a command reports of a mutation is true, whatever is retried, lost or
\* late: success means applied, and a refusal or a rate limit of a mutation
\* that is not replayed means that nothing was and nothing will be applied
\* (doInternal's results).
THEOREM ReportsStayTrue == Spec => []ReportsAreTrue
<1>1. AllInv => ReportsAreTrue
  BY DEF AllInv, TruthInv, Truth, CallsInv, Shape, Reached, ReportsAreTrue
<1> QED BY <1>1, AllInit, AllStep, PTL DEF Spec

\* A read that begins after a mutation reported success returns its effect,
\* however many reads fill and hit the cache meanwhile, unless its answer, or
\* that of the read whose entry it hit, was under way while a mutation dropped
\* the cache (invalidateCacheAfterMutation).
THEOREM StaleExplained == Spec => []StaleOnlyAfterRace
<1>1. AllInv => StaleOnlyAfterRace
  BY DEF AllInv, CacheInv, Current, StaleOnlyAfterRace
<1> QED BY <1>1, AllInit, AllStep, PTL DEF Spec

=============================================================================
