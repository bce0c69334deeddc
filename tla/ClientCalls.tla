---------------------------- MODULE ClientCalls -----------------------------
(***************************************************************************)
(* API calls of commands that share one response cache                     *)
(* (internal/client/client.go): the retry loop of doInternal with its one   *)
(* operation deadline, and the cache that reads fill and that every         *)
(* successful mutation drops.  A call is one request of one command; calls  *)
(* run concurrently in separate processes or goroutines.                   *)
(*                                                                         *)
(* The server is reduced to a version that each applied mutation raises.    *)
(* It answers "ok", "denied" (4xx), "limited" (429) or "failing" (5xx), and *)
(* has applied nothing when it answers "denied" or "limited".  A request    *)
(* whose caller gave up on it may still arrive (late).  Time is counted per *)
(* call from its start; ages beyond Horizon look alike, and so do attempts  *)
(* from MaxRetries on.                                                     *)
(***************************************************************************)
EXTENDS Naturals, FiniteSets, FiniteSetsExt

CONSTANTS
    Reads, Writes,       \* GETs of one cache key, and mutations
    MaxRetries,          \* clientMaxRetries capped by the budget's MaxAttempts
    RetryBudget,         \* EndpointBudget.RetryBudget
    Deadline,            \* the operation deadline of bindOperationDeadline
    Waits                \* delays a 429 answer asks for

ASSUME CallAssumption ==
    /\ Reads \cap Writes = {} /\ "nobody" \notin Reads
    /\ MaxRetries \in Nat /\ RetryBudget \in Nat /\ Deadline \in Nat
    /\ Waits \subseteq Nat

Calls == Reads \cup Writes
Points == {"idle", "pacing", "sent", "napping", "refilling",
           "writing", "done"}
Results == {"none", "ok", "denied", "limited", "failed", "expired", "killed"}
Answers == {"none", "ok", "denied", "limited", "failing"}

NoEntry == [by |-> "nobody", ver |-> 0, whole |-> FALSE, raced |-> FALSE]

VARIABLES
    version,    \* the server's state, counted in applied mutations
    applied,    \* how often each call was applied
    late,       \* requests of a call given up on that may still arrive
    answer,     \* the server's answer to the request a call waits for
    pc, replay, attempt, age, nap, saw, result,
    cache,      \* the entry of the key: who wrote it, what it holds
    published,  \* newest version a mutation reported as successful
    asked,      \* published when a read began
    racers      \* reads whose answer was under way while a mutation dropped
                \* the cache, and reads that hit the entry of such a read

server == <<version, applied, late, answer>>
loop   == <<pc, result, attempt, nap, age>>
store  == <<cache, published, asked, racers>>
vars   == <<server, loop, store, replay, saw>>

Horizon == Max({Deadline, RetryBudget + 1})
Running == {c \in Calls : pc[c] \notin {"idle", "done"}}
Expired(c) == age[c] >= Deadline

TypeOK ==
    /\ version \in Nat /\ published \in 0..version
    /\ applied \in [Calls -> Nat] /\ late \in [Calls -> Nat]
    /\ answer \in [Calls -> Answers]
    /\ pc \in [Calls -> Points] /\ result \in [Calls -> Results]
    /\ replay \in [Calls -> BOOLEAN]
    /\ attempt \in [Calls -> 0..MaxRetries]
    /\ age \in [Calls -> 0..Horizon] /\ nap \in [Calls -> Nat]
    /\ saw \in [Calls -> 0..version] /\ asked \in [Calls -> 0..published]
    /\ cache.by \in Reads \cup {"nobody"}
    /\ cache.ver \in 0..version /\ {cache.whole, cache.raced} \subseteq BOOLEAN
    /\ racers \subseteq Reads

\* replay is canRetryAmbiguousFailure: the method, an idempotency key, read
\* intent and the replay-safe header decide it before the loop starts; the
\* reads here are plain GETs, which no endpoint of this API opts out.
Init ==
    /\ version = 0 /\ published = 0
    /\ applied = [c \in Calls |-> 0] /\ late = [c \in Calls |-> 0]
    /\ answer = [c \in Calls |-> "none"]
    /\ pc = [c \in Calls |-> "idle"] /\ result = [c \in Calls |-> "none"]
    /\ replay \in {f \in [Calls -> BOOLEAN] : \A r \in Reads : f[r]}
    /\ attempt = [c \in Calls |-> 0] /\ age = [c \in Calls |-> 0]
    /\ nap = [c \in Calls |-> 0]
    /\ saw = [c \in Calls |-> 0] /\ asked = [c \in Calls |-> 0]
    /\ cache = NoEntry /\ racers = {}

-----------------------------------------------------------------------------
(* Starting and pacing                                                     *)

\* The properties do not tell the errors of a read apart.
Done(c, r) ==
    /\ pc' = [pc EXCEPT ![c] = "done"]
    /\ result' = [result EXCEPT ![c] = IF c \in Reads /\ r # "ok" THEN "failed" ELSE r]
    /\ attempt' = [attempt EXCEPT ![c] = 0]
    /\ nap' = [nap EXCEPT ![c] = 0]
    /\ age' = [age EXCEPT ![c] = 0]

Goto(c, p) ==
    /\ pc' = [pc EXCEPT ![c] = p]
    /\ UNCHANGED <<result, attempt, nap, age>>

\* A read that finds an entry returns it, whole or not: readCache does not
\* look at what it read.  Start also stands for the reads that do not look
\* (GetNoCache, --no-cache) and ReadSucceeds for those that do not fill.
Hit(r) ==
    /\ pc[r] = "idle" /\ r \in Reads /\ cache # NoEntry
    /\ asked' = [asked EXCEPT ![r] = published]
    /\ saw' = [saw EXCEPT ![r] = cache.ver]
    /\ racers' = IF cache.raced THEN racers \cup {r} ELSE racers
    /\ Done(r, IF cache.whole THEN "ok" ELSE "failed")
    /\ UNCHANGED <<server, cache, published, replay>>

Start(c) ==
    /\ pc[c] = "idle"
    /\ asked' = [asked EXCEPT ![c] = published]
    /\ Goto(c, "pacing")
    /\ UNCHANGED <<server, cache, published, racers, replay, saw>>

\* Both limiters let the request through; neither looks at the deadline when
\* it has nothing to wait for.
Send(c) ==
    /\ pc[c] = "pacing"
    /\ Goto(c, "sent")
    /\ UNCHANGED <<server, store, replay, saw>>

PaceExpires(c) ==
    /\ pc[c] = "pacing" /\ Expired(c)
    /\ Done(c, "expired")
    /\ UNCHANGED <<server, store, replay, saw>>

\* The next command reads again.
Again(r) ==
    /\ r \in Reads /\ pc[r] = "done"
    /\ pc' = [pc EXCEPT ![r] = "idle"]
    /\ result' = [result EXCEPT ![r] = "none"]
    /\ UNCHANGED <<attempt, nap, age>>
    /\ saw' = [saw EXCEPT ![r] = 0]
    /\ asked' = [asked EXCEPT ![r] = 0]
    /\ racers' = racers \ {r}
    /\ UNCHANGED <<server, cache, published, replay>>

-----------------------------------------------------------------------------
(* The server and the network                                              *)

Apply(c) ==
    /\ version' = version + 1
    /\ applied' = [applied EXCEPT ![c] = @ + 1]

Arrive(c) ==
    /\ pc[c] = "sent" /\ answer[c] = "none"
    /\ \E a \in Answers \ {"none"} :
          /\ answer' = [answer EXCEPT ![c] = a]
          /\ \/ /\ c \in Writes /\ a \in {"ok", "failing"}
                /\ Apply(c)
             \/ /\ c \in Reads \/ a # "ok"
                /\ UNCHANGED <<version, applied>>
          /\ saw' = IF a = "ok" THEN [saw EXCEPT ![c] = version'] ELSE saw
    /\ UNCHANGED <<late, loop, store, replay>>

ArriveLate(w) ==
    /\ late[w] > 0
    /\ late' = [late EXCEPT ![w] = @ - 1]
    /\ Apply(w)
    /\ UNCHANGED <<answer, loop, store, replay, saw>>

\* The client stops waiting for the request it has sent.
GiveUp(c) ==
    /\ answer' = [answer EXCEPT ![c] = "none"]
    /\ late' = IF c \in Writes /\ answer[c] = "none"
               THEN [late EXCEPT ![c] = @ + 1] ELSE late
    /\ UNCHANGED <<version, applied>>

\* A sleeper is woken by the end of its context before time goes on.
Asleep(c) == pc[c] \in {"napping", "refilling"}
RefillOutlasts(c) == pc[c] = "napping" /\ Expired(c)

SleepEnds(c) == Expired(c)

Tick ==
    /\ \A c \in Running : ~(Asleep(c) /\ SleepEnds(c))
    /\ \E c \in Running : age[c] < Horizon \/ nap[c] > 0
    /\ age' = [c \in Calls |-> IF c \in Running /\ age[c] < Horizon
                               THEN age[c] + 1 ELSE age[c]]
    /\ nap' = [c \in Calls |-> IF nap[c] > 0 THEN nap[c] - 1 ELSE 0]
    /\ UNCHANGED <<server, pc, result, attempt, store, replay, saw>>

-----------------------------------------------------------------------------
(* The retry loop                                                          *)

WithinBudget(c, wait) == RetryBudget > 0 /\ age[c] + wait <= RetryBudget

RetryAnything(c) == attempt[c] < MaxRetries

MayRetry(c) == attempt[c] < MaxRetries /\ replay[c]
Backoff(c)  == 2 ^ attempt[c]

Sleep(c, p, wait) ==
    /\ pc' = [pc EXCEPT ![c] = p]
    /\ nap' = [nap EXCEPT ![c] = wait]
    /\ UNCHANGED <<result, attempt, age>>

\* A transport failure that is not a permanent DNS error, or a 5xx answer.
RetryOrFail(c) ==
    IF MayRetry(c) /\ WithinBudget(c, Backoff(c))
    THEN Sleep(c, "napping", Backoff(c))
    ELSE Done(c, "failed")

NetworkFails(c) ==
    /\ pc[c] = "sent"
    /\ GiveUp(c)
    /\ RetryOrFail(c)
    /\ UNCHANGED <<store, replay, saw>>

\* A permanent DNS error, or a body that cannot be read or decoded: returned
\* at once, and the cache stays.
AnswerLost(c) ==
    /\ pc[c] = "sent"
    /\ GiveUp(c)
    /\ Done(c, "failed")
    /\ UNCHANGED <<store, replay, saw>>

Answered(c, a) == pc[c] = "sent" /\ answer[c] = a
Taken(c) ==
    /\ answer' = [answer EXCEPT ![c] = "none"]
    /\ UNCHANGED <<version, applied, late>>

KeepEntry(v) == cache
PatchEntry(v) == [cache EXCEPT !.ver = @ + 1]

\* What the cache holds after a mutation of version v succeeded.
AfterMutation(v) == NoEntry

Reading == {r \in Reads : pc[r] = "writing" \/ answer[r] = "ok"}

WriteSucceeds(w) ==
    /\ w \in Writes /\ Answered(w, "ok") /\ Taken(w)
    /\ cache' = AfterMutation(saw[w])
    /\ racers' = racers \cup Reading
    /\ \/ /\ published' = Max({published, saw[w]})
          /\ Done(w, "ok")
       \/ /\ UNCHANGED published
          /\ Done(w, "failed")     \* an HTML page, or an answer not encoded
    /\ UNCHANGED <<asked, replay, saw>>

\* A read that fills the cache removes and creates the entry's file first:
\* os.Remove and the open of os.WriteFile leave an empty file under the name.
ReadSucceeds(r) ==
    /\ r \in Reads /\ Answered(r, "ok") /\ Taken(r)
    /\ \/ /\ cache' = [by |-> r, ver |-> saw[r], whole |-> FALSE,
                       raced |-> r \in racers]
          /\ Goto(r, "writing")
       \/ /\ UNCHANGED cache
          /\ Done(r, "ok") \/ Done(r, "failed")
    /\ UNCHANGED <<published, asked, racers, replay, saw>>

\* 429: retry as asked, then keep waiting for a refill until the deadline.
Limited(c) ==
    /\ Answered(c, "limited") /\ Taken(c)
    /\ \E wait \in Waits :
          IF MayRetry(c) /\ WithinBudget(c, wait) THEN Sleep(c, "napping", wait)
          ELSE IF replay[c] /\ MaxRetries > 0 /\ attempt[c] >= MaxRetries
          THEN Sleep(c, "refilling", Max({wait, 1}))
          ELSE Done(c, "limited")
    /\ UNCHANGED <<store, replay, saw>>

Failing(c) ==
    /\ Answered(c, "failing") /\ Taken(c)
    /\ RetryOrFail(c)
    /\ UNCHANGED <<store, replay, saw>>

Denied(c) ==
    /\ Answered(c, "denied") /\ Taken(c)
    /\ Done(c, "denied")
    /\ UNCHANGED <<store, replay, saw>>

\* sleepContext: the timer wakes the call; when the deadline has passed as
\* well, select takes either.
Wake(c) ==
    /\ Asleep(c) /\ nap[c] = 0
    /\ pc' = [pc EXCEPT ![c] = "pacing"]
    /\ attempt' = [attempt EXCEPT ![c] = IF @ < MaxRetries THEN @ + 1 ELSE @]
    /\ UNCHANGED <<server, result, nap, age, store, replay, saw>>

SleepExpires(c) ==
    /\ Asleep(c) /\ SleepEnds(c)
    /\ Done(c, "expired")
    /\ UNCHANGED <<server, store, replay, saw>>

-----------------------------------------------------------------------------
(* Filling the cache, and the end of a process                             *)

\* The body goes to the file this call created, wherever the name points now.
WriteEntry(r) ==
    /\ pc[r] = "writing"
    /\ cache' = IF cache.by = r THEN [cache EXCEPT !.whole = TRUE] ELSE cache
    /\ Done(r, "ok")
    /\ UNCHANGED <<server, published, asked, racers, replay, saw>>

\* readCache takes an entry older than five minutes for a miss.
EntryExpires ==
    /\ cache # NoEntry /\ cache' = NoEntry
    /\ UNCHANGED <<server, loop, published, asked, racers, replay, saw>>

\* A signal: the caller's context is cancelled, or the process dies.
Kill(c) ==
    /\ c \in Running
    /\ IF pc[c] = "sent" THEN GiveUp(c) ELSE UNCHANGED server
    /\ Done(c, "killed")
    /\ UNCHANGED <<store, replay, saw>>

Step(c) ==
    \/ Send(c) \/ PaceExpires(c) \/ Wake(c) \/ SleepExpires(c)
    \/ WriteSucceeds(c) \/ ReadSucceeds(c) \/ Limited(c) \/ Failing(c) \/ Denied(c)
    \/ WriteEntry(c)

Network(c) == Arrive(c) \/ NetworkFails(c) \/ AnswerLost(c)

Next ==
    \/ \E c \in Calls : Step(c) \/ Network(c) \/ Start(c) \/ Hit(c) \/ Again(c) \/ Kill(c)
    \/ \E w \in Writes : ArriveLate(w)
    \/ Tick \/ EntryExpires

Spec == Init /\ [][Next]_vars

\* A started call is scheduled, time passes, and a request in flight comes to
\* an end: http.Client.Timeout ends it if nothing else does.
FairSpec ==
    /\ Spec
    /\ WF_vars(Tick)
    /\ \A c \in Calls : WF_vars(Step(c)) /\ WF_vars(Network(c))

-----------------------------------------------------------------------------
(* Properties                                                              *)

\* What a call can have done to the server: the requests that were applied,
\* that may still be, and the one it waits for.
Effects(w) == applied[w] + late[w]
              + (IF pc[w] = "sent" /\ answer[w] = "none" THEN 1 ELSE 0)

\* A mutation that may not be replayed reaches the server at most once,
\* however its request fails, and a replayed one takes effect at most once
\* per attempt allowed: the waits for a refill beyond MaxRetries resend only
\* what a 429 proved to be without effect (doInternal's
\* canRetryAmbiguousFailure, maxRetries and waitForRateLimitRefill).
EffectsBounded ==
    \A w \in Writes : Effects(w) <= IF replay[w] THEN MaxRetries + 1 ELSE 1

\* What a command reports of a mutation is true: success means applied, and
\* a refusal or a rate limit, of a mutation that is not replayed, means that
\* nothing was and nothing will be applied (doInternal's results).
ReportsAreTrue ==
    \A w \in Writes :
        /\ result[w] = "ok" => applied[w] > 0
        /\ ~replay[w] /\ result[w] \in {"denied", "limited"} => applied[w] + late[w] = 0

\* A read that begins after a mutation reported success returns its effect,
\* unless the entry it hit came from a read that was under way while a
\* mutation dropped the cache (GetWithHeaders filling the cache after
\* invalidateCacheAfterMutation of another call).
StaleOnlyAfterRace ==
    \A r \in Reads : result[r] = "ok" => saw[r] >= asked[r] \/ r \in racers

\* Every call returns, also when the server answers 429 for ever
\* (bindOperationDeadline and waitForRateLimitRefill).
CallsReturn == \A c \in Calls : c \in Running ~> c \notin Running

=============================================================================
