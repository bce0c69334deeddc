---------------------------- MODULE MirrorWriters ----------------------------
(***************************************************************************)
(* Everything that writes the mirrored rows of one resource: the sync      *)
(* walks of SyncEngine, live lookups that store what they read on the way  *)
(* (internal/cli/data_source.go, --data-source auto), and mutations that   *)
(* store the entity the API answers with.                                  *)
(*                                                                         *)
(* A lookup may be answered from the response cache (internal/client), for *)
(* five minutes and whatever sync fetches meanwhile: sync neither reads    *)
(* nor fills that cache.  A mutation of this client empties it.            *)
(* A stored row takes the answer's version whole: that the code keeps what *)
(* a thinner answer leaves out (mergeKeepRicherJSON) is below this grain.  *)
(***************************************************************************)
EXTENDS SyncEngine

CONSTANT Lookups  \* requests of the lookup and mutation commands

VARIABLES
    cache,   \* response cache: the answer kept of each request
    answer   \* answer each command holds and has not stored yet

writerVars == <<cache, answer>>

\* Types, and that no answer is ahead of the API: what a command holds or the
\* cache keeps of a row is a version the API has had.
MirrorTypeOK ==
    /\ cache \in [Lookups -> Versions] /\ answer \in [Lookups -> Versions]
    /\ \A q \in Lookups, r \in live :
          answer[q][r] <= ver[r] /\ cache[q][r] <= ver[r]

MirrorInit ==
    /\ Init
    /\ cache = [q \in Lookups |-> NoPage]
    /\ answer = [q \in Lookups |-> NoPage]

-----------------------------------------------------------------------------
\* The rows of a detail or of the first page of a listing, as they are now.
Answers == {PageOf(0, 0)}
           \cup {[NoPage EXCEPT ![r] = ver[r]] : r \in live}

\* GetWithHeaders: the live answer, kept in the cache.
Look(q) ==
    /\ answer[q] = NoPage /\ cache[q] = NoPage
    /\ \E a \in Answers \ {NoPage} :
          /\ answer' = [answer EXCEPT ![q] = a]
          /\ cache' = [cache EXCEPT ![q] = a]
    /\ UNCHANGED vars

\* The same request within five minutes does not reach the API.
LookCached(q) ==
    /\ answer[q] = NoPage /\ cache[q] # NoPage
    /\ answer' = [answer EXCEPT ![q] = cache[q]]
    /\ UNCHANGED <<vars, cache>>

EntryExpires(q) ==
    /\ cache[q] # NoPage
    /\ cache' = [cache EXCEPT ![q] = NoPage]
    /\ UNCHANGED <<vars, answer>>

\* Mutant: the requested entity is taken for the answer, applied or not.
MutateUnchecked(q, r) ==
    /\ answer[q] = NoPage /\ r \in live /\ ver[r] < MaxVer
    /\ answer' = [answer EXCEPT ![q] = [NoPage EXCEPT ![r] = ver[r] + 1]]
    /\ cache' = [o \in Lookups |-> NoPage]
    /\ UNCHANGED vars

\* A create or update applied by the API, whose answer is the entity; the
\* cached answers are dropped (invalidateCacheAfterMutation).
Mutate(q, r) ==
    /\ answer[q] = NoPage
    /\ Create(r) \/ Modify(r)
    /\ answer' = [answer EXCEPT ![q] = [NoPage EXCEPT ![r] = ver'[r]]]
    /\ cache' = [o \in Lookups |-> NoPage]

\* History: the answer overwrites a newer version, or brings back a row that
\* is gone.
Late(q) ==
    \E r \in Items(answer[q]) : local[r] > answer[q][r] \/ r \notin live

\* writeThroughCache and writeMutationResponseToStore: one transaction.
WriteThrough(q) ==
    /\ answer[q] # NoPage
    /\ local' = Stored(answer[q], Items(answer[q]))
    /\ answer' = [answer EXCEPT ![q] = NoPage]
    /\ IF Late(q)
       THEN /\ causes' = causes \cup {"late"}
            /\ walk' = [p \in Procs |-> [walk[p] EXCEPT !.alone = FALSE]]
       ELSE UNCHANGED <<causes, walk>>
    /\ UNCHANGED <<remoteVars, clock, st, pc, opt, cache>>

\* The store cannot be opened or the batch fails, silently; or the command
\* is killed.
DropAnswer(q) ==
    /\ answer[q] # NoPage
    /\ answer' = [answer EXCEPT ![q] = NoPage]
    /\ UNCHANGED <<vars, cache>>

-----------------------------------------------------------------------------
MirrorNext ==
    \/ Next /\ UNCHANGED writerVars
    \/ \E q \in Lookups :
          \/ Look(q) \/ LookCached(q) \/ EntryExpires(q)
          \/ WriteThrough(q) \/ DropAnswer(q)
          \/ \E r \in Rows : Mutate(q, r)

MirrorSpec == MirrorInit /\ [][MirrorNext]_<<vars, writerVars>>

-----------------------------------------------------------------------------
(* Properties.                                                              *)

\* A row goes back to an older version in the store only where an incremental
\* run fetches it again: its change came after the walk whose page overwrote
\* it began, hence after the watermark that walk publishes.  The one exception
\* is a late answer: one stored after the store had a newer version.
GoesBackOnlyAhead ==
    [][\A r \in live :
          local'[r] # 0 /\ local'[r] < local[r] =>
             \/ "late" \in causes'
             \/ \E p \in Procs : pc[p] = "fetched" /\ walk[p].req <= mod[r]
       ]_<<vars, writerVars>>
=============================================================================
