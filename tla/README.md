# swerpify-commerce-cli in TLA+

Specifications, model-checking runs and proofs for `swerpify-commerce-cli`, the
Go command line (`swerpicommerce-pp-cli`) and MCP server
(`swerpicommerce-pp-mcp`) of the SwerpiCommerce e-commerce API. Paths below are
relative to `src/generated/swerpicommerce-cli/`.

## 1. The system

A user or an agent runs one short-lived process per command; a long-lived MCP
server process runs the same commands for a desktop client. Processes share
files, never memory:

* the local SQLite mirror of the API (`data.db`, WAL mode),
* the HTTP response cache (a directory of files),
* rate-limit ledgers (one JSON file and one lock file per endpoint class),
* configuration and credentials (two TOML files), the profile store, audit
  receipts, the invocation journal.

The API is the other party: it pages collections by offset, changes while it is
being read, and answers late, with 429, 5xx or not at all.

`sync` fetches pages through the API client and commits them to the mirror,
with one `sync_state` row per resource as its checkpoint. Resources keyed by a
parent are walked once per row of the parent's local table, so they consume
what the flat syncs produced. `workflow archive` drives the same page walk with
a setup of its own. A request of a verified tenant session waits for a slot of
its endpoint class, which all processes of the profile share. Search, SQL and
the MCP server read the mirror and use the checkpoint's completeness flag to
tell the caller whether it is a whole snapshot.

Lookups and mutations write the mirror too, with answers that may be minutes
old. Which mirror file a command uses follows from its credentials, which a
login may replace while the command starts; the multi-site wrapper puts a token
cache and one rerun of the whole command around all this. Every command, when it
ends, appends a line to the invocation journal and derives flag corrections from
the lines it has not read.

### Inventory

| Component | Source | State | Operations | What is hard | What makes it correct |
|---|---|---|---|---|---|
| Flat sync engine | `internal/cli/sync.go` (`newSyncCmd`, `syncResource`), `internal/store/store.go` | `resources`, `sync_state` | clear, read checkpoint, page, store, save progress, reconcile, finish | the collection changes between pages; kills; two processes; flags that narrow the window | nothing the watermark claims is missing; only rows gone from the API are pruned; runs end |
| Workflow archive | `internal/cli/channel_workflow.go` | the same | its own clearing of the checkpoint, then the same walk | a kill after clearing | a cleared checkpoint claims nothing |
| Dependent sync | `internal/cli/sync.go` (`syncDependentResource`, `syncOneParent`) | per-parent partition, readiness flag, channels | read parents, pool of walks, partition sweep, drain, conclude | order of workers, cancellation, some parents failing | the flag is earned by every parent; the result hides no loss; no goroutine strands the collector |
| Endpoint limiter | `internal/platform/ratelimit.go` | ledger file, lock file | `Wait`, acquire, steal, release | a lock that is a file's existence, removed by name | burst and rate hold across processes; a killed holder does not block the rest |
| Client calls and response cache | `internal/client/client.go` | retry counters, deadline, cache files | send, retry, wait for refill, fill and drop the cache | lost answers, late deliveries, a read and a mutation side by side | bounded effects, true reports, no stale read but the unavoidable one, termination |
| Adaptive limiter | `internal/cliutil/ratelimit.go` | rate, next slot | reserve, cancel, speed up, slow down | cancelling a reservation others computed theirs from | spacing is kept, the tip waits for nobody who has gone |
| Sync run and exit policy | `internal/cli/sync.go` | results of the resources | pool, aggregation, exit code | which failure wins | critical failures are not masked |
| Rows, upserts, merge | `internal/store/store.go` | `resources`, typed tables, search index | upsert, keep the richer row, delete | an older projection written later | no information is lost by a poorer answer |
| Store opening and migration | `internal/store/store.go` | `user_version`, schema | open, migrate, back fill | two binaries at once | each step once, under the lock |
| Data source | `internal/cli/data_source.go` | the mirror | live lookup, fallback, write-through | a write beside a running sync; answers from the response cache | the watermark's claim survives, a row goes back only to what an answer under way held |
| Learn journal and candidates | `internal/learn/journal.go`, `derive.go`, `internal/store/candidates.go` | segments, file cursor, database cursor | append, rotate, repair, read batch, derive, advance | a kill between two cursors | each event counted once |
| Recall, teach, patterns, lookups, playbooks | `internal/learn/` | local tables | match, rank, record | text, not protocol | ranking rules |
| Verified tenant profiles | `internal/platform/gate.go`, `profile.go`, `metadata.go` | profile files, key, database metadata | verify, bind, seal | first use by two processes | no command runs against another tenant |
| Legacy migration and receipts | `internal/platform/migration.go`, `receipt.go` | old and new database, receipts | adopt, record | a kill during adoption | adopted whole or not at all |
| Configuration and credentials | `internal/config/config.go`, `internal/cliutil/`, `internal/cli/auth.go`, `helpers.go` | two TOML files, the store files and their owner | load, save under a file lock, roll back, remove; name, claim and inherit a store | a kill between the two replacements; a login between two loads; files looked for one after the other | both files belong to one login; one tenant's rows stay in its store |
| Fan-out helper | `internal/cliutil/fanout.go` | job and result channels | run | cancellation | every job is answered for |
| MCP server | `internal/mcp/` | none of its own | tools over client, store and command tree | it reads what syncs are writing | it calls a snapshot whole only when it is |
| Command handlers and types | `internal/cli`, `internal/types` | none | flags to one request | - | - |
| TTL file cache | `internal/cache/cache.go` | files | get, set | - | age |
| Site wrapper | `src/sites` | token cache per site | refetch, run, rerun | a truncated cache; a rerun of what half succeeded | the site asked for is the site shown; repeats have a cause |
| Entry points; skill scripts | `cmd`, `src/skills` | none | wiring | - | - |

The places where this code can go wrong in ways tests hardly reach are listed as
hazards, each at its line, in `PROJECT.json`.

## 2. The modules and the code

### SyncEngine, the flat sync

One collection of the API, one mirror, any number of processes. The remote side
is `ver`, `mod` and `pos` (version, second of the last change and display
position of each row), listed in the order the request declares: newest id first,
last change first, or by position (`SortBy`, the three values of `sort` in
`syncResourceParamDefaults`). A change may set the position of its row. The
mirror is `local`, the checkpoint `st` (`last_cursor`, `last_synced_at`,
`last_attempt_complete`). `walk[p]` holds the local variables of `syncResource`;
`pc[p]` is the place in it. History kept for the properties: `touched`, `passed`
(rows that a change moved another row behind), `shrunk` and `alone` in `walk`, `base`
(the watermark the walk found), and `causes`.

| Action | Code |
|---|---|
| `Begin` | `newSyncCmd`: flags, and the clearing of `sync_state` under `--full` and `--latest-only` |
| `ReadState` | the checkpoint, the empty-table check, the effective `since` |
| `MarkAttempt` | the attempt is marked incomplete before the first request |
| `Fetch`, `FetchFails` | request and answer: a page, an empty page, a repeated page; or each way a request fails |
| `StorePage`, `StoreFails` | `UpsertBatchDetailed` committed, rolled back, or committed with items missing |
| `StopAtCap`, `ReachEnd`, `NextPage` | the page ceiling, the natural end, progress saved and on |
| `Reconcile`, `ReconcileFails` | deletion mirroring of a complete `--full` walk |
| `Finish` | watermark published, or the attempt left incomplete |
| `Crash` | the process ends between any two of these |
| `Create`, `Modify`, `Delete`, `Tick` | the API's other users, and time |

A page is one step of the API, storing it one transaction: both are atomic in
the system. Everything between them interleaves. Time has the resolution of the
stored watermark, whole seconds, so a change and a walk can fall in one second.

### SyncArchive, `workflow archive`

`SyncEngine` with one more way to begin: `BeginArchive` clears the checkpoint
through `SaveSyncState`, which stamps the current time.

### MirrorWriters, lookups and mutations beside syncs

`SyncEngine` composed with the other writers of the same rows: a step is one of
`SyncEngine` or one of a lookup or mutation command. `answer[q]` is what a command
holds between its request and its store transaction, `cache[q]` the kept answer
of its request.

| Action | Code |
|---|---|
| `Look`, `LookCached` | `resolveReadWithStrategy...` with `auto`: a live answer, which the client caches, or the cached one |
| `Mutate` | a mutation that the API answers with the entity; the client drops its cache |
| `WriteThrough`, `DropAnswer` | `writeThroughCache` commits the rows; or the store is not there, or the process ends first |
| `EntryExpires` | the five minutes of the cache |

### DependentSync, parent-keyed resources

`phase` is the collector's place in `syncDependentResource`, `jobs` and
`reports` are its channels, `worker[w]` a goroutine with the variables of its
`syncOneParent` call. A goroutine takes a parent (`Take`), pages through its
children (`Fetch`, `StorePage`), sweeps the partition (`Reconcile`) and sends one
report; `Drain` reads one; `Conclude` decides on flag and result once every
report is in and every goroutine gone. Every failure the walk distinguishes has
an action. `Scoped` is the set of children whose body carries the field
`ReconcilePartition` selects by: the schemas of webhook deliveries, automation
executions and form submissions do not declare it, so the sweep may match
nothing, and the model lets rows differ in it.

### TokenBucket and EndpointLedger, the endpoint limiter

`EndpointBudget` holds the two numbers both share. `TokenBucket` is the abstract
specification: one atomic bucket, one action
`Grant`, and no mention of who keeps it. `EndpointLedger` is the file protocol:
acquire by exclusive creation, inspect, steal by name, read, write, release,
sleep, wake, cancel, kill. Each file operation is a step. Its `ledger` and
`grants` are those of the bucket, so the refinement mapping is the identity on
them and hides lock, copies and control points (`IsTokenBucket`, an
`INSTANCE TokenBucket`). Tokens are counted in units of 1/`Refill`, which makes
the code's float arithmetic exact.

### ClientCalls, retries, deadline and response cache

Each call is one run of `doInternal`: `Start`, `Send` after pacing, then one of
the answers (`WriteSucceeds`, `ReadSucceeds`, `Limited`, `Failing`, `Denied`) or
`NetworkFails`/`AnswerLost`, with `Again`/`Sleep`/`Wake` as the retry loop. The
server is a version number raised by every applied mutation. A request given up
on may still be applied (`ArriveLate`). The cache is one key's entry; writing it
is two steps (`ReadSucceeds`, `WriteEntry`), as the file is created before it is
filled. Ages are counted per call and stop at `Horizon`, beyond which every
comparison has the same answer.

### AdaptiveLimiter, the client's own pacing

`Reserve` is the part of `Wait` under the mutex, `Complete` the timer that ends,
`Release` the cancellation that gives the slot back, `ObserveHeaders`,
`OnSuccess` and `OnRateLimit` what an answer does to the rate. `pending` is the
code's list of slots still slept for, `lastRequest` its tip.

### LearnJournal, the invocation journal and flag corrections

A process is one invocation, and its line in the journal bears its name.

| Action | Code |
|---|---|
| `Invoke`, `Append`, `Tear` | `AppendJournalEntry`: timestamp and segment chosen, the torn tail of an earlier writer closed, one write (whole or short), cleanup |
| `Acquire`, `GiveUp`, `Insist` | the try-lock, the look at the unread tail that sends a run home, the blocking lock |
| `ReadBatch` | the lines behind the file cursor, and whether a failure that may still be corrected holds the batch |
| `Commit` | `CommitFlagCorrections`: one transaction over candidates and stored cursor, with its three cases of overlap |
| `Drain`, `Unlock` | the file cursor replaced, another scan if lines came in meanwhile |
| `PassFails`, `Kill`, `LoseOffset` | what can break, between any two of these |
| `Verdict`, `PurgeCandidates` | learnings and the purge commands, at any time |

### Credentials and Sites, logins, stores and the wrapper

`Credentials` is `auth set-token` and `auth logout` over the two files of one
home: the lock, the snapshot, the two replacements, the rollback, and a kill at
each of these points. `Sites` extends it with commands that start meanwhile:
the wrapper (`Cat`, `Fetch`, `Truncate`, `Put`, `Again`, `Rerun`), the two loads
of the credentials (`Scope`, then `Host` and `Bearer`), the choice of a store
(`Choose`, `Legacy`, `Decides`, `Marker`, `Inherits`, `Claim`, `Committed`,
`Open`) and one of three operations (`Sync`, `Read`, `Post`). A store file is
the set of tenants whose rows it holds. `causes` and `cmd[c].because` are
history: they record which of the known exceptions has occurred.

### Proof modules

`SyncEngine_proofs` (also for `MirrorWriters`), `DependentSync_proofs`,
`TokenBucket_proofs`, `EndpointLedger_proofs`, `ClientCalls_proofs`,
`LearnJournal_proofs`, `Sites_proofs` (also for `Credentials`),
`AdaptiveLimiter_proofs`. The `MC` modules name the flag sets, symmetry sets
and casts of the runs; `MCSyncCore` adds the state constraint of its run.

## 3. What the runs show

| Run | Question | Instance | Answer |
|---|---|---|---|
| `sync_core` | Is the mirror behind its watermark, or pruned of a living row, in any way the code does not accept? Is a quiet full run exact? | 3 rows, page size 2, listed by position with two positions, one row that moves and two that may be deleted, plain and `--full`, page losses, failed upserts, requests and reconciles, kills; two overlapping processes over one row | no; yes |
| `sync_flags` | The same for `--since`, `--no-prune`, `--max-pages`, `--latest-only` over a listing where a changed row moves to the head; do runs return? | 2 rows, page size 1, sorted by last change, failing stores, with fairness | sound; yes |
| `mirror_writers` | What do lookups, cached answers and mutation responses stored beside a sync change? | 2 rows, page size 1, listed by position, one sync process, one lookup command, one row that moves and may be deleted, failing requests, stores and reconciles | one more cause of lag (a late answer); a row that goes back is fetched again |
| `ledger_shared` | Does the file protocol implement the atomic bucket, with one kill inside the lock? | 2 processes, one may be killed | yes, and the lock is recovered |
| `dependents` | Is the flag earned, the result honest, the sweep safe, and does the call return? | 2 parents, 2 children, 2 goroutines, page size 1, five kinds of failure, cancellation, kills | yes |
| `client_calls` | Effects, reports, staleness, termination | one reader, one mutation, 1 retry, 1 refill wait, deadline 3 | as stated in the properties |
| `adaptive_limiter` | Do reservations keep their distance and the rate its bounds, whoever cancels and whatever the headers say? | 3 callers, 7 clock units, a second of 6 | yes |
| `learn_journal` | Is anything counted twice, or dropped? | 3 invocations, 2 days, a drain of 2 scans, one torn line or lost cursor, kills | no; a line written after midnight is the exception |
| `sites` | Which tenant does a command talk to, and whose rows does its store hold? | 2 tenants, 3 tokens, 2 wrapped and 1 direct command, 3 logins, in the casts of `MCSites` | the right one, but for the exceptions each property names |

The properties that carry most weight:

* `LagHasACause` - every change at or before the published watermark is in the
  mirror, unless one of six things happened since the last clean whole walk: a
  walk resumed at a cursor, a `--since` newer than the watermark it replaced, a
  remote deletion during a walk, a row the walk never saw that a change meanwhile
  moved another row behind (only in a listing by position), an overlap of two
  processes, or, with lookups beside the sync, an answer stored after a newer one.
  The list is the answer to "when may I trust an incremental sync".
* `GoesBackOnlyAhead` - a stored row returns to an older version only under a
  walk that began no later than the row's last change, so that the watermark it
  publishes lies before the change and the next run fetches it again; or by a
  late answer.
* `PrunesOnlyGone` - deletion mirroring removes a row the API still returns only
  if, during the walk, it changed, another row was moved behind it or the listing
  shrank, or the walk was narrowed
  by `--since` (pruning then takes what is older with it) or began at another
  process's cursor, which a `--full` run reads although it has cleared its own.
* `FullWalkIsExact`, `WatermarkMoves` - a quiet full run ends with mirror equal
  to collection; nothing else moves the watermark.
* `CompleteCovers`, `ResultHonest`, `SweepsOnlyGone`, `RunReturns` - the
  aggregation over parents, under every order of goroutines and failures.
* `Exclusive`, `HonorsBurst`, `IsTokenBucket`, `LockRecovered` - the limiter.
* `EffectsBounded` - a mutation that may not be replayed reaches the server at
  most once, a replayed one at most once per allowed attempt, counting requests
  still under way. `ReportsAreTrue`, `StaleOnlyAfterRace` relate what the caller
  is told to the server's state.
* `RateInBounds`, `SlotsApart`, `TipIsOwned` - the limiter's rate never leaves
  floor and ceiling; no two requests, sent or waiting, share a slot or are closer
  than the fastest rate allows, although slots are given back; the tip is never
  ahead of the clock for the sake of a caller that has gone.
* `CountedAtMostOnce`, `CorrectionsAreCounted`, `OwnLineRead` - two cursors, one
  of them outside the database, still give each failure one sighting; a readable
  pair is never split; a run goes home only when its line has been read or stands
  behind a failure, in the window its last pass read, that is held for its
  correction. `SightingsAreReal` and `VerdictsHold` carry this to
  the candidate a user has judged.
* `PublishedTokenStays`, `PairKept` - no login loses to a failing one, and the
  two files belong to one login unless processes overlapped, were killed, or
  failed to roll back.
* `StoresArePure`, `ClaimHolds`, `ReadsOwnSite`, `OneStore`, `RepeatsExplained` -
  tenants stay apart. Each lists its exceptions; without any one of them TLC
  finds a behaviour that needs it.

### Findings

Three runs end in a violation, each of a statement the repository makes:

| Run | Property | What happens |
|---|---|---|
| `sync_resume` | `WatermarkSound` | a walk resumed after a kill publishes its own start; a change to an earlier page between the two runs is never fetched incrementally (`sync.go:1059`) |
| `sync_archive` | `ArchiveLeavesNoGap` | `archive --full` stamps the current time before it fetches, where sync stamps the zero time; stopped early, the gap is never asked for again (`channel_workflow.go:113`) |
| `ledger_steal` | `HonorsBurst` | two waiters judge one lock file abandoned; the slower removes the fresh lock of the faster (`ratelimit.go:156`). Needs a kill and two waiters, so the two-process run is free of it |

Behaviour met on the way that no statement of the repository excludes, and which
the models keep:

* Sync. Clearing a checkpoint sets its completeness flag before anything is
  fetched (`sync.go:164`). An empty parent table is a success that leaves the
  attempt incomplete for ever (`sync.go:3535`). The page ceiling of a dependent
  walk marks it incomplete even on a proven last page; children of a parent no
  longer in the parent table are never swept.
* Reordering. `vetrina-products` is listed by display position (`sync.go:1650`). A
  change that moves a row behind the offset pulls the rows after it forward; the
  next page then steps over one that nobody touched, and a `--full` run prunes it
  although it lives. The listings by id and by last change are free of this: a
  change there leaves the order alone or moves its row to the head. An incremental walk
  can step over a changed row in the same way.
* Lookups. An answer from the response cache, up to five minutes old, is stored
  again over a row that a sync has since brought up to date
  (`data_source.go:259`): the cause `late`.
* Client. A torn cache entry can be read as an empty answer and is then returned
  without error (`client.go:491`), which `ClientCalls` counts as a failed call; a
  replayed PUT can overwrite a newer change of another caller.
* Journal. A line names its segment before it is written, so one written after
  midnight can reach a segment its readers have left; the comment at
  `journal.go:28` expects only timestamps to be out of order. `OwnLineRead` and
  `CorrectionsAreCounted` except such lines (`Stray`).
* Logins. `auth logout` removes and saves outside the lock that `set-token`
  takes (`config.go:628`). `SWERPICOMMERCE_BASE_URL`, if exported, is written
  into the configuration by any save. The root `README.md:78` shows
  `auth set-token <TOKEN>`, but the command reads standard input.
* Stores. The store is named by the token, and the wrapper's token changes about
  every twenty minutes; each new one starts an empty mirror, as nothing here
  sets `StoreScopeIdentity`. A claim of `data.db` inherits whatever other
  tenants stored in it; a claim that fails shares the file; a `data.db` that
  appears between the two looks splits one token's rows over two files; a login
  between the two loads of a command, one that fails and is rolled back included,
  stores one tenant's rows under the other's name.
* Wrapper. A `.token.json` read while it is being rewritten, or a refetch that
  fails, makes the command run with the stored credential. The rerun repeats the
  whole command, an import's first records included, and any output in which
  `401` occurs triggers it.

### Bounds

* Rows and pages: three rows at page size two give a full page, a short page, a
  row that slides from the second page to the first and one that is stepped
  over. At page size one, two rows give the empty last page and the stuck page.
  A third page adds no new relation between a row, a cursor and a deletion,
  and the proofs make no use of the number.
* `MaxVer` 2, `MaxClock` 2: a row can be created and changed, before, in and
  after the second of a walk, and a second walk can follow the first.
* Orders: `sync_core` and `mirror_writers` list by position, `sync_flags` by last
  change, `sync_resume` and `sync_archive` by id. Two positions are before and
  behind; one row that moves (`PairOverOneRow`, `OnlyFirstMoves`) is enough to be
  moved behind an unseen one, and can be moved back. In `sync_core` rows 1 and 2
  may be deleted, one from each side of a third.
* Two processes: `MCSyncCore` lets the second run, and what an overlap leaves
  behind persist, only over one row that does not move. That is enough for every
  order of their steps on the shared checkpoint; for more rows the theorems of
  section 4, which have any number of processes, take over.
* Kills and runs are not counted: any number of runs and kills fit into the
  bounded time, as starting one takes none.
* `EndpointLedger`: `MaxTime` 6 lets a lock age past `StaleAfter` and be stolen
  after the last kill at tick 2; with burst 1 and refill 2 the second grant is a
  reservation. `LedgerSteal` needs a third process.
* `DependentSync`: two parents on two goroutines give every order of two
  reports, one parent's children changing while the other's stand still.
* `MirrorWriters`: one row on a walk's page and one on the next, each written by
  a lookup before, between and after the page's request and its transaction.
* `AdaptiveLimiter`: three callers are the one that cancels, one that reserved
  behind it and one that reserves afterwards; `Remainings` and `Resets` give an
  exhausted, a tight and a loose budget; a rate reaches floor, ceiling and 429.
* `LearnJournal`: three invocations are a failure, its correction and a run that
  overlaps both passes; two days give one change of segment and one cleanup;
  `MaxFaults` 1 allows one short write or one lost offset file. Kills are not
  bounded.
* `Sites`: a behaviour runs one of the casts of `MCSites`, each one to three
  processes chosen so that one kind of race can happen: three commands that claim
  one file, two wrappers over one token cache, a wrapper beside a direct command
  with the other tenant's credential, a login under a direct command, with and
  without a wrapper beside it, an import and its rerun, three logins. All
  processes at once would multiply these interleavings and add no race between
  two.
* `ClientCalls`: attempts matter only up to `MaxRetries`, ages only up to
  `Horizon`; one reader and one mutation are the race of a fill with a drop.

### Fairness

`SyncEngine` and `DependentSync` assume weak fairness of each started process's or
goroutine's own steps and of the collector: the operating system and the Go
scheduler run them, and a request returns because the client bounds it in time.
`MirrorWriters`, `AdaptiveLimiter`, `LearnJournal` and `Sites` assume none: their
properties are of safety. `EndpointLedger` and `ClientCalls` add that time passes,
and `ClientCalls` that a request in flight ends somehow, which
`http.Client.Timeout` enforces. No user action, remote change, failure,
cancellation or kill is ever owed, and no answer is owed to be a good one:
`CallsReturn` holds against a server that answers 429 for ever. Deadlock checking
is off because every instance legitimately stops: clocks and calls are bounded,
and users need not start another command.

## 4. What is proved

For every value of the constants, under the assumptions named in the modules
(finite sets of rows, positive page size, burst and refill), and without any of
the bounds the instances above impose beyond their being natural numbers:

| Theorem | Module | Statement |
|---|---|---|
| `FullListing` | `SyncEngine_proofs` | a page is full whenever a row lies beyond it, so a short page proves the end |
| `SyncTyped` | `SyncEngine_proofs` | type invariant |
| `WatermarkGuarded` | `SyncEngine_proofs` | `WatermarkMoves` |
| `PruneExplained` | `SyncEngine_proofs` | `PrunesOnlyGone` |
| `LagExplained` | `SyncEngine_proofs` | `LagHasACause` |
| `FullWalkExact` | `SyncEngine_proofs` | `FullWalkIsExact` |
| `MirrorLagExplained`, `MirrorPruneExplained`, `MirrorFullWalkExact` | `SyncEngine_proofs` | the last three with lookups and mutations beside the syncs (`MirrorSpec`) |
| `GoesBackExplained` | `SyncEngine_proofs` | `GoesBackOnlyAhead`, of `MirrorSpec` |
| `DependentInvariant`, `DependentTyped` | `DependentSync_proofs` | the inductive invariant; type invariant |
| `CompleteCovered`, `DeletionsMirrored` | `DependentSync_proofs` | `CompleteCovers`, `CompleteMirrorsDeletions` |
| `ResultsHonest`, `SweepsExplained` | `DependentSync_proofs` | `ResultHonest`, `SweepsOnlyGone` |
| `BucketKeepsBudget` | `TokenBucket_proofs` | `BudgetKept`, `SlotsInOrder` |
| `LockExcludes`, `ImplementsBucket`, `SharedBudgetKept` | `EndpointLedger_proofs` | `Exclusive`, `IsTokenBucket`, `HonorsBurst` when nobody is killed |
| `CallsTyped`, `EffectsStayBounded` | `ClientCalls_proofs` | type invariant; `EffectsBounded` |
| `ReportsStayTrue`, `StaleExplained` | `ClientCalls_proofs` | `ReportsAreTrue`, `StaleOnlyAfterRace` |
| `JournalInvariant`, `JournalTypes` | `LearnJournal_proofs` | the inductive invariant; types, and one pass at a time |
| `NeverCountedTwice`, `SightingsNeverInflated`, `VerdictsAreKept` | `LearnJournal_proofs` | `CountedAtMostOnce`, `SightingsAreReal`, `VerdictsHold` |
| `NoCorrectionLost`, `OwnLineIsRead` | `LearnJournal_proofs` | `CorrectionsAreCounted`, `OwnLineRead` |
| `LimiterInvariant`, `SlotsAreOwned` | `AdaptiveLimiter_proofs` | the inductive invariant; sleepers and pending slots match one to one |
| `RateStaysInBounds`, `SlotsStayApart`, `NoPhantomTip` | `AdaptiveLimiter_proofs` | `RateInBounds`, `SlotsApart`, `TipIsOwned` |
| `SitesInvariant`, `SitesTyped` | `Sites_proofs` | the inductive invariant; type invariant |
| `TokenStays`, `PairExplained` | `Sites_proofs` | `PublishedTokenStays`, `PairKept` |
| `ClaimsHold`, `StoresStayPure`, `ReadsExplained`, `OneStoreEach` | `Sites_proofs` | `ClaimHolds`, `StoresArePure`, `ReadsOwnSite`, `OneStore` |
| `RepeatsBounded` | `Sites_proofs` | `RepeatsExplained` |

**Sync.** `LagHasACause` and `PrunesOnlyGone` say nothing of a walk under way,
so they are not inductive. `SyncInv` adds where each row can be at each point
of each walk: `CoverInv` says that, while nothing is deleted, an untouched row is
either already seen or still at or beyond the cursor, unless a changed row was
moved behind it. That holds in each of the three orders because the rank of such
a row only grows while others are added or changed (`RankUp`; what a change moves
its row behind is in `passed`, `TouchNoted`), because ranks have no gaps
(`RanksFilled`), and because therefore a short page ends the listing
(`FullListing`). `PruneExplained` follows at the reconcile step. For the
watermark `LagInv` adds `SeenInv` (what a lone process has seen is in the store)
and `LoneInv` (while a process is alone the watermark is the one it found):
`Finish` then covers everything at or before one second before the walk began,
since a row changed during the walk changed no earlier than that
(`TouchedInv`).

A quiet full walk (`FullWalkExact`) needs both directions. `ExactInv` says
that a lone `--full` run starts at offset zero, because it cleared the cursor
and nobody else can have saved one; that what a walk holds still exists while
nothing was deleted; and that after the pruning nothing is stored that the walk
did not see. `CoverInv` gives the other half: at the end it has seen every row.

With lookups and mutations beside the walks the same invariants hold. An answer
is never ahead of the API (`MirrorTypeOK`), so a `WriteThrough` that is not late
only brings rows closer to it, and one that is records the cause and ends the
claim of every walk under way to have been alone. The steps of `SyncEngine` keep
their own lemmas (`SyncStepKept`).

`GoesBackExplained` needs only that neither the store nor a page held by a walk
is ahead of the API (`VersionInv`): a page that takes a row back was requested
before the row's last change.

**Dependent sync.** `PoolInv` says that every parent is in the channel, in one
goroutine or in one report, and nowhere twice. `WalkInv` then repeats the cover
argument per parent: a child no page has shown lies at or beyond the offset
(`Unreached`), unless its listing shrank. `DoneInv` is what a complete report
stands for, and no other goroutine can disturb it. `Conclude` only counts
complete reports. That the count equals the number of parents means that every
parent has one, because two reports never name the same parent.

**Limiter.** `BudgetKept` compares two grants; a step preserves a bound on each
grant and the present ledger (`Credit`): tokens given out since a grant, plus
those left, never exceed the capacity plus the time gained. The file protocol
keeps `LockInv` (the file exists exactly while its creator is in the section and
is never old enough to steal) and `CopyInv` (what a process read is still the
file). Every step is then `Grant` or a stutter, and `SharedBudgetKept` combines
refinement and bucket theorem. Two hypotheses are explicit: nobody is killed
(`NobodyKilled`), and a live holder finishes its few file operations before its
lock counts as abandoned, which is the guard of `Tick`. `ledger_steal` shows
that the first cannot be dropped.

**Calls.** `CallsInv` ties the number of effects already possible to the
attempts already spent, per control point (`Spent`): the attempt is spent before
the next request, except after a 429, which had no effect.
`Truth` ties an answer in flight to what the server has done: "ok" is answered by
the request that was applied, and a refused mutation that is not replayed has no
request left that could still arrive. `CacheInv` says that the entry, and what a
read holds, are no older than the last mutation reported as successful, unless
they crossed its drop of the cache; the ghost `racers` and the entry's `raced`
record that crossing.

**Journal.** `CountedAtMostOnce` alone is not inductive: it needs that what has
been counted lies at or before the cursor committed with it (`CountedIsStored`),
that what a pass is about to count lies inside the window it read
(`FoundInWindow`), and, since windows are compared by position, that lines keep
their places while segments grow, are repaired and are removed (`LinesStand`,
`HasLast`, `Unwritten`). `Commit` counts only if its window begins at or after the
stored cursor, so the two sets are disjoint. Nothing is assumed of kills, losses
or the number of invocations.

That nothing is lost is the harder half. `CoverInv` says of every cursor that a
reader goes on from, or is about to store, that it is `Whole`: nothing is
appended before it any more, but for stray lines (`Valid`); a failure before it
needs no line behind it, because the next line of its session stands before it
too or comes too late to correct it (`Settled`); and every corrected pair before
it has been counted, or is in the batch to be counted with it (`Covered`).
Appends keep it because they go to the end of the last segment; cleanups because
they remove the oldest segment first and stop at the first one that may stay, so
the line between a failure and a later success is never removed alone; readers
because `ReadBatch` stops at a failure that may still be corrected.
`OwnLineIsRead` follows with `OwnInv`, what a run with the lock knows of its own
line until it has gone.

These two proofs corrected the model. `Expendable` used to say which segments are
too old or too many, without the order in which the loop removes them. And
`OwnLineRead` named a failure still waiting in a segment, which the window of 0 of
`learn_journal` could not distinguish; with a longer window, a second session and
room for one line that segment may be cleaned up before `Unlock`. It now names a
failure in the window that the run read, and excepts nothing else.

**Adaptive limiter.** `LimiterInv` adds to the properties that every slot handed
out lies at or before the tip and every used one in the past (`Behind`), and who
owns each pending slot (`OwnSlots`). Used slots are a sequence, so that two
requests on one slot would be two entries; `SlotsApart` compares entries of it,
sleepers, and the one with the other: a cancel removes one and rewinds the tip to
the latest that remains or to now, so the next reservation is computed from a
slot that is owned, and nothing lies beyond it.

**Sites.** `CredInv` is about the two files: `PairInv` says that without a
recorded cause they belong together while nobody writes, and that what the
holder of the lock would put back belongs together while it writes. `CmdInv` is
about one command: where its credential comes from, which store that names, that
it has a right to the file it settled on, and how often it posted. It survives
the steps of all others by `SharedGrows`: store files stay, `data.db` keeps its
owner once it has one, and a cause stays recorded. `ReadsOwnSite` and
`StoresArePure` follow at the step that reads or stores. `OneStore` needs
`HomeInv` besides: a credential whose own store exists no longer asks for
`data.db`, and one that is about to create its own cannot own `data.db` later.

Every type invariant, safety invariant and action property that the passing runs
check is proved, with one reservation: the theorems about `EndpointLedger` hold
where nobody is killed. The type invariants of `SyncEngine`, `EndpointLedger`,
`LearnJournal` and `AdaptiveLimiter` are therefore not repeated in the runs.

Only model-checked: liveness under fairness (`RunsReturn`, `RunReturns`,
`LockRecovered`, `CallsReturn`), which is out of the proof system's reach; and the
endpoint limiter with one kill inside the lock, where the properties hold for two
processes and fail for three. The three findings are counterexamples of TLC's.

## 5. What is abstracted, and what is left out

* A row is an identifier and a version; a stored page is the rows' new content.
  Below that grain is `mergeKeepRicherJSON`, which keeps the fields a thinner
  answer leaves out; so a field cleared remotely never leaves the mirror, and no
  model here shows it. Identity resolution, typed tables and the search index are
  left out with it.
* The position of a row stands for whatever key the API sorts by ascending, ids
  breaking ties as the API's description says (`spec.json:6136`); a change moves
  its own row only. A listing without a declared sort is taken to be in one of the
  three orders; those of children are newest first. A row that a change takes out
  of the listing, an inactive payment method for one, is deleted as far as the
  model goes. A new row is taken to get the next id, although an import may name
  an older one, which would only insert a row into the listing; a change is one
  that moves `ultima_modifica`, which by the same description a change of stock is
  not.
* Only offset paging is modelled, the one the API's collections declare; the
  engine's cursor and page-number branches have no resource using them here.
* Authentication, redirects, uploads, verify mode and dry runs of the client; its
  cache metadata under a platform session.
* The refill of a cache entry removes and creates its file in one step; of the errors
  other than absence that choosing a store can meet, only those of the claim.
* How two flags are compared, and what a candidate stores beside its sightings.
* The legacy configuration path, agentcookie, refused permissions, a
  `SaveCredentials` that fails after its rename, and the adoption of token-named
  stores, which needs a hook that nothing here sets.

Not modelled:

* Store opening and migration: the version is read again inside the transaction
  (`store.go:1398`), which serialises all openers of this binary; what could go
  wrong needs an older binary, whose code is not in the repository.
* Verified profiles, legacy migration, receipts: behind a gate that no source of
  this build registers a platform with, so they never run.
* The MCP server: tools over the same client, store and command tree. What its
  readiness answers rest on is the flag of `SyncEngine` and `DependentSync`.
* The pool and exit policy of `sync` and the fan-out helper: the first is
  sequential bookkeeping over independent resources, the second has the shape of
  the dependent sync's workers.
* Recall, teach, patterns, lookups, playbooks: text matching and ranking.
* About 430 generated command handlers, 3,000 lines of types, search and
  formatting helpers: most of the repository's lines. They turn flags into one
  request and an answer into text and keep no state. The share of all lines that
  the modules stand for is low for that reason; of the code that keeps state
  and runs beside other code, the greater part is modelled.

## 6. Plan

Order: the mirror first, since every answer the tool gives rests on it, then what
all requests pass through, then the smaller stores.

1. *Done*: `SyncEngine` with `SyncArchive`, `DependentSync`, `TokenBucket` and
   `EndpointLedger`, `ClientCalls`.
2. *Done*: `LearnJournal`, `MirrorWriters` composed with `SyncEngine`,
   `AdaptiveLimiter`, `Credentials` and `Sites`, with the proofs above.
3. *Done*: every safety and action property of the passing runs as a theorem.
   Left to prove: what one kill inside the lock can cost the endpoint limiter,
   for any number of processes.
4. *Models*: field-wise merging of rows, with the field that is never cleared;
   readiness as the MCP server reports it, over several resources.

## 7. Running it

In this directory, `tlc -config SyncCore.cfg MCSyncCore` and so on: the module
of each run is in `PROJECT.json`; `tlapm SyncEngine_proofs.tla` checks a proof
module.
