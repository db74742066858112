# Parallax Kernel: TLA+ models, model checking and proofs

This directory specifies the stateful parts of Parallax Kernel (the sources are
under `src/`): which transactions, locks, timers, files and processes
interleave, and what must hold whatever they do. `PROJECT.json` maps every
definition to the source lines it models, lists the components, the runs, the
mutants, the hazards of the code and the theorems. Paths below are relative to
`src/parallax/`.

## 1. The system

| Component | State | Operations | Hard behaviour |
|---|---|---|---|
| Canonical store (`ingest.py`, `sqlite_store.py`, `events/__init__.py`, `transitions.py`, `hooks.py`, `extract/review.py`) | tables `sources`, `memories`, `claims`, append-only `events` | `ingest_memory`, `ingest_claim`, `transition_claim_state`, `approve`, `reject`, `reaffirm`, `ingest_hook` | an API call is several SQLite transactions; other connections and crashes fall between them |
| Replay (`replay.py`) | a second database, the event log | `replay_events`, `backfill_creation_events` | order by wall-clock time; a backfill that races ingests |
| Idempotency (`canary/idempotency.py`, `audit_log.py`) | `audit_log` rows, lock table with reference counts | `handle`, `record`, `lookup`, `record_ack` | locks removed while others wait; failed reads and writes; restarts |
| Rollback (`canary/rollback.py`, `triggers.py`, `rollback_state.py`) | state machine, five sample windows, one durable row | `observe_request`, `observe_data_loss`, `evaluate`, `acknowledge` | clock read before the lock; restart over a durable row; reset of evidence |
| Dual read (`router/dual_read.py`, `circuit_breaker.py`, snapshot middleware, admin reset) | futures, the breaker's window, per-request snapshot | `query`, `record_unreachable_observation`, `reset` | timeout racing a late answer; stale snapshots |
| Traces of a dual read (`router/live_arbitration.py`, `events/conflict_writer.py`, `router/dual_read_metrics.py`, `dual_read_decision_log.py`) | counters, conflict events, JSONL lines | arbitration, deduplicated conflict event, one log line per query | check-then-insert; rollback by the connection's owner; a torn line |
| Rolling windows (`router/discrepancy_live.py`, `circuit_breaker.py`) | deques of stamped observations | record, evict, rate | stamps read before the lock |
| Server lifecycle (`server/lifespan.py`, `drain_journal.py`, `router/inflight.py`) | in-flight gauge, timeout counter, journal file | start, drain, record a timeout, exit | deadline, damaged file, instances that share it, crashes |
| Audit database (`apex/audit_db.py`, `audit_writer.py`, `router/aphelion_adapter.py`) | `audit_row` table, a connection per thread | single rows and atomic batches, the envelope that needs them | a ROLLBACK that fails; threads that outlive their request |
| Aphelion packages (`apex/subject_index.py`, `aphelion_ingest.py`, `apex/router.py`) | package files, an index file | load or rebuild the index, resolve, ingest | files swapped between verify, unpack and stat |
| SQLite gate, crosswalk backfill, index builder (`router/sqlite_gate.py`, `router/crosswalk_backfill.py`, `index.py`) | a lock per gate, crosswalk rows, `index_state` | gated statements, checkpoint thread, backfill, `rebuild_index` | a second gate; read-then-replace of versions |
| Migrations (`migrations/`) | `schema_migrations`, the schema | up to the latest, down to a version | two migrators; failures and death between statements and ledger |
| Backup and restore (`backup.py`, `restore.py`) | main file, `-wal`, archive, the file moved aside | backup, restore, verification | a server that writes meanwhile |
| Offline queue (`wal.py`) | queue rows with attempts | enqueue, drain, evict | overlapping drains, lost answers, crashes |
| Canary store and gates (`canary/instrument.py`, `outcomes.py`, `exporter.py`, `dod.py`, `dod_prometheus.py`, `canary_shadow.py`) | audit and outcome rows, cached snapshot, Prometheus counters | record a request, scrape, judge a stage | two writes per request; gates that ask several questions at several moments |
| LLM calls (`llm/call.py`) | a cache under a lock | `call` with retries and fallback | herd on one key; which answers may be cached |
| Extraction and import (`extract/ingest.py`, `extract/shadow.py`, `memory_md.py`) | claims, memory cards | `extract_and_ingest`, `shadow_write`, import of an index | failing half-way; two imports that cross |
| Access (`server/auth.py`, `cli.py` token commands) | `api_tokens` | `require_auth`, `current_user_id`, create, revoke | revocation between lookup and use |
| Retrieval (`retrieve.py`, `retrieval/semantic.py`) | none of its own | `by_bug_fix`, `by_entity`, `by_timeline`, reciprocal rank fusion | two limited queries, merged; inclusive bounds |
| Router contracts, export, viewer, other routes and commands, evaluation | none that outlives a call | mapping and formatting | not modelled, see 6 |

The components meet in the database and in the server process. The routes call
the canonical store; the canary wraps requests with the idempotency handler,
records outcomes and feeds the rollback controller; the dual-read router
compares the canonical store with Aphelion packages, feeds the circuit breaker
and leaves conflict events and log lines; audited reads write audit rows on the
threads of the server process, which the drain waits for only until a deadline.
Backup, migrations, the offline queue and the index builder work on the same
files beside it.

## 2. Plan and state of the work

1. The request path: `KernelStore`, `KernelReplay`, `Idempotency`, `Rollback`,
   `DualRead` with `CanonicalRead`. *Done, safety and refinement proved.*
2. The server: `AuditDb` with `AuditLog`, `Drain`, and their composition
   `Server`. *Done, safety and refinement proved.*
3. Maintenance: `Migrations`, `WalQueue`, `Backup`, `Gate`, `Packages`. *Done,
   safety proved.*
4. Telemetry: `Canary`, `ShadowGate`, `Observers`, `RollingWindow`. *Done, safety
   proved, and one action property of `Canary`.*
5. Clients: `LlmCall`, `Extraction`, `Access`, `Retrieval`. *Done for the
   operations named in 3, their safety proved.*
6. Left: in-place replay on a live database; the remaining queries of
   `retrieve.py` (each of the shape of a modelled one).

## 3. Modules, and how they correspond to the code

Each component's module has its type invariant and one named definition per
promise; a run checks their conjunction under one name (`AuditSafety`,
`JournalSafety`, `QueueSafety`, ...). The parts of a conjunction are commented
where they are defined.

### KernelStore
One action per transaction of `sqlite_store.py` (each `with conn:` block) or per
autocommit read whose result a later transaction uses. `pc[c]` and `job[c]` are
the program counter and locals of the call that connection `c` runs. Ingest is
`EnsureSource` (INSERT OR IGNORE of the source), `InsertRow` (INSERT OR IGNORE
of the candidate and the re-select that decides `deduped`), then either
`ReaffirmMemory`/`ReturnDedupedClaim` or `StampCreated` (`record_event`'s orphan
check and `created_at`) and `AppendCreated` (its insert). A state change is
`ReadClaim` + `UpdateClaim` (`WHERE state = ?`), a review is `StampReview`
(`updated_at` before the transaction) + `CommitReview`. The backfill reads
memories before its transaction starts (Python's `sqlite3` opens it at the first
INSERT), so it is `BackfillSelectMemories` + `BackfillWriteAll`, or, with no
memory to write, the same for claims. Time is a logical clock; a row's ULID is
the tick at which it was minted. `Crash` ends a client between two transactions.

### KernelReplay
`Replayed` is the target database after `replay_events` has streamed a part of the
log: what the latest event of the part by `(created_at, event_id)` (`Latest`) makes of
the database that the rest left, by `Apply`. A creation inserts its payload unless
the row is there (the first insert wins) and ends the replay if the row's source is
not in the sources table; a change updates the row if it is there. `Rebuilt` is this
for the whole log. Its promises are state predicates of `KernelStore`,
evaluated in every reachable state: what a rebuild started now would return.

### Idempotency
One action per SQL statement, block under the meta-lock, or acquire and release
of an event lock. The n-th run of an event's worker returns response `n`, so that
a torn status/body pair shows as two different numbers; an acknowledgement has
status 0, and `stub` remembers the events whose row began as one. `Locks` are reusable
objects: a `threading.Lock` whose last reference is gone may reappear at the
same address. Faults (failed SELECT, failed write, raising worker, restart) draw
on a budget and are counted per event.

### Rollback
`ReadClock` is the call of `clock()` before the lock, `Observe` and `Evaluate`
the block under the lock. All timestamps are ages, so that time is unbounded and
the state space finite: from `OldAge` on, an age over every window and the longest wait for the
lock, ages are alike (`RollbackAssumption`). The rates of T1-T3
are abstracted to good and bad samples: below 100 samples one bad one breaches
each threshold. `Restart` is a new process over the same durable row.

### DualRead and CanonicalRead
A request enters on the event loop (`Enter`: the middleware's snapshot), is
dispatched on a handler thread, waits for the canonical query, then for the
secondary or the timeout, and records one observation (`Record`: append, evict
and trip under one lock). `SecondaryEnds` may come at any time or never. The
reset route is two steps, `ReadTripped` and `Reset`: the event loop runs them
without an await, so that no request enters in between, but handler threads
record. Time is abstracted: an observation may evict any prefix of the window.
`bugTrace` marks the requests for a change trace of a bug, which `query` answers as
`skipped` whatever the snapshot says. `match` and `diverge` are one outcome, and so are the two kinds of secondary
fault, since nothing depends on the difference. `CanonicalRead` is the promise of
`query`: the answer is what the canonical store said. `primary` and `answer` map
to themselves.

### AuditLog, AuditDb
`AuditLog` is the promise: batches are appended whole and never taken back.
`AuditDb` has one action per statement of a write: `Ask` (the call), the lazily
opened thread-local connection, `Begin` (BEGIN IMMEDIATE, which needs the file's
write lock), `Insert`, `Commit`, `Rollback`, and `RollbackFails`, after which the
connection stays in its transaction and keeps the write lock of the file. `Emit`
is the envelope that is returned only for committed rows. `log` maps to itself.

### Drain
`Start` is `restore_drain_timeout_counter`, `DrainComplete` and `DrainTimeout`
the two ends of `_drain_inflight`. `record_drain_timeout` is two steps,
`DraftRecord` (read the journal, write the temporary file) and `ReplaceJournal`
(`os.replace`), so that two instances may read the same total. A file that
cannot be read counts as zero, as in the code.

### Server
The composition. `Boot` is the lifespan before its `yield`: the counter first,
then the gates on the audit database. A request works on a thread that may
outlive its response; `ProcessEnds` takes the threads with the process and rolls
back what they had open.

### Migrations
The fourteen migrations as what they need, add and drop, and whether they fail
when run twice. A command reads the ledger outside the lock (`Plan`), then runs
one transaction per version (`Begin`, `Change`, `CommitVersion`). `Abort` may come at every statement; SQLite rolls DDL back. Events are appended meanwhile, which the FTS index of version 14 has
to have seen after every order of downgrades and upgrades.

### WalQueue
`StartDrain` evicts dead rows that are old enough and reads one batch; then one
POST per row, whose answer may be a success, a refusal, a failure or lost, and one
`Settle` (DELETE or the attempt counter). Drains overlap and die anywhere.

### Backup
The database is a map from pages to contents, each the transaction that wrote the
page and the rows its table has: a transaction inserts rows, or it updates, and
an update shows in the digest but not in a count. `Held` is what SQLite reads,
the `-wal` pages over the main file. A checkpoint writes its pages one by one
(`WritePage`), and commits, checkpoints and a crash of the server fall between any two steps
of a backup: `StartBackup` (archive absent, `wal_checkpoint(TRUNCATE)` not busy), a
`Count` per SELECT, `CloseCount`, a `Hash` and later a `Pack` per page of the main
file. A restore extracts, moves the old file aside (not its `-wal`), installs and
verifies: `Verify` opens the file, which folds in a `-wal` file that lies about, and
compares digest and counts (`Matches`), nothing else. Any step may be the last.

### Gate
Gates with a lock each and the registry of live ones; threads that run
statements, the checkpoint thread among them; the crosswalk backfill that checks
the registry first; and `rebuild_index`, which reads the newest version outside
its transaction. A row of the corpus has a kind, a `created_at` and its place in the
order of commits, which differ: an ingest stamps its row before it waits for the
write lock. The backfill reads memories and claims with one SELECT each
(`StartScan`), each a snapshot (`snap`); its first INSERT takes the write lock, or
fails if somebody has committed since that snapshot, and until then rows arrive
(`AddRow`). `met` is whom a rebuild ran beside. The two halves share a connection
type but no state.

### Packages
Files with an identity (stat) and contents. Readers load or rebuild the index
file in the code's steps (load, scan, save, resolve, answer), an ingest verifies,
unpacks a second time, commits its audit rows and merges the index; files are
swapped, added and removed at every step, and readers and the ingest may be cut.

### Canary
A recorder writes the audit row and the outcome row in two statements, either of
which may fail. A scrape is four SELECTs and its snapshot is cached; `compute_dod`
reads the two tables with two queries.

### ShadowGate
The counters of `canary_shadow.observe` (attempt first, outcome later) and
`compute_shadow_dod`'s three Prometheus queries at three moments.

### Observers
What `DualReadRouter.query` leaves behind after the answer: counters, the
deduplicated conflict row on a connection whose transaction the caller owns, the
log line, and the reader of the log. Torn lines are joined by the next append.
`write_conflict_event` is a step for each access to what the queries share:
`SaveFactory`, `SwapFactory`, the clock, the look, the insert, `RestoreFactory`. A
look on a connection whose `row_factory` another query has put back to tuples is
`blind`: it finds nothing.

### RollingWindow
The deque shared by both windows of the router: `Stamp` reads the clock before
the lock, `Observe` and `Rate` hold it and trim from the left.

### LlmCall
One lock per process around the whole call, a cache file shared by processes,
attempts per model, then the fallback. An answer is a stop reason, empty text or a
class of error (`_classify_provider_error`). `paid` counts the answers that a
process got for a prompt, `unkept` those of them that left nothing under the
primary's key.

### Extraction
`extract_and_ingest` ingests claim by claim in order and stops at the first
failure; `shadow_write` swallows it. An import reads its index (`ReadIndex`) and is then one
BEGIN IMMEDIATE over its cards (`BeginImport`, `Entry` per card, `CommitImport`).

### Access
The auth modes, the lookup per request, and the token commands, whose selection
of rows by prefix and update are two statements. `"nobody"` is the empty user id:
`token create` takes it, and `current_user_id`, which asks for a value and not for
`None`, then falls back to the user the client names.

### Retrieval
The two SELECTs of a query with their limits and rows written between them, the
merge, the inclusive `until` bound in its three grains (instant, second, day), and
reciprocal rank fusion over every pair of rankings. A time or confidence is a small
number; ties are broken in every way.

### MC modules
`MCKernel` lets either two tenants or the clients of one user act (`Focus`).
`MCServer` bounds the overlap of two instances with audit writes (`Focus`).
`MCMaintenance`, `MCTelemetry` and `MCClients` extend several components that share
no variable: only one of them moves in a behaviour, so that one run explores the
sum of their state spaces. Nothing is lost by it: no action of one reads a
variable of another.

## 4. Runs

| Run | Checks | Bounds, and why they suffice |
|---|---|---|
| Kernel | the state_changed log is a chain from the ingested state to the row, rejected is final; deduplication, orphan rejection, reserved sources, types; only crashes lose a created event, a finished backfill repaired what it found, the rebuild equals the store except for named cases | 3 clients, 4 calls (3 for two tenants): two writers on one claim and one more between their steps; two tenants with both kinds, an external source, hooks and reaffirmations; clients that die at every point while two backfills race an ingest and a transition |
| KernelReplayDoc | expected violation: `replay.py` promises a bit-for-bit rebuild | no crash, one ingest and one transition |
| IdempotencyHandle | one worker at a time, exact reference counts, every extra run has a fault, persisted responses stay, body and status, every request returns | 3 threads (holder, waiter, newcomer), 2 events, 2 locks so that an address is reused, faults of every kind |
| DualReadRequests | canonical answers (refinement), routes follow snapshots except for change traces of bugs, trips are exact and fresh, every request is answered | 3 requests: two trip the breaker, the third spans the trip and the reset; a rate above 49%, so that one good observation of three prevents a trip |
| RollbackControl | no trip on acknowledged evidence, the row follows the state, staleness is bounded, tripped reaches awaiting_ack | 2 threads, a gate of 2 hits that is twice as wide as the trigger's window, failing writes, a loss and a restart |
| RollbackRestartDoc | expected violation: recovery without an acknowledgement | one restart |
| ServerLifecycle | audit batches are whole and have their envelopes only when committed (also as a refinement of `AuditLog`); the journal invents nothing and loses only to faults; nothing hangs | 2 instances, 2 requests, a batch of two and one of one, 2 timeouts; `Focus` keeps overlapping instances and audit writes apart, except for an instance whose drain timed out under its threads |
| Maintenance | migrations, queue, backup, gate, builders, packages | 2 commands over all 14 versions with downgrades to 0, 5, 10, 13; 2 drains over 2 rows with a batch of one; 2 transactions over 2 pages around one backup and restore, so that a checkpoint can stop half-way and an insert and an update differ; 2 gates, 2 threads, 3 rebuilds, a corpus of 3 of both kinds over a limit of 2; 2 files with 4 contents, 2 readers and an ingest, 3 changes of the directory |
| Telemetry | canary rows, exported counters, both gates, conflict rows and log lines, windows | 2 producers over 2 events; 4 shadow attempts; 2 dual-read queries with one torn line, a window of 0 seconds and a clock of two ticks, so that conflicts fall inside and outside it, and both row factories; 3 observations of a window of 1 on a clock of 3 |
| Clients | cache, fallback and release of model calls; extraction and imports; access; retrieval | 3 callers in 2 processes, 2 attempts, whole, cut and empty answers; 2 jobs and 2 imports with 2 items; 2 tokens with one prefix, for two users or nobody, and 2 commands; 3 rows, a limit of 2, a day of 4 and a second of 2 instants, all rankings of 3 items |
| IndexHistoryDoc | expected violation: each rebuild appends a version | 3 rebuilds |
| RowFactoryDoc | expected violation: the owner's `row_factory` is preserved | 2 queries on one connection |

`MCKernel.Focus`, `MCServer.Focus` and `MCMaintenance.Focus` are bounds on which actors
move at the same time, stated beside their definition. `Maintenance` stops where a history
variable has recorded the one excused event (`crossed`, `overtaken`, `mixed`), after
which its properties promise nothing.

Every property of a passing run has a mutant in the module (`...Unguarded`,
`...WithoutRecheck`, ...): the bug that the property is there to find.

**Where the text and the code disagree.** Four statements have a run that refutes
them (`KernelReplayDoc`, `RollbackRestartDoc`, `IndexHistoryDoc`, `RowFactoryDoc`). The others are recorded here; the
properties above state what holds instead.

* `canary/idempotency.py:146-147` says the worker runs at most once; after a failed
  audit write a retry runs it again (`RunsExplainedByFaults`). Line 75 calls a cached
  response one tuple; a lookup reads it with two SELECTs, and an ACK row that is
  completed between them yields status 0 and the response's body. The hit records what
  it read, so that the persisted status may become 0, and the true one again by
  another hit: `PersistedResponseStays` allows this for rows that began as an
  acknowledgement, keeps the body even there, and both halves everywhere else.
* `canary/triggers.py:272-273`: any data loss is said to trip at once; a loss that
  arrives while the controller is tripped or awaits its acknowledgement is cleared by
  the acknowledgement and never trips.
* `server/routes/admin/circuit_breaker.py:43`: `was_tripped` is read before the
  reset; it is false when a handler thread trips the breaker in between, although
  the reset clears that trip.
* `router/circuit_breaker.py:181` and `triggers.py` call their deques ordered by
  time; they are ordered by the lock (`StaleEvidenceIsBounded`, `StaleOnlyIfOvertaken`).
* `replay_events` into a database with only the schema leaves rows whose source is
  missing; `docs/contract.md:29` lists `claim.reaffirmed`, which a deduplicated
  claim does not append.
* `canary/exporter.py:537-538` says that every series is a placeholder zero while
  `store_present` is 0; each query fails by itself, so the rollback state may be real.
* `router/sqlite_gate.py:296`: `is_connection_gated` speaks of any live gate; the
  registry holds the latest gate of a connection only.
* `restore.py:16-17` says that nothing is destroyed silently; transactions that are
  only in the `-wal` file of a server that crashed are not moved aside, and are applied to
  the file that is installed.
* `backup.py:18`: the digest is said to be of the copied bytes; the file is hashed
  first and then read again to be copied. The counts are nine SELECTs at nine moments.
  A backup of a busy server is therefore archived without complaint and may fail its
  verification later. What makes a verified restore good is the digest, not the counts,
  which an update does not move; and even the digest passes a file that was hashed and
  copied while a checkpoint stood half-way (`VerifiedIsAMoment` names it).
* `index.py:15-16` and `62-63` say that each rebuild appends a row and earlier versions
  stay; two rebuilds that meet write one version (`IndexHistoryDoc`).
* `router/crosswalk_backfill.py:98-99` speaks of re-runs and of a batch limit; re-runs do not
  get past the limit, every row they examine counting against it (`BackfillStopsAtLimit`).
* `events/conflict_writer.py:296-300` says that the caller's `row_factory` is preserved
  (`RowFactoryDoc`). With the owner's factory `sqlite3.Row`, which `sqlite_store.connect`
  sets, nobody is blinded; `server/routes/query.py:162` gives the router no events
  connection at all.
* `llm/call.py:924-926` says that a herd dispatches once and line 979-980 that fallback
  results are cheap to re-serve; no call looks a fallback's row up on the primary's
  behalf, so that a herd on a rate-limited primary pays for each, and so it does for a
  truncated or blocked answer (`HerdAsksOnce` is what holds).
* `docs/deploy.md:28` says that a token can only act as its own user. A token made for the
  empty user id acts as whatever user the client names (`server/auth.py:319-330`,
  `cli.py:647-669`); `ActsAsTokenOwner` excepts it by name.
* A request of a change trace of a bug is `skipped` under any snapshot
  (`router/dual_read.py:236-267`); `SnapshotDecides` excepts it by name.
* `router/dual_read_decision_log.py:228` says that a partially-corrupt previous line
  does not block the new write; the new line is joined to it and unreadable too.
* `docs/architecture.md:100` calls `by_entity` an exact subject match; its LIMIT cuts by
  confidence before exact matches are scored (`BestIsNotMissed` names the exception).

**Fairness.** `Idempotency` assumes weak fairness of each thread's own next step:
Python schedules every runnable thread, and workers terminate (the code waits for
them without a timeout). With three threads a weakly fair `Enter` is enough
because requests are bounded. `DualRead` assumes it of the handler threads and of
the canonical query, which the code awaits without a timeout, and of nothing the
secondary does. `Rollback` assumes that the scheduler keeps calling
`evaluate` (strong fairness of reading the clock, because other threads compete),
that a thread that has read the clock gets the lock, and that time passes.
`Server` assumes it of the drain loop, which polls against a deadline, of the
recording, and of a thread's statements, which return or raise within SQLite's
busy timeout; never of a request's end. `LlmCall` assumes it of a thread's own
steps and of taking the lock, which is granted in the end because calls are bounded. It
assumes nothing of providers: `_call_ollama` sets a timeout, `_call_gemini` makes and
calls its client without one (`llm/call.py:548-555`) and so may hang under the lock.
`CallEnds` says what is left: if the requests of a process's own threads end, its calls
do, whatever those of other processes do. The other components have no
liveness property: their actors may crash or stop anywhere.

**Deadlock** is not checked where the bounds on calls, requests and samples stop
the system by design.

## 5. Proofs

Eight modules of proofs hold for every value of the constants, under the named
assumptions of the modules: `StoreAssumption`, `IdempotencyAssumption` (finite
threads, distinct sentinels), `DualReadAssumption` (a positive
`MIN_OBSERVATIONS`), `RollbackAssumption` (finite windows, below `OldAge`),
`WorkersAreRequests`, `BatchesAreFresh` (calls do not share rows: message ids are
fresh ULIDs), `DrainAssumption` (finitely many instances), `WalAssumption` and
`ShadowAssumption` (finitely many drains and threads), `LlmAssumption` (at least one
attempt), `AccessAssumption` (no user is called like a status), `ContentsAssumption`
(what is trusted verifies), `ObsAssumption` (no query is called like a missing one),
`CanaryAssumption` (finitely many stages), `MissingAssumption` (a file that is not there
cannot be read) and `RetrAssumption` (finitely many candidates, a day and a second that
are not empty); the assumptions of the other modules only give their bounds a type.

**KernelStore_proofs.**
* *Types and locals* (`TypeCorrect`, `StoreIsSound`). `TypeOK` is not inductive:
  `StampCreated` and `UpdateClaim` dereference rows that another step read.
  `TypeInv` adds `JobsMatchTables` (the row a call refers to exists, belongs to the
  call's user and can make the planned move of the matrix) and `StampsArePast`;
  `SourceInv` adds that a call past `EnsureSource` has its source.
* *Three shapes of steps* (`StepShape`). Every step appends audit events
  (`Audits`), inserts a row with a new key (`Inserts`) or moves a claim along the
  matrix with a fresh stamp (`Moves`). The other theorems need only this:
  `OrphansRejected`, `ContentStaysUnique`, `RejectedStaysRejected`, and
  `LogMatchesRows`, whose invariant `LogInv` combines the chain and the agreement
  with the row, because the move's compare-and-set on the row's state is what links
  the new event to the last one.
* *Created events* (`CreatedIsLostByCrashOnly`, `ChainsStartAtBirth`,
  `BackfillRepairs`). What a call `Owes` is handed over only by logging it, so a row
  without its event belongs to a call that runs or died. `BirthInv` says that what an
  ingest bears or has logged is how the changes of the row begin, even when they come
  before the created event. `BackfillInv` says of every row from before the start of
  a backfill that it has its event or is among the rows still to be written.
* *The rebuild* (`RebuildsAreFaithful`). `StampInv`: stamps lie in the past and no event
  has those of another, so the log is finite and totally ordered, a part of it has one
  latest event, and the recursion of `Replayed` has a solution (`ReplayExists`).
  `PayloadInv`: until the first change of a row, the payload of its created events,
  and what a backfill has read of it, is the row. `ReplayYields` says what any part of
  the log replays to: the rows with a creation in it, each as its last change left it
  or, if every change was replayed before the row was there, as it was created. A
  smallest part that did not would differ from a part that does by its latest event
  (`SmallestPart`, `ApplyYields`). With the agreement of log and row, the sources that
  every row has, and what is known of lost created events, the promises follow.

**Idempotency_proofs.**
* *Locks* (`LocksAreSafe`). Mutual exclusion does not follow from the lock alone,
  since the lock of an event changes when its entry is dropped. `LockInv` states
  that the entry counts exactly the threads that refer to it and that all of them
  refer to the same lock, that the position of a thread decides whether it has a
  reference, and that a thread inside is the holder.
* *Runs* (`RunsArePaidFor`). `RunInv` strengthens the bound per event: while no
  response is persisted and none is on its way, every run so far has cost a fault.
  A thread reaches the worker only through a miss inside the lock, when it is
  alone, so the run it starts is the one that the bound leaves free.
* *Responses* (`ResponseIsKept`). `StayInv`: as long as no lookup of an event failed,
  a thread that answers from the log holds the body the log holds, and one at the worker
  found no response; a thread that records a new response is alone with it. A second
  invariant pairs the status of the log, and the one in a thread's hands, with that body:
  they agree, or the row began as an acknowledgement and the status is its 0 (`Pairs`).

**DualRead_proofs** (`DualReadIsCanonical`, `BreakerIsSafe`, `SnapshotsDecide`).
`IInv` adds to the properties that all of the window is fresh, that the position of
a request decides which way its snapshot sent it, that a request past its
canonical query has a result and that none but a finished one is answered. The
last two make every step a step of `CanonicalRead` or a stutter.

**Rollback_proofs** (`TripsAreOnFreshEvidence`, `DashboardFollows`,
`StaleIsBounded`). The deques are not sorted, only nearly: an entry is older than a
later one by at most the wait for the lock. This is inductive together with the
bound on the ages that threads carry, and it is what makes eviction from the left
leave only samples that are too old by that wait. The evidence invariant counts
what an acknowledgement has cleared, the durable row's invariant which write is
still to come or has failed.

**Server_proofs.**
* *Audit database* (`AuditIsSafe`, `AuditImplementsLog`). To the audit database
  every step of the server is a worker's step, a repair, or threads that end
  (`AuditStepShape`). `AuditInv` adds that a call and its batch belong together
  (`CallsOwnBatches`), that rows are staged only in an open transaction and only of
  its own call (`StagedIsOpen`), and that the table holds of a batch what its call's
  position says (`TableMatchesCalls`). The second is why a failed ROLLBACK does no
  harm: its rows stay in a transaction no later call can use. A COMMIT then appends
  one whole new batch, the step of `AuditLog`.
* *Journal* (`JournalIsSafe`). Neither property is inductive: `ReplaceJournal` writes
  a total that was computed earlier. `JournalIsBounded` relates the file, the drafts
  and the timeouts still on their way (`Pending`); `FaultlessIsExact` adds that
  without a fault only one instance drafts, on top of the file as it is.

**Maintenance_proofs.**
* *Offline queue* (`QueueIsSafe`). For a row that nothing disturbed `Once` says that
  one drain has it and that it arrived at most once, just before that drain settles it
  for good; a second drain, a death after the answer and a lost answer are exactly what
  makes a row disturbed. `AttemptsInv` counts the drains that will still try a row,
  which bounds the attempts although they may exceed the limit. That a batch has a
  first row is well-foundedness of finite sets (`LeastElement`).
* *Migrations* (`MigrationsAreSafe`). `Sound` is the agreement of schema, ledger and
  search index. It survives one version up or down only next to what the plan says
  (`PlanInv`): of an upgrade's versions only those already applied are missing from it,
  and a downgrade has removed its versions from the newest on. `DownIsInverse` is the
  fact about the fourteen migrations that this rests on: `down()` of the newest version
  of a ledger takes away what `up()` added and no more. A plan made before another
  command's downgrade is what `crossed` records.
* *Backup* (`BackupsAreSafe`). A page's content names the transaction that wrote it, so
  contents are ordered, and no page of the main file ever goes back (`CheckpointInv`). A
  page that was hashed and is copied later with the same content was that all the while;
  so a digest that matches the copy is the main file as it was when the last page was
  hashed, which is a moment of the database unless a checkpoint stood half-way then
  (`BackupInv`, `ArchiveInv`). `QuietInv` is the converse: with no commit since the
  checkpoint at the start, counts, digest and copy are of one content. `RestoreInv`: the
  operator's state is the main file until the step that moves it aside.
* *Gate* (`ConnectionIsUsedAlone`, `BuildersAreSafe`). Without a second gate the
  registry holds every live gate, so that the backfill's look at it decides; threads of
  one gate exclude each other. `FillInv` counts what the scan has seen, so that a row
  it maps has fewer than `BatchLimit` elders that came before it; rows that arrive
  between the two SELECTs are in neither `start` nor the way. `IndexInv` says that a
  rebuild's version is beyond those of all that had returned before it, so that two with
  one version have met.
* *Packages* (`PackagesAreSafe`). `ReadInv` says at each step of a read what it knows
  of the packages that have stood still since it began: none is forgotten, what was
  unpacked is what is on disk, and a scan that went past a package has its entries.
  `GoodRec` says what an index record that matches the present identities vouches for,
  saved or still in an ingest's hands.

**Telemetry_proofs.**
* *Shadow gate* (`ShadowIsSafe`). The threads between the two increments are
  exactly the gap between attempts and outcomes; the numerators of a report are not
  below what the counters were when its denominator was read.
* *Rolling window* (`WindowIsSafe`). What is left after a trim begins with an
  observation that is not stale (`TrimmedBegins`), by the least position that stays.
* *Observers* (`ObserversAreSafe`). A row that is still there was clear, within the hour, of every
  row its query saw (`Clear`), also while other queries insert and the owner commits or
  rolls back, unless its look was blind; and with the owner's factory `sqlite3.Row` every
  factory that is set, saved or restored is that one, so that no look is. The torn lines are counted against the joined ones with one in reserve
  while the last line has no end.
* *Canary* (`CanaryIsSafe`, `CountersFallRarely`). `LedgerMarks` and `DurationMarks` turn the
  sum of a snapshot's counts into the size of a set, one mark for every row that was
  counted, so that what was certified maps into it one to one. `ScrapeInv` follows the
  snapshot query by query: what ran agrees with the tables if no row has landed, and
  is not above them as long as no row was recorded again; `ServedInv` orders the served
  snapshot before the one in progress, which is the action property.

**Clients_proofs.**
* *Model calls and access* (`CallsAreSafe`, `AccessIsSafe`). For the cache: whoever is past the
  look holds the lock alone, and every answer its process has paid for the prompt so far
  is one that was not kept (`HerdKept`), but for the one in its hands; and an answer on its
  way to the cache was said by the model of its key.
  For access: a request past the lookup has a live token that was not dead when it was
  sent, tokens are never renamed, and a revoke command holds a row it has shown.
* *Extraction and import* (`ExtractionIsSafe`). The ids of a job are those of a
  prefix of its plan, and what is held is never moved. The import whose transaction is
  open is the only one, its copy began as the table, and it has counted the files that
  the copy has more.
* *Retrieval* (`RetrievalIsSafe`). `Covers` says that a half of a query does right by a
  row: it has a hit at least as good, or `limit` hits at least as good, or
  `by_entity`'s cut by confidence struck (`Outranked`). The scores are fixed when a half
  is read, and later ones only fall (`ScoreFalls`), so that it stays true while rows are written; the
  merge keeps it (`MergeCovers`). A bound that names a day or a second reaches its end
  (`GrainIsWhole`), and two rankings that agree on a pair have a sum of reciprocals that
  agrees (`FractionFalls`); an order of the candidates is a permutation because it is
  injective on as many ranks as there are candidates (`OrdersAreWhole`).

The theorems of these three modules are about the specifications of the components
themselves (`WalSpec`, `MigSpec`, `BkSpec`, `GateSpec`, `PkgSpec`, `ShadowSpec`,
`WindowSpec`, `ObsSpec`, `CanarySpec`, `LlmSpec`, `AccessSpec`, `ExSpec`, `RetrSpec`),
without the turns of the MC modules and without their stop at an excused event.

**What the proofs found.** Definitions changed where a proof did not go through.
* `BadPackageFailsReads` held in the run only because `Maintenance` stops at an excused
  event. An ingest whose package is swapped after it verified goes on to save an index
  record with the identity of the new file, which nobody has verified; a reader that is
  served by that record succeeds. The property now excuses `mixed`, as
  `AuditedWereTrusted` did.
* `Score` had CASE arms that overlap, whose value TLA+ leaves open although TLC takes the
  first; the arms of `EventScore` and `ClaimScore` exclude each other.
* `Apply` tests the sources table for the source of a created row, as the foreign key
  does, where it tested membership in the set of all source names; and `Replayed`
  recurs over parts of the log instead of folding a sorted sequence.
* `Parsed` is a recursive function over the answer instead of a `SelectSeq`, and
  `CertifiedIsExported` counts marks instead of summing; both mean what they meant.

**Only model-checked.** Liveness (`EveryRequestReturns`, `EveryRequestAnswered`,
`TrippedAwaitsAck`, `ServerSettles`, `CallEnds`): fairness and ENABLED are outside the
prover's reach. That a `WalQueue`, `Canary` or other
component behaves the same beside its neighbours of an MC module is by construction:
they share no variable.

## 6. Not modelled, and why

* In-place replay, which the code keeps for tests; the rebuild into another database,
  its production path, is modelled.
* Router contracts, adapters, crosswalk seed, the shadow report, export, resolver,
  canonical JSON: one pass from rows to values, no state that outlives the call.
  Crosswalk rows are written by the backfill, which is modelled.
* The remaining queries of `retrieve.py` are a single statement or have the shape
  of a modelled query; hints, near misses and formatting are left out.
* Routes other than those of the dual read and the authentication parse and format
  around calls modelled here. The viewer, metrics and introspection pages read.
* The canary drill is a single-threaded script over the modelled controller and
  recorder. The other commands of `cli.py` call modelled code and print.
* Upload and download of backups, providers, HTTP and Prometheus are external; what
  they may answer is an input.
* Payload columns that nothing updates are part of a row's identity. Hashes are
  assumed not to collide, ULIDs to be unique.
