# A TLA+ verification of rice-factor

rice-factor develops software in gated steps: an LLM proposes artifacts (plans
as JSON files), a human approves them, tests are locked, and only then are
diffs generated, reviewed and applied. The state of that workflow lives in
files of the project directory that short-lived CLI commands and a resident web
server share, and nothing takes a lock. Around it stand services that work in
one process: limits, budgets, caches, parallel tasks, connections, transactions
over files. This project models that state: who may change what in which order,
and what survives overlapping commands, failures and crashes.

Paths below are relative to `src/rice_factor/`, `web:` to
`src/rice_factor_web/backend/`.

## 1. The system's parts

| Part | State | Operations | Status here |
|---|---|---|---|
| **Artifact store**: `domain/services/artifact_service.py`, `adapters/storage/{filesystem,approvals}.py` | one JSON file per artifact; `approvals.json`; each process's copy of the approvals; the migrations' backups | create, modify, review/extend, approve, lock, revoke, migrate, roll back | `ArtifactStore`, `ArtifactLifecycle` |
| **Diff workflow**: `domain/services/diff_service.py`, `adapters/executors/diff_executor.py`, commands `impl`, `review`, `apply` | `audit/diffs/_index.json`, one `.diff` file per time and target, the repository | generate, save, approve, reject, check, git apply, mark applied | `DiffWorkflow` |
| **Phase gate**: `domain/services/phase_service.py`, `context_builder.py`, the commands' `_check_phase` | none of its own: computed from the artifacts | admit or refuse a command; serve or refuse a compiler pass | `PhaseGate` |
| CI approval verification: `adapters/ci/approval_verifier.py` | reads the artifact store | verify | a formula of `ArtifactStore` |
| Artifact builder and passes: `domain/services/artifact_builder.py` | none | build, save a draft | in `PhaseGate` as far as it admits and saves |
| Web API for artifacts and approvals: `web:api/v1/{artifacts,approvals}.py` | one `WebServiceAdapter` per worker, for ever | approve, lock, revoke | a resident process of `ArtifactStore`; steps past the gate in `PhaseGate` |
| Web API for diffs: `web:api/v1/diffs.py` | `.status` files beside `diffs/<id>.diff` | approve, reject, comment | not modelled: no other part reads its verdicts |
| Test lock: `adapters/storage/lock_manager.py`, `domain/services/safety_enforcer.py` | `.project/.lock` with a hash per test file | lock, check, remove | `TestLock`; its check is also a guard in `DiffWorkflow` |
| Rate limiter: `domain/services/rate_limiter.py` | request and token buckets, the day's tokens, requests under way; one lock | acquire, release, reset, configure | `RateLimiter` |
| Cost tracker: `domain/services/cost_tracker.py` | records, caps, thresholds; one reentrant lock, handlers called inside it | record, add or reset thresholds, clear | `CostTracker` |
| Parallel executor: `domain/services/parallel_executor.py` | a flag that all calls share | execute_sync, execute_async, cancel | `ParallelExecutor` |
| WebSocket manager: `web:websocket/manager.py` | connection list under an asyncio lock | connect, disconnect, broadcast | `ConnectionManager` |
| In-process cache: `adapters/cache/artifact_cache.py` | LRU map with expiry | get, set, delete, invalidate, cleanup | `MemoryCache` |
| Redis cache: `adapters/cache/redis_cache.py` | entries and a set of keys per hash on a server | get, set, delete, invalidate, clear | `RedisCache`; the server is external |
| LSP client and memory manager: `adapters/lsp/{client,memory_manager}.py` | a server process, a monitor thread | start, stop, kill | `LanguageServer`; the messages are not modelled |
| Cross-file transactions: `domain/services/cross_file_refactorer.py` | the files, what is needed to undo | commit, rollback | `CrossFileRefactorer` |
| LLM orchestrator and provider selector: `adapters/llm/{orchestrator,provider_selector}.py` | enabled providers, strategy, rotation | execute, enable, disable | `UnifiedOrchestrator` |
| Lifecycle orchestrator: `domain/services/lifecycle_orchestrator.py` | a state file | execute, advance, skip, run to a phase, resume | `LifecycleOrchestrator` |
| Overrides: `domain/services/{override_service,override_scope_manager}.py` | a log; records and CI flags, each a file read once and written whole | record, register, flag, reconcile | `OverrideService`, `OverrideScopeManager` |
| Incremental validator: `domain/services/incremental_validator.py` | a file of hashes, read once and written whole | validate, invalidate | `IncrementalValidator` |
| Schema migration: `domain/services/{artifact_migrator,schema_version_manager}.py` | artifacts, backup directories | scan, migrate, rollback | `ArtifactMigrator` |
| Batch processor, scaffold and refactoring executors, agents and run modes, lifecycle policies, drift, validators, CI pipeline, audit log, cloud storage, LLM adapters, parsing and refactoring tools, metrics, notifications, docs, user interfaces | | | not modelled: see section 6 |

How they interact. A CLI command is one process: it builds its services, which
read files, asks the gate, prompts the user, changes files through the
services, and exits. A web worker is one process too, but it is never rebuilt
between requests, so its `ApprovalsTracker` remembers what it read at its first
request. All communication is through the files. There is no lock, no version
check and no rename: `write_text` and `open(.., "w")` truncate and then write.
Inside one worker no handler awaits between its reads and writes of artifacts,
so operations interleave between processes and never within one. The services
of one process share no state with each other (the limiter does not ask the cost
tracker, and no cache stands in front of the store): they are composed of
threads, coroutines, callbacks and an external party each, not of one another.

What is hard here, and where the properties are aimed (`PROJECT.json` lists
each hazard at its line): a copy saved after somebody else's write; an answer
to an old prompt; a crash between two writes that belong together; a file that
is read between a truncation and its write and counts as empty; three different
lookups that should find the same diff; a gate that is computed anew from
artifacts which other processes change; a workflow that must be able to
finish. In the services: counts that go up and down on different paths; a
callback inside a lock; a flag that several calls set and clear; a list that is
read across an await; undoing after a failure in the middle; several files, or
one file and a memory, that must agree when a process ends between two writes.

## 2. What is modelled

### ArtifactLifecycle (abstract)

What a user is promised of one artifact: absent, draft, approved, locked, with
payload changes in draft only, locks of TestPlans only and for ever, and loss
(a torn file) possible for what is not locked. Where migrations are run
(`Migrations`), copies are kept of an artifact in any state (`Keep`), any of them
may be brought back (`Restore`), and a locked artifact can be lost too.

### ArtifactStore

| Model | Code |
|---|---|
| `file[a]` | the JSON file of artifact `a`: status and a payload revision, `empty` after a truncation, `garbage` when two writes overlap |
| `records` | `approvals.json`: the ids with a record, or torn |
| `mem[p]` | `ApprovalsTracker._approvals` in process `p`, read in `Start` |
| `pc, kind, target, seen, copy` | the operation `p` is in: which, on what, the copy it loaded, the copy it will save |
| `Begin` | the load and the checks of `approve`, `lock`, `modify`, `revoke_approval` (`Permits`), the new envelope (`Result`); `create` is the builder's save, `review` is `artifact review` and `artifact extend`, which save the loaded artifact with new dates |
| `Begin` of `migrate` | `artifact migrate` (`migrations/add_timestamps.py`) and the rewriting of one artifact by `migrate run` (`artifact_migrator.py`): a load and a save of any artifact that is `Outdated`, whatever its status, with nothing said to the approvals tracker |
| `BackUp`, `BeginRollback`, `backups` | the copies `migrate run` makes, which may be cut short, and `migrate rollback`, which puts one back over whatever is there |
| `OpenArtifact`, `WriteArtifact` | the two halves of `FilesystemStorageAdapter.save`, and of the migrations' `write_text` |
| `OpenRecords`, `WriteRecords` | the two halves of `ApprovalsTracker._save`; `approve` comes here after the artifact, `revoke_approval` before |
| `Exit`, `Crash`, `Fail` | a command that ends without a change; a process that dies at any step; a write that raises in a web worker, which answers with an error and lives on with what its tracker had meant to save |

`Serialised` says whether commands may overlap, `Resident` which processes are
web workers, `Approver` which ones approve, `Migrator` which CLI processes run
the migration commands. `modify` has no caller in the repository, so `Editor` is
a parameter. History variables: `signed` (revisions an approval was given for),
`erased` (records a web worker saved over that its tracker had never read),
`restored` (artifacts a rollback put back), `cut` (an operation was cut short).

### DiffWorkflow

| Model | Code |
|---|---|
| `index`, `torn` | `_index.json`; `torn` between `open(.., "w")` and the write, or when two writes overlap |
| `texts` | the `.diff` files, by target: `_generate_stub_diff` makes the text from the target's name |
| `target`, `generated` | the diffs, numbered in the order of `created_at` |
| `repo` | whether a target's text has been applied; a second `git apply` of it fails |
| `Generate`, `SaveText`, `AddToIndex` | `impl`: `generate_diff`, then `save_diff` with its two writes |
| `Review`, `Decide` | `review`: `load_pending_diff`, the prompt, `approve_diff` / `reject_diff`, which load the index again |
| `Apply`, `Check`, `GitApply`, `Mark` | `apply`: `load_approved_diff` and the search for the `.diff` file; `DiffExecutor._execute_pipeline` up to `git apply`; `_git_apply`; `mark_applied` |
| `OpenIndex`, `WriteIndex` | the two halves of `_save_index`, with the index loaded before |
| `Stop` | every early exit, refusal, failure and crash |

`Occurs` is the substring test on file names: `<<f, g>>` when the safe name of
`f` occurs in the name of `g`'s `.diff` file. `Flat` are the targets without a
directory, the only ones the executor's own lookup finds. `Test` are the
targets that match `TEST_FILE_PATTERNS`; the tests are locked when the model
starts, since `impl`, `review` and `apply` are commands of the last phase.

### TestLock

| Model | Code |
|---|---|
| `content[f]` | a test file; a number stands for a content and so for its hash, 0 for a missing file |
| `status[t]` | the status of TestPlan `t` |
| `lockfile` | `.project/.lock`: none, torn, or whole with a hash per file (0: none) |
| `pc, chosen, listed, hashes` | a command under way: the plan it locks, the files it has still to hash, the hashes it has |
| `Edit` | a developer writes, changes or deletes a test file, at any moment |
| `Prompt`, `Confirm` | `lock` up to its question; the answer, and the look at which of the ScaffoldPlan's test files exist |
| `Hash`, `OpenLock`, `WriteLock` | `LockManager.lock_test_plan`: the hashes, in any order, and the two halves of `_save_lock_file` |
| `LockArtifact`, `FailToLock` | `ArtifactService.lock`, and the `except` clause that calls `remove_lock` |
| `StartWork` | `plan impl`, `impl` or `apply` past `check_test_lock_intact` (`Intact`) |
| `Approve`, `Revoke`, `WebLock` | the same status changes as in `ArtifactStore`, of TestPlans |
| `Stop` | a cancelled, failed, finished or killed command |

`TestFile` are the files the newest ScaffoldPlan lists, taken as fixed. The
check of all files and the look at which exist are one step each: an edit
between two of their reads is an edit before or after. A new draft and the torn
artifact file are `ArtifactStore`'s subject. `baseline` and `byCLI` are history:
the contents that each plan was locked with, and which plans `lock` locked.

### PhaseGate

| Model | Code |
|---|---|
| `initialised`, `has` | `.project` exists; which statuses artifacts of each type are in |
| `Phase`, `Required`, `Admits` | `get_current_phase`, `COMMAND_PHASES`, `require_phase` |
| `PhaseFor(c)` | the phase that command `c` computes: without an `ArtifactService` it is `INIT` for every initialised project |
| `Served(c)` | `ContextBuilder.validate_inputs` on the artifacts the caller hands over; `_is_artifact_type` accepts any of them for any type |
| `Plan`, `Scaffold`, `Approve`, `Lock`, `Work` | the commands |
| `WebLock`, `Revoke` (and `Approve`) | the web API, which asks no gate |

`Informed` and `Supplies` are the wiring: which commands hand an
`ArtifactService` to their `PhaseService`, and whether commands hand artifacts
to the builder. As the commands are written, `Informed` has only `validate`,
`resume` and the `refactor` group, and `Supplies` is FALSE.

**A consequence for the other modules.** With that wiring every command beyond
`INIT` is refused (run `gate_asbuilt`), so today a TestPlan is locked through
the web API or the services, and `impl`, `review` and `apply` run only with
their `_check_phase` patched, as their unit tests do. `ArtifactStore` and
`DiffWorkflow` model the services and commands behind the gate.

### RateLimiter

| Model | Code |
|---|---|
| `concurrent`, `requests`, `dayTokens` | `_concurrent`, the request bucket, `_daily_tokens` of one provider; each provider has its own |
| `Allowed`, `Crowded`, `CheckDay` | `check`: the order of its limits matters, since only a check that comes as far as the daily limit zeroes an old day's counter |
| `Ask`, `Admit`, `Degrade`, `Refuse`, `TimeOut`, `Poll` | `acquire` and the outcomes of one check; a blocked caller is the loop of `_acquire_blocking` |
| `Release` | `release`, by a counted request or a degraded one, with any number of tokens used: what `acquire` was told is only an expectation, and 0 if nothing is said |
| `SetStrategy`, `Configure`, `Reset` | the setters and `reset`, which may come while requests are under way |
| `Refill`, `EndOfDay` | time |

`loose` is history: a request was degraded, the limits were disabled, or
`reset` came while requests were under way. `NoSlotLost` does not except it,
`LimitHolds` and `DayBudget` must. `overdrawn` is history too: a request used
more than it had declared. `MaxUse` bounds what one request uses, and the first
half of `DayBudget` is in terms of it; the second, in terms of what requests
declare, holds until one is overdrawn. A `release` without its `acquire` is not
modelled. Only whole tokens of the request bucket are
kept.

### CostTracker

A record is checked against the caps, added, and compared with the thresholds
of the day, then of the month. `stack` holds the comparisons under way: the lock
is reentrant and handlers are called inside it, so a handler's own `record`
starts a comparison inside the one that called it. `Alert` is one threshold that
is found exceeded and marked; `NextPeriod` ends a period of a comparison or the
comparison. `alerts` and `uncompared` are history.

### ParallelExecutor

| Model | Code |
|---|---|
| `cancelled` | `_cancelled`, one for all calls, cleared by each call that begins |
| `StartTask` | a thread of a sync call's own pool takes a task, or a coroutine gets the semaphore of its async call and reads the flag; it then runs the task on the event loop's pool, which all async calls share, so that `running` includes a wait for a thread |
| `Collect`, `ReturnSync` | the `as_completed` loop of `execute_sync`; leaving the `with` block waits for all tasks |
| `ReturnAsync` | `execute_async` after `gather`: results, then `fail_fast` |
| `Cancel` | `cancel`, by anybody at any time |

### ConnectionManager

One step per await: `Accept`, `Connect` and `Disconnect` (under the lock),
`TakeLock`, one `Send` per listed client, `EndBroadcast`. `Break` breaks a
connection at any time, `Notice` is the endpoint's receive that raises. A
broadcast walks the live list by position, as Python's iteration over the list
does. `audience` and `got` are history.

`Lists` has the operator these three components share: what is left of a list
(connections, the cache's order, providers or agents) without some of its members
(`ConnectionManager`, `MemoryCache`, `UnifiedOrchestrator`).

### MemoryCache and RedisCache

`MemoryCache`: every operation is one step under the lock; `order` is the
OrderedDict's. `since` is history: the keys used since a key was.
`RedisCache`: every command to the server is one step, `busy[p]` is the next one
of the operation process `p` is in; `Fail` gives an operation up, which is
what the adapters' `except` clauses do. The server drops an entry with a time to
live; the entry also holds its own deadline. `mixed` is history: operations
overlapped or one was given up.

### LanguageServer

Each start makes a process, a manager and a monitor thread, all numbered alike.
`LSPClient.start` and `stop` are split where they wait; the thread's look at the
memory, its kill and its end are steps of its own; the server may end by itself
at any time. Without psutil (`Psutil`), which is no dependency of the project,
managers cannot watch and `stop` cannot kill: `NoOrphanServer` is claimed with
it only.

### CrossFileRefactorer

`file` abstracts a content to whose it is, and one text to two contents, with the
platform's newlines and with others (`foreign`): `read_text` and `write_text`
translate them (`Normal`), so what is kept for the rollback is the text and not
the file. `ExecuteOperation` is one operation with its checks (`Feasible`) and
its effect, `FailOperation` and `TearOperation` one that fails before or half-way
(a write that was begun; a `shutil.move` between file systems that has copied,
wholly or in part, and not removed), `Undo` one step of `_rollback_operations`,
`FailUndo` one that is swallowed, having done nothing or half. `lossy` marks what
cannot be undone: a move over a file, an operation that failed half-way, a failed
undo, a second rollback. `AllOrNothing` claims every file's text, and the file
itself where no completed operation modified or deleted one.

### UnifiedOrchestrator

`left[r]` are the providers or agents that request `r` has still to try in this
pass: the list is fixed when the pass begins, as `_get_fallback_order` returns a
copy, while `SetEnabled`, `SetStrategy` and successes of other requests change
the selector. `NoApi`, `ApiFails` and `CliFails` take the fallback that is
configured, the second only with a working directory.

### LifecycleOrchestrator

`stateFile` is the file, `runState` what the process has of it, `place` where the
process stands: `execute_phase` is a write (`BeginPhase`, `SaveAndCall`), the
handler (`HandlerEnds`, with any `PhaseStatus`; those that are neither completed
nor failed make no difference and are one, `unfinished`), and a second write
(`SaveResult`). `RunToPhase` and `RunOn` are the loop of `run_to_phase`, which
stops at a failure only; `Advance`, `ExecutePhase`, `SkipPhase`, `StartRun` and
`Resume` are the other entry points, and `StartAnew` the start each of them makes
where there is no state. `EndProcess` may come at any moment, also after the
handler and before its result is written, and leaves a torn file if it comes
within a write; `FailToSave` is a write that raises, after which the process goes
on with what it has in memory. A file that cannot be read is no state
(`LoadState`, `lost`). Processes do not overlap: its caller is the user's `batch`
command, one at a time. `reached`, `saved` and `attempted` are history: phases
whose handler ended well, those of them of which this was written, and those the
present `run_to_phase` has executed.

### OverrideService and OverrideScopeManager

Both read when they are made and write whole. In `OverrideService` a command is
one process with one change; in `OverrideScopeManager` a manager serves many
calls and each writes the records, then the flags, either of which may fail,
before the file was truncated or after (`FailRecords`, `FailFlags`), and the
manager goes on with what it has in memory: `FlagAgain` is a `flag_for_ci` that
finds its flag there and writes nothing. A file that cannot be parsed is loaded
as an empty one, so that is what a torn file is. A process that is killed inside
a write is one whose write fails and that then ends. `disturbed` and `shared` are
history: commands overlapped or a write was torn; two managers were in use. So
are `unsaved`, the files that a failed call has left to be written, `forgotten`, a
process ended in spite of one, and `granted`, the overrides a call has returned
for.

### IncrementalValidator

`validate` file by file: `CheckFile` hashes and compares, `Remember` records the
hash that was compared, `SaveHashes` writes all, `ReturnResult` tells the
caller; `Edit` changes a file at any moment. Several validators share the file
of hashes. `examined` and `unreported` are history: the contents that were
returned as changed, and those a validation found that never returned.

### ArtifactMigrator

`Scan`, then after the confirmation `ExecuteMigration`, then per artifact
`Backup` and `Migrate`, either of which may fail or be torn. A backup directory
is named by the second its run began in. `RollbackMigration` puts back any part
of a directory. A stored artifact is old, new, migrated twice, or torn. What a
migration does to statuses and records, and a rollback that is cut short within a
file, are in `ArtifactStore`.

## 3. What is checked

Most runs take seconds, `services` and `workflows` one to two minutes each.
`CHECK_DEADLOCK FALSE` stands only where the system may really stop: in the runs
of `DiffWorkflow`, when all diffs are decided or the index is torn, and in
`services` and `workflows`, whose calls, commands, runs and starts are finitely
many and may all have ended.

| Run | Instance | Shows |
|---|---|---|
| `store_serial` | one CLI process and one web worker, both approving, a TestPlan that migrations may rewrite and another artifact, no overlap, crashes and failed writes anywhere | `TypeOK`; `RecordsBacked`: a record in `approvals.json` never stands for a draft, although the two files are written one after the other, unless a rollback brought the draft back; `CIPassesAtRest`: with nothing under way and nothing cut short, CI finds every approved artifact recorded, except what a web worker saved over without having read it and what a rollback put back: nothing else loses a record; `LockedForever`: nothing but a migration command changes the file of a locked artifact; `ImplementsLifecycle`: refinement of `ArtifactLifecycle` |
| `store_race` | one artifact, CLI and web interleaved at every file-system call, both editing | `OnlySignedPayloads`: whatever stale copies are saved, nothing is approved or locked with a payload no `approve` was given for |
| `store_overlap` (violation) | the same without editing and migrations | `LockedForever` fails when commands overlap |
| `store_stale` (violation) | as `store_serial`, without editing and migrations | `ApprovalsOutlast` fails: a web worker saves over the record of what the CLI has approved since the worker read the file, with nothing overlapping and nothing cut short |
| `diff_serial` | three diffs, two processes one at a time, three files | `TypeOK`; `VerdictsFinal`: rejected and applied are final; `FlatMarkedAtRest`: what was applied is marked, for targets without a directory, unless a command died in between |
| `diff_race` | two diffs, two processes interleaved at every step, torn index | `OnlyReviewedCode`, `TestsUntouched`, `AppliedIsReal` |
| `diff_inside` (violation) | `main.py` and `test_main.py`, one process | `TestsUntouched` fails by the substring lookup |
| `gate_informed` | the gate as meant | `TypeOK`; `ChainOfApprovals`; `TestLockedStays`; `WorkflowCompletes` under fairness |
| `gate_asbuilt` (violation) | the gate as wired | `WorkflowCompletes` fails |
| `testlock_sole` | one TestPlan, two test files, two users and the web API, edits at every step | `TypeOK`; `LockedAreHashed`: the hashes taken by `lock` stay, whatever is cut short or retried; `WorkOnLockedTests`: a command starts only on the tests that were locked |
| `services` | ten components, each explored by itself (`part`): three callers on two slots, thresholds with nested handlers, three keys in a cache of two, two processes on one Redis key, two starts of a language server, transactions of two operations on two files, three override commands, two scope managers, two migrations of two artifacts, two validators | `NoSlotLost`: no more requests are counted than are under way, through degraded requests, resets and reconfiguration; `LimitHolds`; `DayBudget`: how far the day's tokens can be overshot; `AlertsMatchSpending`: one alert per armed threshold, and none missed, with handlers that record; `EvictsLeastRecent`; `AllIndexed`: invalidation by hash finds every entry; `NoOrphanServer`; `AllOrNothing`: a failed transaction leaves the files' texts as they were; `OverridesKept`, `EnforcedUntilReconciled`: what was recorded, granted or flagged stays so, through crashes and failed writes, as far as the files can be read; `RollbackRestores`: what a migration wrote has a backup from before; `SkippedWasExamined`: what is skipped as unchanged was once returned as changed |
| `workflows` | four components, each by itself: two calls of two tasks on one worker, two clients and two broadcasts, two tasks over two providers and two agents, three phases | `ReportsAreTrue`: what a call says of its tasks, whoever cancels; `EndedNotListed`, `AudienceReached`: the list and a broadcast, with clients that come and go; `ResumesInOrder`: a resumed batch run leaves out nothing, and repeats nothing whose completion was written, as long as the state can be read; `EveryCallReturns`, `EndpointsGoOn`, `EveryTaskEnds` under fairness |

Bounds. Two artifacts are enough for the store: they meet only in
`approvals.json`, where one record can be lost by writing another; a third
would meet them in the same way. One process of each kind, CLI and resident,
gives every pair of roles; with `Serialised` a second CLI process adds nothing
as commands start from the files alone. `MaxRev = 1` gives a signed and an
unsigned payload, `MaxBackups = 1` a copy to be put back over every later state;
a second would be put back in the same way. The diff runs have a flat target, one in a directory and a
test file, which are the three cases of the lookups; two or three diffs let a
target have a successor, and the safety theorems hold for any number. The
phase gate is finite as it is. Two test files let one be edited while the other
is hashed, and let one be missing; a third content would tell no hash from
another that two do not. The test lock's runs are for commands that do not
overlap: two processes then give one user who abandons a command and another
who repeats it.

`services` and `workflows` put components that share no variable into one
module: `part` is chosen at the start and only that component moves, so the
state space is the sum of theirs and each property is checked on every
behaviour of its component. Three callers on at most two slots give a counted, a
degraded and a refused request at once; all token bounds are one, so that the
first request exhausts a day, and `MaxUse` is two, so that one may use more than
it declared. Two thresholds of the day and one of the month,
with comparisons two deep, let a handler cross the threshold the outer
comparison has still before it. Three keys in a cache of two are the least that
evict a key with another left. One key suffices for the Redis index, whose
property is of each key by itself, with two values to move it between sets. Two
starts let an old monitor thread meet a new server. Two operations on two paths
include all pairs on the same file; `MCFiles` gives the files different texts
and at least one of them foreign newlines. Three override commands give one that
records, one that reconciles and one that comes after. A scope limit of one with
two ids can be broken; once managers have shared the files, or a file was
forgotten, nothing is claimed any more and the run stops there (`MCScopes`). Two runs and two seconds let the second migration fall
into the second of the first, or not. In the validator one file with two texts
and absence is enough: no step relates two files. Two broadcasts and two clients
let one client leave while another is being sent to. Three phases stand for all
of `PHASE_ORDER`: the code treats none of them differently except the last, and
three are one before, one at and one behind the phase a run was left at. A run
that is begun anew after its state was lost is like the first and not followed
further (`MCLifecycle`).

Fairness. `PhaseGate`: `FairSpec` describes a user who
follows the tutorial and retries each of its commands; strong fairness is that
persistence, since an approval that is revoked in between disables a command
again. Nothing is assumed of the web API. `WorkflowCompletes` excludes only
behaviours in which the last approval of some type is taken back for ever.
`ExecutorFairness`: threads and coroutines are scheduled and handlers come to an
end; `execute_sync` and `execute_async` wait without a timeout, so nothing less
would do. An async task's wait for a thread of the loop's shared pool ends
because the handlers before it do. `ConnectionFairness`: the event loop runs what is ready and every send
ends, well or not; `Connect` and `Disconnect` get strong fairness because
`asyncio.Lock` wakes its waiters in the order they came. Nothing is assumed of
clients.
`OrchestratorFairness`: a request that can go on does; the orchestrator calls
`generate_async`, which calls providers with `wait_for`, and agents with a
timeout, so each answers or fails. For a provider whose adapter has no
`generate_async` that rests on the client's own timeout: its `generate` is called
in place, without `wait_for` (`provider_selector.py:391`).
Nobody is assumed to cancel, connect, broadcast or enable a provider. Progress
of a blocked `acquire` is not claimed: a caller that asks for more than the
bucket holds polls for ever, by the code.
The store, the diff workflow and the other services are safety only: a user may stop anywhere, and
the source has no retry.

Each property has a mutant in `PROJECT.json`: a slip one could make in that
code (a dropped guard, a missing reload, a record not removed) for which the
run finds a violation. The mutated forms stand beside the definitions in the
modules, under names that say what they break.

## 4. What is proved

TLAPS checks the following for every value of the constants that satisfies the
modules' named assumptions. Every invariant and every action property of the
passing runs is stated by a theorem; what no theorem states is the liveness.
Each proof goes the same way: an inductive invariant, its base case, one step
per action of the next-state relation, and the property as a consequence. What
follows says for each what the invariant adds to the property, and why.

`ArtifactStore_proofs`
- `Typing`, `SignedPayloads`: no further assumption. The invariant behind
  `OnlySignedPayloads` follows a payload through the copies: every approved or
  locked content in a file, in a loaded copy or in a copy to be saved has a
  signed revision. The files alone are not inductive, because a stale copy may
  be saved at any time.
- `LockedStays`, `RecordsStayBacked`, `StoreImplementsLifecycle`: for
  serialised commands, the migrations among them (`RecordsStayBacked` for one
  approving web worker too, beside any number of CLI processes: two workers'
  trackers may disagree). The invariant says that the one process under way has
  seen the file it is about to overwrite, that nobody but a migration works on a
  locked artifact, and, for each step of `approve` and `revoke`, which half of its
  work is on disk.
- `CIPasses`, for serialised commands and any number of approving CLI processes
  and web workers: an approved artifact without a record is owed one by the
  process that is about to write it (`Owes`), or the process still has to save the
  artifact as a draft, or the record was `erased` or the artifact `restored`. At
  rest nobody owes.

`DiffWorkflow_proofs`
- `DiffTyping`, and for `NamesApart` (no target's name is part of another's),
  with any number of processes interleaved in any way: `OnlyReviewedCodeRuns`,
  `TestsStayLocked`, `AppliedWasApplied`. The invariant follows approval and
  application through the index and through every process's snapshot of it:
  an approved status, wherever it is read, was endorsed by a human, and an
  applied one is of a target whose text is in the repository. It needs the
  snapshots because a lost update writes an old one back.
- `VerdictsStay`, for serialised commands: at each step of a command its
  snapshot is the index, and the diff it chose has still the status it was
  chosen for (`InStep`).
- `FlatIsMarked`, for both assumptions: a text that is in the repository and
  that no diff is marked for is being marked by the process under way
  (`Marking`), unless a command was cut short.

`TestLock_proofs`
- `LockTyping`; and, for a sole TestPlan and commands that do not overlap,
  `HashesStay` and `WorkIsGuarded`, for any number of files, contents and
  processes. The lock file is rewritten and even removed while a plan is being
  locked, so the invariant says that at such a moment nothing can be lost: the
  plan under way is still approved, hence has not been locked, hence has no
  baseline. Both assumptions are needed; a second TestPlan takes the hashes anew.

`PhaseGate_proofs`
- `GateTyping`, `ApprovalsComeFirst`, `LastPhaseStays`: for any wiring of the
  gates. A gate that sees less refuses more (`GateIsSound`), so the wiring
  cannot break the order of approvals; it breaks only the liveness.

`Lists_proofs` holds what the next three need of numbers, lists and sums. The
library's induction theorems take an operator as a parameter, which the
installed provers cannot instantiate; its statement that the natural numbers are
well founded (`NatLessThanWellFounded`, `WFMin`) takes sets only. So a fact that
needs induction is proved by its least counterexample: `LeastNumber` and
`CountsUp` for numbers, `BySize` for finite sets. From these follow
`WithoutProperties` (what is left of a list when members are removed is in their
order, and what stayed is still there) and that a sum over a finite set exists,
whatever the order of its members, grows with one term and is bounded by its
terms (`TotalIsSum`, `AnyOrder`, `TotalGrows`, `TotalBound`).

`Services_proofs`
- Limiter: `SlotsComeBack` is inductive with the types, because whoever releases
  is under way, whether counted or not. `ConcurrencyIsLimited` needs `Strict`,
  that the limits are enabled as long as nothing was forgotten, so that whoever
  is let in was compared with the limit. `DayIsBudgeted`: who is let in finds
  the day's tokens within the limit and at most `MaxConcurrent - 1` others under
  way, each of which will use at most `MaxUse`; a release moves at most that from
  the requests under way to the counter. The same argument with the tokens that
  were declared, which differ, takes the sums, and holds until a request is
  overdrawn.
- `AlertsAreTrue`: a threshold that a record has reached and that has not fired
  is still to be looked at by a comparison on the stack (`Due`), however deep
  the handlers nest; an inner comparison that fires it serves the outer one.
- `LeastRecentGoesFirst`: the order of the dictionary is the order of use
  (`InOrderOfUse`: whatever stands behind a key was used since).
- `EntriesStayIndexed`: an entry that its index does not have is being indexed or
  removed by the one operation under way (`Excused`), and each step of an
  operation finds what the steps before it left (`Prepared`).
- `ServersDieWithClient`: a server alive is the current one, and watched.

`Files_proofs`
- `RecordedOverridesStay`: while nothing disturbed them, a loaded log is the
  file's, and one about to be written has forgotten and reopened nothing.
- `FlagsStayUntilReconciled`: while managers are used one at a time and none was
  forgotten, what was granted and promised is on disk, but for a file a failed
  write has left (`ClaimsOnDisk`), and in the manager's copies, which it may write
  (`ClaimsKnown`); these are the files' at the steps that rely on it
  (`CopiesCurrent`). `ScopeLimitsAlwaysHold` needs none of that: the limit is of
  each copy by itself, so it holds of whatever is written, and of an empty file.
- `SkippedFilesWereExamined`: wherever a hash stands (file, memory, validation
  under way), its content was returned as changed, was lost with a validation
  that ended, or is about to be returned (`Vouched`). No serialisation is
  assumed.
- `MigrationsCanBeUndone`: what a run has touched has a backup equal to what it
  found (`Restorable`), and what it has not touched is still as it found it
  (`AsFound`); an artifact that was put back is as the run had found it.
- `TransactionsAreAtomic`: there is a sequence of states of all files, from
  before the transaction to now, whose every step the undo data of one
  operation can take back (`LeadsBack`), in their text, and entirely if no
  operation read a file to keep it. It is the existence of this history,
  not its contents, that a rollback uses up from the end.
- `ServicesTyping`: the ten components beside each other, as `MCServices`
  composes them: a step of one leaves the others' variables alone.

`Workflows_proofs`
- `ReturnedReportsAreTrue`: what a report says is true when it says it and stays
  true (`SaidTruly`), because a task that has ended does not start again; only
  `execute_async` may call a task cancelled that was never started.
- `RunResumesInOrder`: whatever the file or the memory calls completed has ended
  well in this run, and what the history calls saved is completed in both, unless
  the state was lost (`Agreement`); while `run_to_phase` drives, each phase
  before the one it executes has ended well, or was executed by this call and did
  not fail, and there is a pending one before the target is passed
  (`InOrder`).
- `EndedClientsAreDelisted`, `BroadcastsReachTheirAudience`: nobody is listed
  twice, and a broadcast holds the lock from the first send to the last, so the
  list is the audience all the while; who stands before its position has got the
  message once or is gone, and nobody else has got it (`Progress`). Without the lock in `disconnect` a removal would
  shift the list under the loop: that is the mutant of `AudienceReached`.
- `AttemptsAreBounded`: no pass has more providers before it than
  `_max_retries`, whatever is enabled, disabled or reordered meanwhile.
- `WorkflowsTyping`: the four components beside each other.

Assumptions on constants are those the modules name (`...Assumption`): sets are
finite where a number of them is counted, limits are numbers, lists name nobody
twice. TLC evaluates them in the runs.

**Only model-checked.** `WorkflowCompletes`, `EveryCallReturns`, `EndpointsGoOn`
and `EveryTaskEnds`: liveness under fairness is out of the prover's reach. The
four violations are of course runs only.

**What the proofs corrected in the models.** The cost tracker's comparisons start
before the smallest threshold, which may be 0, and not at it. A transaction cannot
be extended or begun while its rollback runs. The lists of providers and of
agents have only members that exist, which had been left to the instance, and
lists are filtered by a function in `Lists`, where the proofs can follow them.

## 5. Where code and documentation disagree

With a run: `store_overlap`, `store_stale`, `diff_inside`, `gate_asbuilt`,
described above.

Without one, met while modelling (`PROJECT.json`, findings): applied diffs of
nested targets are never marked and their approval is not checked; the artifact
save that says it is atomic is not; `SCAFFOLDED` does not look at files;
`_is_artifact_type` accepts any dict; the invariant checker takes the approvals
list for a dict; a plan
that the web API locks has no hashes, and without them the check is passed; the
migration commands rewrite locked artifacts, and a rollback takes one back to a
draft; locking a
second TestPlan replaces the hashes of the first; a torn lock file stays, and
refuses all work, when `lock` is repeated with no test files left.

In the services, each with its line in `PROJECT.json`:

- The two fallbacks of the LLM orchestrator, both on by default, call each other
  without end when everybody fails; `EveryTaskEnds` excepts that setting.
- `fail_fast` and the timeout of the parallel executor stop nothing: a sync call
  reports tasks as cancelled whose handlers ran. `ReportsAreTrue` claims nothing
  of a sync call's "cancelled".
- `advance` goes on from a phase that failed or was interrupted, and passes over
  the first; `ResumesInOrder` is stated of `run_to_phase`. A state file that was
  torn counts as none, so that every phase is repeated (`lost`), and a handler
  whose result was not written is called again.
- A transaction over files cannot bring back what a move overwrote, nor an
  operation that failed half-way, and says `rolled_back` all the same (`lossy`); a
  file with foreign newlines that was modified or deleted comes back with the
  platform's. The
  refactoring executor checks all operations before it applies the first, so two
  moves to one place pass.
- Thresholds are never re-armed when a period ends; a cost over a hard limit is
  spent but not recorded.
- A cache of size 0 raises on every `set`. A Redis `get` writes back what it
  read, over newer or deleted entries; a time to live under a second is refused.
- The LSP client takes the server's own requests for responses;
  `stop_monitoring` waits less than the thread sleeps.
- The day's tokens are checked as declared and counted as used: the limit is
  overshot by what the requests under way really use (`overdrawn`).
- Overlapping override commands, or a write cut short, lose overrides
  (`disturbed`, `shared`). A scope manager's process that is killed within a
  write, or ends after one that failed, loses all records or all flags
  (`forgotten`); after a failed write a flag may be returned that is in memory
  only. Migrations in the same second share a backup
  directory, and a plan that is carried out late migrates twice (`overlapped`).
- A validation that raises or ends before it returns has recorded changes nobody
  was told of (`unreported`).
- `.gitignore` keeps the packages `domain/artifacts` and `adapters/audit` out of
  the repository, which most modules import: the models take the envelope and the
  statuses of an artifact as the importing code uses them.
- CI's audit verification reports what the scaffold and refactor commands created
  as orphaned, since they write no entry it reads, and lets a dry run of `apply`
  stand for an application.
- `batch orchestrate` registers no handler, so every phase completes at once.
- `reconcile` announces that new work is frozen until its plan is approved, but
  no command asks `check_work_freeze`; `PhaseGate` therefore has no such guard.
- The batch processor's effects are stubs; the scaffold executor reports failed
  files as a success; exported histogram buckets are summed twice.

## 6. Not modelled, and the plan

**Not modelled.** Well over half of the implementation's lines are adapters to
other programs and the text processing around them: the refactoring tools (each
of the longest files wraps one: jscodeshift, OpenRewrite, rope, Roslyn, Rector),
parsers and language services, LLM and cloud clients, test runners, documents
and diagrams, the TUI and the commands' printing. They take arguments, build a
command line or a request, and parse the answer; they keep no state that another
part reads, and no property of theirs is about an order of steps. A model of
them would repeat their string handling line by line and check nothing. That is
why the models cover a small share of the lines, and the share cannot rise much
further by faithful modelling. In particular:

- agents and run modes: the agents' answers are placeholders in the source, so a
  mode has nobody to coordinate with;
- the batch processor: its effects are stubs;
- scaffold and refactoring executors, drift, reconciliation, CI pipeline and
  validators: one pass over a list, with no second actor; their defects occur in
  every run and are listed in section 5;
- lifecycle policies and state reconstruction: arithmetic on dates and a report;
  the one method that writes back calls the storage in a form it does not have;
- the web API for diffs: a store of its own that no other part reads;
- the audit log, metrics and notifications: written and never read back. A
  webhook may be delivered several times, which only its receiver could tell.

**Plan.** Every safety property the runs check is proved. What is left, in this
order:

1. Abstract specifications of more components, with their refinements: a
   transaction over files that takes effect at once or not at all, a log of
   overrides, a set of hashes that only grows by examination, each implemented
   by the module that has the steps between.
2. `WorkOnLockedTests` and `VerdictsFinal` under weaker assumptions than serial
   commands: which overlaps are harmless.
3. The parts of section 1 that are modelled partly: the messages of the LSP
   client.
