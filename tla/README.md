# TLA+ model of langgraph-runtime-inmem

The repository is the in-memory runtime of a LangGraph server (0.33.3.post4): it
keeps threads, runs and checkpoints in Python dictionaries, schedules runs, streams
their output, removes expired threads and writes its state to disk. This directory
models its concurrent core, checks it with TLC and proves its safety properties with
TLAPS. Source paths below are relative to `src/langgraph_runtime_inmem/` of the
repository.

## 1. Inventory

Everything but the flush thread, the callers of `_generate_ms_seq_id` and
`to_thread` calls runs on one asyncio loop. Code between two awaits that really
suspend is atomic; what an operation read before such an await may be stale after
it. Which awaits suspend is the first thing to know about an operation here: an
auth handler, a log call (`await logger.ainfo`), `gather`, a custom checkpointer,
the wait for TTL maintenance. The built-in checkpointer and `database.connect` do not.

| Component | State | Operations | Hard behaviour | What makes it correct |
|---|---|---|---|---|
| Metadata store (`database.py`) | lists `threads`, `runs`, `crons`, `assistants`, dict `thread_ttls` | used by all of `ops.py` | lists are mutated in place by some operations and replaced by others | a run has its thread, a TTL entry has its thread |
| Threads (`ops.py`) | objects of `threads`, TTL overrides | `put`, `patch`, `delete`, `copy`, `set_status`, `set_joint_status`, `State.post`, `State.bulk` | objects, indexes and lists held across awaits; one step of several failing | an operation that reports success has done it; status follows the active runs |
| Runs (`ops.py`) | status and `created_at` of runs | `put`, `next`, `delete`, `cancel`, `sweep` | put racing deletion and maintenance; cancel racing the worker | one running run per thread, order, outcomes stay |
| Scheduler (`queue.py`) | free runners, `WORKERS` | the loop of `queue`, `cleanup` | the limit is read before a sleep | no runner twice; pending runs are served |
| TTL sweeper (`thread_ttl.py`, `Threads.sweep_ttl`) | `_THREAD_TTL_MAINTENANCE`, `last_swept_updated_at` | select, claim, revalidate, delete or prune, release | awaits between threads; failures | a claimed thread has no active run; nothing is pruned twice, no update forgotten |
| Run streams (`inmem_stream.py`, `Runs.enter`, `Runs.Stream`) | queues, control queues, control keys, replay buffers, active runs, pending deletes | `put`, `add_*`, `remove_*`, `restore_messages`, `delete_run`, `delete_thread`, `close`; `subscribe`, `join`, `publish`, `listen_for_cancellation` | delivery by later tasks; deletion under a worker; replay joined to a live queue | streams end, resumes miss nothing, cancels arrive, deleted runs leave nothing |
| Stream ids (`inmem_stream.py`) | last id, under a lock | `_generate_ms_seq_id` | real threads, clock set back | ids grow |
| Persistence (`_persistence.py`) | registry of weak references, owner marks, flush thread | `register`, `close`, flush, stop; `start_pool`, `stop_pool` | flush thread against load and close; several instances for one file; crashes | one owner; no stale overwrite; writes reach the file |
| Checkpointer (`checkpoint.py`), `postgres.py` | checkpoints, writes, blobs, sizes | `put`, `put_writes`, `prune`, `delete_for_runs`, `delete_thread`, `clear`, copy of a thread | which ancestors and blobs a delta channel needs; sizes kept by differences; two implementations | what stays can be restored, what goes leaves nothing, sizes are exact, both savers agree |
| Store and its TTL (`store.py`, `size_tracking.py`) | items, vectors, TTL records, sizes, in three files | `abatch`, `batch`, `sweep_ttl`, start and stop of the sweeper | awaits of embeddings under a lock that `batch` does not take; files written one by one | an item goes by deletion or expiry only; expired ones go |
| Assistants, Crons (`ops.py`) | `assistants`, `assistant_versions`, `crons` | create, update, delete, `set_latest`; `Crons.next`, `set_next_run_date` | cascades against suspended creations; a pass over a list that is replaced; copies that are stale | versions are sound, no orphaned cron, each date run once and on schedule |
| Deploy routes (`routes.py`) | one deploy operation, its ring buffer | start, read, drain stderr, watchdog, stream | watchdog against the end of the process; rotation and reconnection | events in order, the terminal event last, the deploy ends |
| Thread streams (`Threads.Stream`) | queues per thread | `join`, `publish` | as run streams, with runs that appear | not modelled |
| Auth filters (`ops.py`) | none | `_check_filter_match` | nested operators | not modelled |
| Lifecycle (`lifespan.py`) | tasks of the server | start, stop, signal | order of the shutdown | not modelled as a whole; its stops are actions of the parts |
| `retry.py`, `metrics.py`, `__init__.py` | none | - | - | not modelled |

Interactions: requests and workers call `ops.py`, which mutates the store and calls
`StreamManager`; the scheduler starts workers (`langgraph_api`, not in this
repository), which enter a run (`Runs.enter`), publish frames, and report with
`set_joint_status`; `Runs.cancel` reaches a worker through its control queue; the
sweeper calls `Threads.delete` and the checkpointer and holds back requests with the
maintenance set; deleting a run or a thread removes its checkpoints, deleting an
assistant or a thread its crons; the cron scheduler (`langgraph_api`) creates runs;
the flush thread writes all stores behind everybody's back.

## 2. Modules

| Module | Models | Extends |
|---|---|---|
| `ThreadStore` | the store, its records, lookups and updates; all constants | |
| `Threads` | class `Threads` and the TTL sweeper | `ThreadStore` |
| `Runs` | class `Runs`, the scheduler, the end of a worker | `Threads` |
| `ThreadRuns` | the composition: `Init`, `Next`, fairness, properties | `Runs` |
| `MCThreadRuns` | values of constants for TLC | `ThreadRuns` |
| `RunStream` | the streams of the runs of one thread | |
| `StreamId`, `IdSource` | the id generator, and what it promises | |
| `Persistence` | one persisted file | |
| `Checkpoints`, `CheckpointHistory` | the checkpointer and the removal in `postgres.py`; what a history of checkpoints promises | |
| `StoreTTL`, `ExpiringMap` | the store, its lock, sweeper and files; a map whose items have deadlines | |
| `Catalog` | assistants, versions and crons, `start_pool`, the truncate route | |
| `Deploy` | the deploy routes | |
| `MCCheckpoints`, `MCStoreTTL`, `MCCatalog` | values of constants for TLC | the module after `MC` |
| `ThreadRunsProofs`, `RunStreamProofs`, `PersistenceProofs`, `StreamIdProofs`, `CheckpointsProofs`, `StoreTTLProofs`, `CatalogProofs`, `DeployProofs` | theorems (section 5) | the module they are about |

### ThreadStore, Threads, Runs, ThreadRuns

`thr` is the list of threads: slot *s* is the *s*-th thread ever appended, and an
emptied slot stays empty, so list order is slot order. A Python object is a
reference `[slot, ver]`: `Threads.patch` replaces the list element by a copy, which
raises `ver`, and a reference held across an await denotes the list element only
while slot and version agree (`Attached`). `runs` is the list of runs by creation,
`ttl` the sidecar, `maint` the maintenance set. A suspended request is a record in
`task`; the sweeper, the scheduler and each worker have a program counter and what
they hold. Each operation is one action when it does not suspend, and a call and a
finish (or failure) when it does:

| Actions | Code |
|---|---|
| `ThreadsPut`, `ThreadsCopy` | `Threads.put`, `copy` |
| `ThreadsPatch`; `ThreadsPatchCall`, `ThreadsPatchFinish` | `Threads.patch` at once; suspended in authorisation or the maintenance wait (`stale`: its list was replaced) |
| `ThreadsDelete`; `ThreadsDeleteCall`, `Finish`, `Fail` | `Threads.delete` |
| `ThreadsSetStatus` | `Threads.set_status`, the step of `State.post` and `State.bulk` that changes the store; it may come at any time |
| `SweepSelect`, `SweepSkip`, `SweepClaim`, `SweepDelete`, `SweepPrune`, `SweepFail`, `SweepEnd` | `sweep_ttl` under `thread_ttl_sweep_loop` |
| `RunsPut`; `RunsPutCreate`, `RunsPutAppend` | `Runs.put` on an existing thread; with `if_not_exists="create"`, around its log call |
| `RunsDelete`; `RunsDeleteCall`, `Finish`, `Fail` | `Runs.delete` |
| `RunsCancel`; `RunsCancelEager`, `RunsCancelDelete` | `Runs.cancel`; its eager delete, around its log call |
| `WorkerHears` | `listen_for_cancellation` of the worker gets the message of a cancel |
| `QueueWake`, `QueueClaim` | one round of `queue`: runners and time are read, then, after the sleep, `Runs.next` and the start of workers |
| `WorkerReport`, `WorkerLost`; `WorkerRollback`; `WorkerRollbackCall`, `Finish`, `Fail` | `set_joint_status`, 404, rollback at once or suspended |
| `Restart` | the process dies and loads its last snapshot |

Abstractions: metadata, values, kwargs and names are gone, and so are the checkpoints
a checkpointer holds; what is kept of it is whether it suspends and fails. Whether a
run has subscriber queues (`Runs.cancel` asks) is left open. A cancel of several runs
is several cancels in a row. A worker is external: it reports any outcome, but retries
only when it has heard of no cancel and has attempts left. A cancel changes the status
of the run and sends a message (`sent`); when the worker hears it, and whether it does,
is left open (`WorkerHears` is not fair), since the put runs later, a subscriber may drain
the queue and the listener stops after 240 seconds. `RunStream` has those details. `Runs.put` with a null thread id
is a create with an unused id. `Restart` restores everything that was in the store;
what a crash may lose is the subject of `Persistence`.

`pruned` and `back` are history variables. `pruned` is the threads whose present state
was pruned; a prune that a crash cuts off before it is recorded leaves it (`Restart`).
`back` is the cancelled runs, with their threads, that a worker which had not heard of the
cancel put back to pending: `set_joint_status` looks at no status.

### RunStream

`flight` holds the messages a `put` handed to tasks (`gather`); they arrive later, in
order. `ctx` is where the worker is in `Runs.enter`, `lis` its
`listen_for_cancellation`, `done` the event it sets. A frame is its number in the
stream, a resume cursor is such a number; that ids have the order of publication is
what `StreamId` shows. `Cancel`, `CancelEager`, `CancelPut`, `CancelDelete` split
`Runs.cancel` at its log call and its `gather`; the control puts a batch cancel makes
for runs that are already over are left out. The listener's timeout (`ListenTimeouts`),
the shutdown (`MayStop`) and the actions of cancels (`CancelAction`) are chosen per run.
A queue that nobody reads any more is not kept (`Read`), nor what a subscriber had when it
was cut off (`Left`). `drained` is history: a subscriber
took a cancel out of the control queue. A cancelled run whose worker did not hear of it
may be retried (`Settle`).

### Persistence

The contents of an instance are the number of the last write it holds. `life` follows
an instance from its construction through loading and registration (in the order of
`database.py` when `file` is `"ops"`, of `store.py` and `checkpoint.py` when it is
`"data"`) to its close.
A server that is stopped and started in one process goes on with the closed instances of
`store.py` and `checkpoint.py` (`Write`).
`Collect` is the weak reference dying, `OtherRegister` the registration of another
file, which restarts the flush thread.

### StreamId and IdSource

`IdSource` is the abstract specification: each id is greater than the last.
`StreamId` implements it (`Ids == INSTANCE IdSource WITH ...`): a caller reads the
clock before it takes the lock.

### Checkpoints and CheckpointHistory

`storage`, `blobs` and `writes` are the three dictionaries, with the key of an entry
as a tuple; a checkpoint is its parent, the versions of its channels, the delta
channels counted in its metadata, and the run that made it. A blob is a value or
`"empty"`. Sizes are small numbers that tell components apart; `sizes` and `total` are
adjusted as `_CheckpointSizeState` does, and what they should be is a sum over the
entries (`Measured`). `Updated` and `With` are `dict.update` and the assignment of an
item. `Walk` and `PgWalk` give the ancestors that the walk of `delete_for_runs` and
`prune` and that of `_remove_history` visit from a parent with a set of channels still needed; `Lost`
the delta channels that cannot be rebuilt from a parent on. They are recursive
functions along parents. `loop` is what a running graph holds in memory:
the checkpoint it is at, per namespace, stored or not any more. Each operation of the
saver is synchronous, hence one action. `PgAfterDelete` and `PgAfterPrune` compute what
`_remove_history` leaves of the same data; it locks its tables, so that is one step too.

`CheckpointHistory` sees entries and which of them are `live` (can be restored).
Mapping: a checkpoint is live when each of its channels has its blob or, for a delta
channel, an unbroken chain of ancestors back to a snapshot. Operations may give up the
entries they are asked to remove; everything else that was live stays live.

### StoreTTL and ExpiringMap

`mem` is what the process holds (items, vectors, TTL records, sizes, total), `disk` the
files, flushed one at a time. `lock` is the queue of `_operation_lock`. A request waits
for the lock, prepares (reads with their refresh), awaits the embedding of a query,
awaits the embedding of its puts and applies them. `SyncBatch` does all of it at once,
without the lock, on the event loop; calls of `batch` from executor threads, which
`BATCHED_STORE` (a `threading.local`) allows, are not interleaved with single dictionary
operations. A batch with a TTL that is no number raises in `_apply_put_ops` after its
vectors were stored (`Embedded`); `loose` is history, the keys that have such a vector. Sizes are sums over the items. `ExpiringMap` maps each item to its deadline, if any; items leave
on request or when a sweep finds the deadline passed.

### Catalog

The lists are sequences; a comprehension with a condition is `Filter`, whose elements are
given by their positions (`At`). `Removed` says in closed form which entries are left when
a list is removed from while it is iterated over. A cron is an object in `obj`; `crons` and the list a pass of the scheduler iterates
over hold numbers of objects, so a pass that goes on over a replaced list sees updates
but not deletions, as in Python. `hold` is the copy `Crons.next` yielded. The scheduler
is `langgraph_api.cron_scheduler`: for each cron it awaits the creation of a run and
calls `set_next_run_date` with the date after the `now` of the pass. A schedule is a
period, a time zone an offset. An assistant is its version, its configuration (what
`set_latest` restores) and the rest (what it does not). `Truncate` is one step, although the route, which is for tests, clears the store in a
worker thread. `late` and `stale` mark crons
in the states that the code is known to reach (section 4); `last` is history.

### Deploy

An operation is a record: the process, its pipes, the reader, the stderr drainer, the
watchdog, and how many events it has appended. A viewer is a connection with its cursor
and, as history, the ids it received and those that had left the buffer when it looked.
The terminal event has an id too (`last`), from which a client may reconnect and get it
again. A cancel of the reader during its wait for stderr skips the rest of its finally
block. The process is external: it may exit at any time or never.

## 3. Hazards and properties

`PROJECT.json` lists the hazards line by line. In short:

* Deletions: `RunsHaveThread` (no run without its thread), `SweepDeleteRemoves`.
* Scheduling: `OneRunningPerThread`, `RunnersSuffice`, `StartInOrder`, `FinishedStays`,
  `PendingServed`.
* TTL: `MaintenanceExcludesRuns` (and `MaintenanceExclusive`, which fails), `UpdatesRearm`, `NoRepeatPrune`, `TTLHasThread`.
* Status: `ActiveIsBusy` under the default multitask strategy.
* Streams: `DeletedStaysClean`, `ResumeComplete`, `JoinsEnd`, `CancelHeard`
  (and `WorkerPicksUp`, which fails).
* Files: `OneOwner`, `OnlyOwnerWrites`, `NoStaleOverwrite`, `WritesReachDisk`.
* Ids: `IdsGrow`.
* Checkpoints: `HistoryKept` (refinement), `RemovesWhole`, `SizesExact`, `SaversAgree`.
* Store: `ItemsExpire` (refinement), `SizesMatch`, `ExpiredGo`.
* Assistants and crons: `VersionsSound`, `CronsBacked`, `DateOnSchedule`, `DatesGrow`,
  `DueFires`.
* Deploys: `InOrder`, `TerminalComplete`, `DeployEnds`, `StreamEnds` (and
  `TimeoutTerminates`, which fails).

## 4. Runs

Every bound is a constant of the module and stands in a guard.

| Run | Instance | Shows |
|---|---|---|
| `scheduling` | 2 threads, 3 runs, 2 runners, deferral 0 or 1, retries; fair | `OneRunningPerThread`, `StartInOrder`, `PendingServed` |
| `deletes_custom` | 1 thread id in 2 incarnations, 2 runs, 2 suspended requests, rollbacks, a restart; the clients are symmetric | `RunsHaveThread`, `RunnersSuffice`, `FinishedStays` |
| `ttl_custom` | 2 threads with either TTL strategy, copies, 1 run, 1 suspended request, sweeps that fail | `MaintenanceExcludesRuns`, `SweepDeleteRemoves`, `UpdatesRearm`, `NoRepeatPrune` |
| `ttl_builtin` | 1 thread id in 2 incarnations, 2 runs, retries, interrupts and rollbacks, valid, cleared and rejected TTLs | `TypeOK`, `TTLHasThread`, `ActiveIsBusy` |
| `streams` | 1 run, 1 subscriber with any cursor, 1 frame, 2 attempts, rollbacks, listener timeouts, shutdown; fair | `TypeOK`, `DeletedStaysClean`, `ResumeComplete`, `JoinsEnd`, `CancelHeard` |
| `persist` | 3 instances, either order of load and registration, 2 writes, 1 crash; fair | `OneOwner`, `OnlyOwnerWrites`, `NoStaleOverwrite`, `WritesReachDisk` |
| `stream_ids` | 3 callers, 4 clock values | `IdsGrow` |
| `checkpoints` | 2 threads, 2 runs, a delta and a plain channel, 3 checkpoints, 1 namespace | `SizesExact`, `SaversAgree`, `HistoryKept`, `RemovesWhole` |
| `store_ttl` | 2 items, a request beside the synchronous batch, 4 batches, 2 times, 1 crash; fair | `SizesMatch`, `ItemsExpire`, `ExpiredGo` |
| `catalog` | 1 client's and 2 graphs' assistants, 2 crons, 1 thread, 3 requests, 4 times; fair | `TypeOK`, `VersionsSound`, `CronsBacked`, `DateOnSchedule`, `DatesGrow`, `DueFires` |
| `deploy` | 1 operation, 2 start requests, 1 viewer, 2 lines per pipe, a buffer of 2; fair | `InOrder`, `TerminalComplete`, `DeployEnds`, `StreamEnds` |

Why the bounds are enough: the races are between a holder of stale state and one or
two operations on the same thread, so one or two thread ids, two incarnations of an
id and two suspended requests reach each of them; order and limits need a third run,
and a clock of three values lets a thread expire, be pruned, be updated and expire
again. A request that a client makes is left out of a run where it would only
multiply states: `ttl_custom` has no `Threads.delete` (its race with a prune is
described below), `scheduling` no cancels.
Every invariant, action property and refinement of these runs is also proved without
the bounds (section 5). `streams` has rollbacks only (`CancelAction`): an interrupt takes
the path of a rollback of a run that somebody follows, with another payload. What it adds,
a cancel without a deletion of a run that nobody follows, is in `stream_cancels.cfg`, with
both actions and the same properties, and without the shutdown, which together with it is
too large: 671,856 states, no error. With one run in `RunStream` the deletion of a
run and of its thread coincide in effect; `DeletedClean` is proved for any set of runs.
A chain of three checkpoints is the shortest with a middle that can be protected or
lost, and a copy has checkpoints of the same ids under another thread. The run compares
states without `gaveUp` (`HistoryView`), which every step sets and no step reads: the
action properties are checked on every step all the same. Clients only
differ in their name, so the symmetry of `deletes_custom`, which has no liveness property,
is sound. A buffer of two
rotates under two lines, the stderr lines of a failure and the watchdog's messages. Two
graphs' assistants are what the loop of `start_pool` needs to skip one.
The types of `Checkpoints`, `StoreTTL` and `Deploy` are conjuncts of their first invariant.
Deadlock is checked for `stream_ids`; the other systems may stop: all runs ended, no
client left, all bounds reached.

Fairness. In `ThreadRuns` the clock advances, the sweeper goes on, the scheduler's two
halves and each worker are weakly fair: the loop runs every ready task, and
`langgraph_api` bounds the time of a run. Requests are not fair. In `RunStream` ready
tasks run (deliveries, cancels under way, listeners, readers), workers may take any
time. In `Persistence` the flush thread runs every 10 seconds, and a shutdown that has
begun closes its instances. In `StoreTTL` the timer of the sweeper fires, tasks run, and
an embedding ends with a result or an error. In `Catalog` the scheduler goes on. In
`Deploy` tasks run, a killed process exits, and the stdout of a process that exited is
closed; nothing makes a process exit that was not killed.

A disagreement between the code and what it says of itself, with a TLC trace: in
`create_race`, which violates `MaintenanceExclusive`, a creating `Runs.put` logs between
the maintenance gate and its append; its run appears in a thread the sweeper is deleting.

Three more configurations end in a counterexample:

| Configuration | Property | What the text says | What happens |
|---|---|---|---|
| `retry_race.cfg` (`MCThreadRuns`) | `MaintenanceExclusive` | the sweeper "does not prune a thread while it has a pending or running run" (README.md:76) | `set_joint_status` (ops.py:1419) checks no status: a worker that has not heard of the cancel of its run reports a retry while the sweeper prunes the thread; the run is pending again |
| `cancel_drained.cfg` (`RunStream`) | `WorkerPicksUp` | "If 'running', the worker will pick up the message" (ops.py:3191) | a subscriber takes the cancel out of the control queue (ops.py:3429); the worker is never told |
| `deploy_timeout.cfg` (`Deploy`) | `TimeoutTerminates` | "Terminate the subprocess if it exceeds *timeout_seconds*" (routes.py:206) | an error of the reader (routes.py:170) cancels the watchdog (194); the process runs on |

Other behaviours of the modelled code that a reader of the properties should know;
they are why some of the runs above leave an input out:

* A cancelled running run loses its status at once (`RunsCancel`), so the next run of
  its thread starts beside the first worker: one *running* run, two workers.
* `Threads.delete` during a `keep_latest` prune: `SweepPrune` writes the TTL entry of
  the deleted thread back. `TTLHasThread` is therefore checked with the built-in
  checkpointer, where nothing comes between.
* A `Threads.patch` suspended while any thread is deleted changes a list that was
  replaced (`stale`), and is lost.
* A rollback suspended in a custom checkpointer while its thread is patched updates
  the old object (`WorkerRollbackFinish`): the thread stays busy. `ActiveIsBusy` only
  speaks of the other direction.
* After a crash a run stays running and blocks its thread (`RunsSweep` is empty), so
  `PendingServed` is checked without restarts.
* `Threads.delete` looks its object up before its awaits and removes it by identity
  after them. Suspended while the thread is patched, it removes the runs, the crons, the
  checkpoints and the TTL entry, and leaves the thread.
* `set_joint_status`, after the await of a rollback, sets `updated_at` to a time it read
  before, possibly earlier than an update made meanwhile.
* `Runs.delete` and the eager delete of a rollback may leave a thread busy without an
  active run.
* `State.post` checks for runs in flight before it awaits the graph update; the model has
  its closing `set_status`, at any time, and not the check.
* `CancelHeard` excepts a cancel that a subscriber really drained and a listener that gave
  up after 240 seconds (`Missed`), and nothing else.
* A cancelled run that is put back to pending (`back`) may be a second active run of its
  thread, and the cancel of either makes the thread idle. `ActiveIsBusy` excepts the thread
  of such a run, `MaintenanceExcludesRuns` the run itself.
* What is written to an instance after its close, in a server started again in the same
  process, is lost (`Write`); so is what a failed final sync was to save.
* A batch with a bad TTL leaves its vectors behind; an item with such a vector is larger
  than its tracked size until it is written again. `SizesMatch` excepts its size (`loose`).
* A retried run keeps the done message of its first attempt in the replay buffer, and a
  resuming subscriber stops there.
* `NoStaleOverwrite` excepts one window: `store.py` and `checkpoint.py` register an
  instance before they load it, and a flush between the two writes an empty file.
* The retry counter is written to disk but never loaded.
* Deleting a run also removes its checkpoints from copies of the thread, which carry the
  run's id. A loop that holds a removed checkpoint makes a child that cannot be restored.
* An item of the store whose TTL record was not flushed before a crash never expires.
* `set_latest` does not restore graph_id and context: the combination in use may be one
  that no version has. After a truncation a system assistant has no version, and patching
  it fails once any other version exists.
* `start_pool` removes from the list it iterates over (`Removed`): every second system
  assistant stays, and one that is registered again gets a second version 1.
* `Crons.put` suspended in the authorisation of its thread appends a cron of an assistant
  deleted meanwhile (`late`). A refused `Crons.update` has already assigned the time zone,
  and an update during the creation of a run is overwritten by the scheduler's older copy
  (`stale`). A stop before `set_next_run_date` runs the date again.
* Two requests may both start a deploy (`StartDeploy`, `Spawn`); `DeployEnds` excepts an operation whose reader
  broke or was cancelled; a grandchild that keeps stdout open after
  the kill keeps the reader waiting.
* The control message of a cancel that arrives after the deletion of a run whose
  context is not active (`CancelPut`) stores a control key that nothing removes;
  `DeletedStaysClean` speaks of active contexts.

## 5. Proofs

All for every value of the constants that satisfies the named assumptions
(`ConstantsAssumption`, `StreamAssumption`, `PersistenceAssumption`,
`StreamIdAssumption`, `DeltaAssumption`, `InputAssumption`, `BatchAssumption`,
`CatalogAssumption`, `BoundsAssumption`), which say that bounds are numbers, switches
are Boolean, inputs come from the sets the API accepts, and a batch, a set of written
channels and the set of threads are finite. A further hypothesis stands in the theorem
itself. Every safety property of a passing run is proved.

### Threads, runs and the scheduler

* `TypeCorrect` (`ThreadRunsProofs`): `TypeOK` is inductive; one lemma per group of
  actions. The scheduler needs that free runners are between 1 and the concurrency,
  which rests on the finiteness of the set of workers.
* `OneRunning`: every action but `QueueClaim` starts no run
  (`NoneStarted`), and `QueueClaim` starts at most one per thread, of a thread that
  has none.
* `RunsKeepThread`: `RunsHaveThread` alone is not inductive, because a suspended
  deletion could remove a thread of another id than the one whose runs it removes.
  `RunThreadInv` adds that slots are filled in order (an appended thread lands in an
  empty one), that what a suspended deletion holds is a slot of its own id or an
  emptied one, and that runs and creating requests name a thread. Together they say
  that each removal takes all runs of the thread with it.
* `OutcomesStay` (`FinishedStays`): `WorkersInv` says that a worker executes a run in
  status running, one that was cancelled, or one that was deleted. So no worker has a
  finished run to report on, and no request changes one (`RunSteps` lists what a step
  may do to the runs).
* `StartsInOrder` (`StartInOrder`): `QueueClaim` picks the earliest run of a thread, and
  a run it leaves out for the limit is younger than those it takes.
* `RunnersEnough` (`RunnersSuffice`): by `LimitInv`, the limit the scheduler holds while
  it sleeps plus the workers is at most the concurrency. Workers only end meanwhile, and
  the runs claimed are at most as many as the limit (a pigeonhole argument).

### TTL maintenance

`ThreadRunsProofs` reduces every step to what it does to one thread id (`ThreadSteps`:
untouched, updated, added, created by a suspended `Runs.put`, removed, reset by a patch
of a replaced list, rolled back, claimed, pruned, given up) and proves each invariant once per kind. `HoldInv` says what
suspended rollbacks, patches and the sweeper hold.

| Theorem | Property | Hypothesis | Invariant |
|---|---|---|---|
| `MaintenanceExclusion` | `MaintenanceExcludesRuns` | no `if_not_exists="create"` | `MaintenanceInv` |
| `PrunesOnce` | `NoRepeatPrune` | none | `PruneInv` |
| `SweepRemovesThread` | `SweepDeleteRemoves` | no `if_not_exists="create"` | `DeleteInv` |
| `UpdatesKept` | `UpdatesRearm` | `SweepConfig` | `RearmInv` |
| `EntriesHaveThread` | `TTLHasThread` | the built-in checkpointer, no auth handler that suspends | `EntryInv` |
| `ActiveThreadsBusy` | `ActiveIsBusy` | `prevent_insert_if_inflight`, no `if_not_exists="create"` | `BusyInv` |

* `MaintenanceInv`: the delicate step is a worker that reports a retry, making its run
  pending on a claimed thread. By `WorkersInv` its run was running or interrupted. Running,
  it made the thread active, which then could not have been claimed; interrupted, it is in
  `back`, which only grows. `create_race` shows that the hypothesis is needed, `retry_race`
  that the exception is.
* `PruneInv`: a pruned thread is there, and not newer than the mark; while its prune is
  under way, the mark is the `updated_at` the sweeper took with it.
* `DeleteInv`: no two threads have one id, and a thread being deleted is still the object
  the sweeper looked up. A creating `Runs.put` appends a second thread under the same id.
* `RearmInv`: every recorded mark is in the past of what was updated since. It fails for a
  TTL of zero minutes, with which a prune and an update may have the same time; for a
  rollback that was suspended beside a prune, which writes an older `updated_at`; and for
  a `Threads.delete` that holds a replaced object, which removes the TTL entry under
  the prune, which writes it back. `SweepConfig` excludes these three.
* `EntryInv`: nothing but the sweeper is suspended, so no request comes between its
  look-up of an entry and its use. With a custom checkpointer `SweepPrune` revives the
  entry of a deleted thread (section 4).
* `BusyInv`: a thread has at most one pending or running run, and when that is cancelled
  none, unless a run of it was put back (`PutBack`). Without `prevent_insert_if_inflight` the cancel of a pending run marks the thread
  idle although another run of it is active.

### Streams, files, ids, deploys

* `StreamTypes`, `DeletedClean` (`RunStreamProofs`): `DeletedStaysClean` is inductive
  with the types; the mark of a deleted run makes every put and every new queue bounce.
* `ResumedComplete` (`ResumeComplete`): `StreamInv` says that a stream that was neither
  deleted nor stopped has stored every frame, and before a stored "done" all frames that
  it counts; that no message counts more frames than were published; that a message
  in flight goes to subscribers of its run; and that a subscriber stays listed. By
  `LiveFollows` a subscriber after its replay has received each frame after its cursor,
  or has it in its queue or in flight, and before each "done" in its queue those that
  "done" counts. The handover is the point: the replay is read after the subscription, so
  what it lacks was published later and is in the queue. That the worker awaits its own
  puts (`Awaits`) keeps a "done" from overtaking a frame.
* `OwnerUnique`, `OwnerWrites` (`PersistenceProofs`): by `OwnerInv`, which adds that
  an instance in use has asked for ownership; without it the last branch of
  `close_persistent_dict` could sync an instance that was never registered.
* `SnapshotsGrow` (`NoStaleOverwrite`): by `FreshInv`, the registered instance is not
  older than the file unless it is registered and not loaded, and the store of the pool,
  which loads first, is alone with its file in between.
* `IdsRefine` (`StreamIdProofs`): the generator implements `IdSource`, initial state
  and every step.
* `DeliveredInOrder`, `CompleteAtTerminal` (`DeployProofs`): `DeployInv` says of each
  client that the ids it received and is about to receive increase and are not beyond its
  cursor, that every id up to the cursor was received, is pending, or had left the buffer;
  and of each deploy that its total does not change once its status is terminal.

### Checkpoints

`HistInv` is the invariant of the three dictionaries: they are finite, a parent is older
than its child, no id or version is newer than the last one issued, and a loop at a
checkpoint that is still stored holds the versions of that checkpoint.

`Walk`, `PgWalk` and `Lost` are recursive along parents. That such functions exist is
proved (`RecursionExists`, by induction on ids, using that parents are older), and from
it the equation of each (`WalkSteps`, `PgWalkSteps`, `LostSteps`). Facts about sums are
proved by induction on the subsets of a finite set (`SubsetInduction`).

* `RemovalsWhole` (`RemovesWhole`): `WholeRemoval`, proved once per removal, says that a
  removed checkpoint leaves no write and no blob that nothing else names, and that one that
  stays keeps its own. What a walk protects is stored (`WalkStored`), hence counted
  among what stays.
* `SaversAgreeAlways` (`SaversAgree`): both walks visit the same ancestors from the same
  state (`WalksAgree`), although one asks which channels a checkpoint materialises and the
  other which it lacks; hence `prune` and `delete_for_runs` of both leave the same.
* `SizesAlwaysExact` (`SizesExact`): `SizesInv` adds to `HistInv` that each thread's size
  is the one measured, and the total their sum. `put` and `put_writes` replace one entry of
  a sum (`AdjustExact`), removals subtract what they take (`LeftBytes`), a copy is a sum
  with renamed keys (`CopySum`, by the bijection `Moved`), and the rest recompute.
* `HistoryAlwaysKept` (`HistoryKept`): two checkpoints are alike when they and all their
  ancestors have the same parents, versions and blobs (`Alike`); alike checkpoints can be
  restored together or not at all (`LostAlike`, `AlikeRestorable`). A put leaves
  everything stored alike, because its blobs have versions that no stored blob has, a copy
  is alike its origin, and a removal keeps, for what stays, the blobs and ancestors back
  to each snapshot. The child made by a put can be restored when its parent can, which
  needs what `HistInv` says of loops: the versions a loop carries on are its parent's.

### Store

`DataInv`: the items are finitely many, a TTL record has its item, the sizes are those of
the items (but for `loose` ones) and the total is their sum, and a deadline, in memory or on disk, is not later
than the clock plus the minutes of its record. `LockInv`: the lock's queue lists no task twice, lists exactly the waiting and
working tasks, and who embeds holds the lock.

* `StoreSizesMatch` (`SizesMatch`): reads, puts, sweeps and a reload keep `DataInv`. A put
  applied after an await is safe although `batch` does not take the lock, because the
  difference of sizes is taken from the item it finds then.
* `StoreItemsExpire` (`ItemsExpire`): `StoreTTL` implements `ExpiringMap`. `LockInv` is
  what tells which request a step ends.

### Assistants and crons

`CatalogProofs` first says what each step may do to the crons (`CronKind`: nothing, one
made, one changed, one dated, some dropped, a pass begun, ended or fired, a restart).

* `VersionsRecorded` (`VersionsSound`): by `AssistantInv`, which adds that an id has one
  entry, and that the versions of a client's assistant go with it.
* `CatalogTyped` (`TypeOK`): by `CronInv`, which adds the types of the cron objects and of
  what passes and suspended requests hold, and that no cron is listed twice.
* `CronsKeepTheirOwners` (`CronsBacked`), `CronsOnSchedule` (`DateOnSchedule`): inductive
  with `CronInv`; each object of a list is followed through updates and cascades.
* `DatesRunOnce` (`DatesGrow`): by `DateInv`. The last date run of a cron is before its
  next one, but for the cron the scheduler holds between the creation of its run and
  `set_next_run_date`; for that one the date run before is. The rest of the list the
  scheduler goes over has dates not yet run, also after that list was replaced.

### Only model-checked

Everything with fairness (`PendingServed`, `JoinsEnd`, `CancelHeard`, `WritesReachDisk`,
`ExpiredGo`, `DueFires`, `DeployEnds`, `StreamEnds`): liveness is out of the prover's
reach. `WorkerPicksUp` and `TimeoutTerminates` are refuted.

## 6. Not modelled, and the plan

Not modelled:

* Thread streams: the queues and the delivery of `RunStream` with a set of runs that
  grows while a reader waits; with a second run `RunStream` is beyond TLC's reach here.
* `_check_filter_match`: a pure match without state. In the models a filter that does
  not match is a request that is refused.
* The order of start and stop in `lifespan.py`, and the drain at the end of
  `queue.queue`, including `exit.aclose()`, which does not exist (queue.py:255): an
  exception in the scheduler ends the queue although the comment says it keeps trying.
  A corrupt ops file makes `start_pool` remove a retry counter file that may not exist.
* The graph calls inside `State.post` and `State.bulk`, and all reads.
* The Postgres store and the connections of `postgres.py`.

Plan:

1. `State.post` and `State.bulk` as tasks of `Threads`.
2. An abstract specification of a thread (a serial queue of runs) that `ThreadRuns`
   implements when cancels wait for their worker.

Left out for good: `retry.py`, `metrics.py` and `__init__.py` (no state), logging,
webhooks, BlockBuster, encryption and the contents of payloads.

## 7. Running

    tlc -config scheduling.cfg MCThreadRuns
    tlc -config streams.cfg RunStream
    tlc -config stream_cancels.cfg RunStream
    tlc -config cancel_drained.cfg RunStream
    tlc -config retry_race.cfg MCThreadRuns
    tlc -config deploy_timeout.cfg Deploy
    tlc -config checkpoints.cfg MCCheckpoints
    tlc -config catalog.cfg MCCatalog
    tlapm ThreadRunsProofs.tla
    tlapm CheckpointsProofs.tla
