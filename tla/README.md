# Verification of stilltent

TLA+ models of the parts of stilltent whose correctness depends on order, failure
and time, the TLC runs that check them on small instances, and proofs that hold for
every instance. Paths are relative to the repository; `loop.py` is
`core/orchestrator/loop.py`, the Go files are those under
`memory/mem9/mnemo-server/server/internal/`, `main.c` is that of
`memory/mem9/embed-service/`, and `manager.go` is
`archive/project-mytool/internal/sandbox/manager.go`.

## 1. The system

stilltent lets a coding agent work on a repository without supervision. A long-running
**orchestrator** sends one prompt after the other to an **agent gateway** (OpenClaw,
or the claude-code adapter), counts outcomes and money, and stops by itself; the agent
keeps what it learned in a **memory server** (mnemo-server, Go) whose vectors come from
an **embed-service** (C). The largest program in the repository is one that an earlier
run of the agent wrote: **tent**, a microVM sandbox manager (Go), archived and not part
of the running system.

| Component | State | Operations | Interacts through |
|---|---|---|---|
| Orchestrator loop (`loop.py`) | iteration, failure streak, circuit breaker, `_metrics`, shutdown flag | one iteration; pauses; backoff; stop | HTTP to the gateway; `workspace/PAUSE`; signals; restart by docker |
| Metrics writer (`_MetricsWriter`) | dirty count, stop event, `metrics.tmp`, `metrics.json` | mark, flush, stop, load | `_metrics` shared with the main thread; file read by the next process, `stats.py`, the sidecar |
| Upload worker (`service/upload.go`) | table `upload_tasks`, upload directory per instance | create, fetch, reset, process, requeue, fail, clean up | control database shared by instances; tenant pool; ingest service |
| Memory service (`service/memory.go`, `session.go`) | rows with content, vector, state, successor; messages with tags | create, bulk create, update, delete, search | goroutines that outlive their request; tenant database |
| Ingest and reconcile (`service/ingest.go`) | none of its own | extract facts, ask a model, apply ADD/UPDATE/DELETE | memories of the tenant's database |
| Tenant pool (`tenant/pool.go`) | map from tenant to handle and last use | get, remove, evict, close | every request; upload worker; provisioning |
| Provisioning (`service/tenant.go`) | tenant records with a status, the tenant's tables | provision in five remote steps | cloud provider, pool |
| Rate limiter, auth (`middleware/`) | token buckets by key | admit, clean up | every request |
| Embed-service (`main.c`) | bounded queue, worker threads, connections | accept, queue, serve, drain, shut down | HTTP keep-alive connections |
| tent sandbox lifecycle (`manager.go`) | `state.json`, handles of running VMs, guests, disks, TAP devices | create, clone, start, stop, restart, destroy, pause, status, lock, rename | `state.json` shared by processes; guests inside a process |
| claude-code adapter and oversight sidecar (`config/agents/claude-code`) | one agent loop per request; last reviewed iteration | answer a prompt; review every N iterations | gateway protocol; `metrics.json` |
| mem9 plugin (`config/openclaw/extensions/mem9`) | write buffer, cached registration | store with debounce, search, retry | memory server |
| ASMR memory (`memory/asmr`) | none across calls | fan-out to observers, searchers, ensemble | thread pool; language models |
| Harness (`core/*.py`), deploy scripts | none while the system runs | twelve setup steps | docker, git |
| tent images, volumes, compose, devices, boot, commands | files; none across commands | pull, build, mount, emulate, print | the lifecycle above; a guest kernel |

### What is hard, and what makes each part correct

* **Orchestrator.** It must not call the gateway when a circuit is open, PAUSE exists
  or the budget is spent; must not lose or double an iteration in its books over
  crashes; must stop. Hard: every sleep is interruptible, PAUSE changes at any time,
  metrics are published by another thread and restored by another process, and two
  counters of failures have to agree.
* **Metrics writer.** A reader must find a whole file that never goes back in time, and
  a stop must leave the last counters. Hard: the writer's thread may be anywhere in a
  flush when the process stops or crashes, and a join that times out lets a second
  thread flush at the same time.
* **Upload worker.** A chunk must not be ingested twice, a task must have one worker, a
  final status must stay, a queued task must find its file and must not be requeued for
  ever. Hard: several instances without leases, a timeout that is also the age at which
  a task counts as abandoned, statements that fail after taking effect.
* **Tenant pool and provisioning.** A connection pool must not leak or be closed twice,
  the limit must hold, an eviction must not take what was just handed out, and no tenant
  may be served from half a schema. Hard: pings and closes happen outside the lock, one
  ping inside it, and provisioning has no compensation.
* **Memory service.** A memory has one successor, a pinned one is never replaced, a
  vector belongs to its text. Hard: reads, a language model and writes are seconds
  apart, without a transaction or a version between them, in goroutines nobody waits for.
* **Embed-service.** A descriptor must be in one thread's hands, a wakeup must not be
  lost, a shutdown must end. Hard: numbers of closed descriptors are used again, waits
  end by themselves, a signal may hit any thread.
* **tent.** A guest must not run untracked or without its disk, and a destroy must not
  take a running sandbox for an orphan. Hard: guests die with their process, the file is
  read once and written whole by each process, and every step may fail or be the last.

The hazards are listed one by one, with their lines, in `PROJECT.json` under `hazards`.

## 2. Modules

| Module | Models |
|---|---|
| `CircuitBreaker` | The class `CircuitBreaker` as pure functions on its state |
| `Orchestrator` | `main()`, `send_to_openclaw`, the budget guard, signals, PAUSE, crash and restart |
| `GatewayGuard` | Abstract: what a circuit breaker promises about calls |
| `OrchestratorHistory` | Two history variables and the properties that count calls over time |
| `OrchestratorProofs`, `OrchestratorRefinement` | Proofs about the loop; that it implements `GatewayGuard` and uses its file as a `MetricsFile` |
| `MetricsWriter` | `_MetricsWriter` and `_load_metrics` at the level of open, write, rename |
| `MetricsFile` | Abstract: a register that only moves forward and is reloaded |
| `MetricsWriterProofs` | Proofs about the writer; that it implements `MetricsFile` |
| `UploadWorker` | The import pipeline on several instances |
| `ImportHistory` | Abstract: what may ever become of a task, its progress and its chunks |
| `UploadWorkerProofs` | Proofs about the import; that it implements `ImportHistory` |
| `TenantPool`, `TenantPoolProofs` | The pool with its callers, the sweep, the shutdown and provisioning, and proofs |
| `MemoryStore` | Updates, ingestion and reconciliation over a tenant's two tables |
| `MemoryHistory` | Abstract: what may ever become of a memory and of a message |
| `MemoryStoreProofs` | Proofs about the store; that it implements `MemoryHistory` |
| `EmbedService`, `EmbedServiceProofs` | Threads, queue and connections of the embed-service, and proofs |
| `Sandbox`, `SandboxProofs` | The sandboxes of tent over several processes, and proofs |
| `MC*` | Sequences and functions that a `.cfg` cannot write down |

`Orchestrator` and `MetricsWriter` are two views of one process. `Orchestrator` publishes
in one atomic step (`Flush`, `EndProcess`), and `BooksAreRegister` says that what it does
to the file is a `MetricsFile`, counted in outcomes; `IsRegister` says the same of
`MetricsWriter`, counted in updates. So both sides meet in one abstract register:
the thread keeps that promise as long as its I/O ends within
the five seconds of `stop()`, and `MetricsWriter` shows what happens when it does not.

The components meet at narrow places, and each is modelled with the other's end of it: the
orchestrator and its writer as said; `TenantPool` has the requests, the tasks of the upload
worker and Provision as callers that hold a handle as long as they like; `MemoryStore` has
an import as another `Ingest`. A few definitions beside the actions, such as
`RemoveUnlinked` next to `Remove`, are what a plausible mistake in that code would look
like: `PROJECT.json` uses them as mutants, and `Next` never does.

### Orchestrator: state and actions against the code

`pc` is where the main thread is: at the top of the loop (`head`), in one of the sleeps
(`resting`, `backoff`, `retrying`), inside the request (`calling`), between counting an
outcome and `write_metrics` (`recorded`, `skipped`), in `finally` (`ending`), or not
running (`down`). `clock` is `time.monotonic() - _start_time`; a sleep is a deadline in
`wake` that a shutdown cuts short, as `_interruptible_sleep` does. `metrics` is the part
of `_metrics` that decides anything, `disk` that of `metrics.json`.

The checks of one pass (0, 0b, 0c, 1, 2, 2b of `main`) are one action each, in the order
and with the early exits of the code; `BeginCall` and `SkipCall` are the two sides of
`allow_request`; `GatewayAnswers` books the three classes of `classify_iteration`;
`CallFails`, `RetryLater`, `Retry` and `AbandonRetry` are the ways through
`send_to_openclaw`, all of which but a retry end in `BookException`, the two `except`
clauses. `TouchPauseFile` may fail, as the `OSError` handler allows. What a response says
is reduced to its class and its cost. Idle mode is left out: `_response_indicates_idle`
returns False, so `consecutive_idles` is always 0. `Costs` is a set of integers, so money
is in units instead of dollars; the projection is the same inequality without division.

### MetricsWriter: state and actions against the code

Counters are one version number. A file name denotes an inode, because `open("w")`
truncates the inode that `metrics.tmp` names, a write goes to the inode opened before,
and a rename moves the name: with two flushers these come apart. `TakeSnapshot`,
`Open`, `Write`, `Replace` and `FlushFails` are `_flush_to_disk`; `Join`, `JoinTimesOut`
and `NothingToFlush` are `stop()`; `WriterEnds` is the way out of `_run`. `Crash` may
happen between any two steps. The content of one `json.dump` fits Python's buffer and
reaches the file at the close, in one piece.

### UploadWorker: state and actions against the code

`row` is the table `upload_tasks`, `disk[i][p]` says whose bytes are at path `p` of
instance `i`, `step` and `job` are the goroutines of `processTask` with the chunk counter,
the deadline of the task's context and the data they read. `StoreFile` and `CreateTask`
are the two halves of the handler; `StartServer` runs `ResetProcessing`; `FetchPending` is
one poll; the rest follows `processTask` from statement to statement. Each statement may
fail, and with `UnsureErrors` it may have taken effect nevertheless (a lost answer to a
COMMIT). A file is found by its path alone, as in the code. `handed` records the chunks
given to the ingest service, which is external to the module. Parsing, the content of
files, progress reports and the statements in other SQL dialects are left out.

### TenantPool: state and actions against the code

`conns` is the pool's map, `open` the handles that are not closed, `request[c]` where
goroutine `c` is in `Get`, and which handle it holds. `Get` is cut at its waits: `Lookup`
(read lock), `Ping`, `Touch` (write lock, which returns a handle that may have left the map
meanwhile, the step `stray`), `Remove`, `CloseRemoved`, `Lock`, and `OpenSucceeds` or
`OpenFails` at the ping that is made under the lock. `SweepBegins`, `SweepCollects` and
`SweepCloses` are `evictIdle`, which takes the time before the lock; `Shutdown`, `Close`
and `CloseCloses` are the way out of `main`. `Provision`, `Register`, `InitSchema`,
`SetVersion` and `Activate` are the steps of `service/tenant.go`; a statement may take
effect and report an error. `Admitted` is the test of the middleware.

### MemoryStore: state and actions against the code

`rows` is the table `memories`, `sessions` the table of messages, `job[j]` what a goroutine
still holds: a copied row, what its searches found, how many decisions are left. `Update`
and `Write` are the two halves of a PUT, `Create` and `Ingest` the two kinds of POST, whose
work begins after the answer 202. `Search`, `AddFact` and `Act` are `reconcile`, with
`addAllFacts` when nothing was found. `Replaces` is `ArchiveAndCreate`, one transaction
that checks that the row is active; `Deletes` is `SetState`. `ReadMade` puts a request's
tags on the rows its reconciliation made, through the same `Write`. `PatchTags` is a
goroutine of `session.go`. A search and a model answer anything. Any step may be the
goroutine's last (`GivesUp`).

### EmbedService: state and actions against the code

`client` and `talks` are the descriptor and the client's end of it, `held` is what the main
thread has accepted and not yet queued, `worker` the threads. What happens under the queue's
mutex is one step, and `pthread_cond_wait` is the step to `wait`, which ends by a signal, a
broadcast or by itself (`WakesUp`). `Serve` and `Hangup` are `handle_connection`, `Close` is
the drain and the `close`. `Signal` may be handled in any thread: only in the main thread
it interrupts `accept`.

### Sandbox: state and actions against the code

`file` is `state.json`, `table[m]` the copy process `m` made of it at its start,
`handle[m]` its `runningVMs`, `guest` the VM objects of the KVM backend with their run
loops, `disk` and `tap` what exists on the host. `request[m].at` is the place in a request
where a crash, a guest's exit or another process may come in between: `Create` and `Clone`
go over `network`, `record` and `report`; `Start` over `booted`; `Stop`, `Restart` and
`Destroy` over `cleanup`, `stopped`, `wipe` and `forget`. `ProcessEnds` is the end of a
command, a signal or a crash: the guests of the process go with it, and a write under way
leaves a torn file that no process can read (`state.go` reports an error).

## 3. Runs

Runs that pass explore the whole state space of the instance given in their `.cfg`.

| Run | Question | Instance, and why it is enough |
|---|---|---|
| `loop` | Do breaker, streak and way out of a call agree at any time, does the loop implement `GatewayGuard`, and does every process end? | Threshold 2, two requests per call, 6 ticks, a restart, limits on iterations and budget: a circuit opens, skips a call, is probed, doubles its cooldown and closes again; the emergency threshold and each limit is reached. |
| `restarts` | Books, published outcomes, PAUSE and budget over crashes | Two processes, iterations limited to 4, cost 2 against a budget of 1: torn snapshots are taken and restored, and the muted budget guard is restarted with the budget spent. Two processes suffice for what one hands to the next. |
| `metrics_register` | Is `metrics.json` a register, is the last flush the last state, does a stop return? | Three versions and three inodes: one published, one temporary, one left over. No two steps of the writer need more. |
| `metrics_slow` | What can break a file when I/O outlasts the join? | As above with `SlowDisk`: two flushers at once, four inodes for two open descriptors and two names. |
| `import` | Order, single worker, safe reset, final status, and is `ImportHistory` implemented? | One task of two chunks on two instances over five ticks, with a timeout of one tick and unsure errors: abandoned, reset and taken up by the other instance, more than once. Tasks share nothing but the disk, so one is enough for these properties. |
| `single` | Is a queued task's file where its row says, and is a task requeued for ever? | One instance, two uploads, two paths: a path is freed and used again, and one task waits for the other's worker. |
| `elsewhere` | As `single` with two instances, refuted | See section 6. |
| `tenants` | Handles, limit, eviction, schema, and does `Get` return? | Two tenants, one of them yet to be provisioned, two callers and two handles against a limit of 1: the loser of a race closes its handle, the map is full, a handle is evicted or closed by a shutdown under its user. Two callers are enough for what one does between the steps of the other. |
| `memories` | Successors, vectors, and is `MemoryHistory` implemented? | Two goroutines, up to three memories, two contents, one message: two decisions about the same memory, a decision about one that is deleted or replaced meanwhile, a copy that is written late. |
| `embed` | Who holds a descriptor, is a wakeup lost, does the work end? | Three descriptors, two workers, a queue of two, two requests per connection: the queue is full, both workers sleep or race for one descriptor, descriptors are used again, a shutdown finds all of this. |
| `sandbox` | Are guests tracked, do they keep their disks, are orphans gone, do locks hold? | Two names, two guests, a server and a command, one process at a time: a restart over a crashed one, a rename, a clone, a guest that exits during any request. |
| `sandbox_orphan` | As `sandbox` with two processes at a time, refuted | See section 6. |

Deadlock is checked in every run but `tenants` and the two of `Sandbox`: a pool that was
closed after the last tick with no caller left, and a torn `state.json` that no process
can start from, are ends that the code has as well.

Bounds: `Horizon` stops a clock, `MaxRestarts`, `MaxIterations` (which is also the
variable of the code) and `MaxVersion` bound processes, iterations and updates; `Guests`
and `Handles` are what is in memory at a time and are used again; `MaxAdded` and `MaxRows`
bound the memories ever created, and `MaxFacts` the model's decisions as well as the facts.
A sleep whose deadline would lie beyond `Horizon` ends on it. `memories` has goroutines and
contents as symmetric values, and explores messages together with at most one memory
(`Apart`), since no statement touches both tables. None of these limits the
proofs, which hold for all values.

### Fairness

* `Orchestrator`: weak fairness of the main thread, since it is scheduled and `urlopen`
  has a timeout, and of time. None for signals, the operator, the writer thread,
  crashes and restarts; weak fairness of the union, so no branch of a choice is promised.
* `MetricsWriter`: weak fairness of each of the two threads; an I/O call returns but need
  not succeed. None for `Crash` and for updates.
* `UploadWorker`: weak fairness of every task's goroutine and of time; strong fairness of
  "instance `i` takes task `u`", because polls come every five seconds at independent
  moments, so a poll meets the task between two visits of the other instance some time.
  Statements need not succeed: `QueueDrains` excepts a task given up by an error, which
  stays `processing` until a later start resets it.
* `TenantPool`: weak fairness of the steps that wait for a database (a ping ends with the
  context of its caller, 30 s for a request by `requestTimeoutMiddleware`, the task's timeout
  for an import, or with its connection), strong fairness of the steps that wait for the
  lock, as a Go `sync.RWMutex` starves neither readers nor writers. None for the sweep, the
  shutdown, new requests or the end of a use.
* `EmbedService`: weak fairness of the threads, and of each client falling silent. The
  latter is an assumption about clients, not something `main.c` enforces: `recv` times out
  after 30 s of silence, but nothing limits a client that goes on sending.

## 4. Properties

* `FailureCountsAgree`: the breaker's count, the loop's streak, the mode and the emergency
  threshold stay in step, over skips and over agent failures that reset only one of them.
* `GatewayGuarded`: the loop implements the contract of the breaker.
* `OutcomesMatchIterations`: no iteration without an outcome, and at most one outcome too
  many per process, in memory and on disk. The surplus is real: a snapshot may be copied
  between the two increments, and is then the start of the next process.
* `BooksAreRegister`: a process goes on from the outcomes that are published, and publishes
  no fewer than were published before, however the one before it ended.
* `PauseIsRespected`, `OverspendIsBounded`: how many calls the stale check of PAUSE (one)
  and the muted budget guard (as many as fit its window) let through.
* `PublishedIsWhole`, `LastFlushIsLatest`, `IsRegister`, `OnlyStopTears`: the promise of
  the metrics file, and where it ends.
* `HandedInOrder`, `ResetIsSafe`, `FinalIsFinal`, `QueuedHasItsFile`: the import.
  `IsImportHistory`: what its client and the ingest service may see of it. A task is queued
  once, put back only from `processing` and ends for good; a chunk is counted before it is
  handed on, and handed on while the task is processed, after all before it.
* `OneOwner`: an open handle is in the map or is one goroutine's to close, whatever pings
  fail and whoever comes in between; `LimitHolds`: the limit counts the one being opened;
  `EvictedIsIdle`: what the map returned is not evicted before the timeout is over, counted
  from that `Get` and not from the end of the use; `ServedHasSchema`: no request reaches a
  database without its tables.
* `OneSuccessor`, `VectorFitsContent`, `IsHistory`: what survives overlapping updates,
  deletions and reconciliations. That the later update wins is not excluded, since nothing
  in the code compares versions.
* `OneHolder`, `NobodySleepsOverWork`: no descriptor leaks or is closed twice; each queued
  one has a worker that is about to look.
* `GuestIsTracked`, `GuestHasDisk`, `OrphanIsGone`: the sandboxes; `LocksHold`: a lock
  leaves the file only by an unlock of its sandbox, or along with it to a new name.
* Liveness: `EveryProcessEnds`, `StopReturns`, `QueueDrains`, `GetReturns`, `WorkEnds`.

## 5. Theorems

All proofs are for arbitrary constants under the named assumptions of the modules.

* `OrchestratorProofs`. `TypeCorrect`; `ProbeReportsBack`, `CountsAgree` and
  `BooksBalance` are `HalfOpenOnlyDuringProbe`, `FailureCountsAgree` and
  `OutcomesMatchIterations`. They are not inductive by themselves: that the counts agree
  at the end of a call depends on the streak being below the threshold when the call
  began, and that the books balance on how many outcomes are counted but not yet
  written at each `pc`. The inductive invariant says both for each location, and that
  what is on disk is no further ahead than the process that wrote it could be.
  `PauseHolds` and `OverspendHolds` are about `OrchestratorHistory`. The first needs that no
  call is counted yet where the loop may still begin one, after a check that found no file.
  The second needs the time already used: at each location
  the calls begun over budget, each with its cooldown, fit in the clock, and none begins
  after `MinBudgetTime`.
  `SignalsEndProcesses` is a liveness theorem: `FairSpec` and `[]NeverBlocked` imply that a
  process with a shutdown pending ends, with one leads-to per location and none that needs
  the clock, since `shutdown` cuts every sleep. `NeverBlocked` says that the main thread of
  such a process can take a step.
* `OrchestratorRefinement`. `LoopIsGuarded`: `Spec => Guard!Spec`, with `probeAt` mapped
  to the end of the open period and `calling` to the locations inside a call. Each action
  is a step of `GatewayGuard` or a stutter; it needs the invariant above to tell `Trip`
  from `FailClosed`. `BooksSurvive`: `Spec => Books!Spec`, where the memory of a process that
  is down is what it has published; what must be carried along is that a process has booked
  at least what is on disk.
* `MetricsWriterProofs`. `WriterTypes` for any disk; `AlwaysWhole`, `StopFlushesAll` and
  `WriterIsRegister` under `~SlowDisk`, that is, the I/O of the writer ends within the
  join. The invariant says that only one flusher is active, that the inode it writes is
  the one `metrics.tmp` names and not the published one, and that the snapshot lies
  between the published and the current version. `OnlyStopTearsIt` holds for any disk and says
  where the assumption matters: as long as no `stop()` has given up, there is one flusher.
  `StopsReturn` is `StopReturns` for any disk, from `FairSpec` and `[]NeverBlocked`, by the
  places of the joined writer and of the thread that stops it: the join returns or gives
  up, and the final flush has a fixed number of steps.
* `UploadWorkerProofs`. `UploadTypes` without further assumptions; `ChunksInOrder`,
  `FinalStays` and the refinement `ImportIsHistory` under `OneAtATime`, which holds for
  either of two reasons. There is one instance, and then no poll or reset meets a task
  that is worked on, since `StartServer` runs when no goroutine does. Or `WoundUpInTime`,
  `TaskTimeout + Overrun <= StaleTimeout`: whatever a worker still does for a task after
  its context has expired is over before the task counts as abandoned. In the code both
  periods are `defaultTaskTimeout`, so several instances have no slack (section 6).
  `ResetTakesAbandoned` needs `WoundUpInTime` also on one instance. The invariant is
  a conjunction per task: what a worker's counter, its deadline and the row have to do
  with each other (`WorkerInv`), what the row and the chunks handed on have to do with
  each other (`RowInv`), and that there is at most one worker (`OneWorker`); and
  an instance that is down has no job (`DownIsIdle`). `ImportIsHistory` takes every
  statement in both outcomes, with and without effect, to a step of `ImportHistory` or a stutter.
  `QueuedFilesStay` is `QueuedHasItsFile` for one instance with statements that do what
  they report, whatever its timeouts: a file stays while its request is under way, while its task is queued or
  worked on, and until the cleanup that is its own. `DoneTasksAreCounted` adds, under the same
  assumptions, what an upload is for: a done task has counted all chunks of its own file.
  It follows from the file being there: the number of chunks a worker has read is that of
  its task's file, and no row counts beyond it. With two instances the cleanup, which
  goes by the path, may take another task's file (section 6).
* `TenantPoolProofs`. `PoolTypes`, `HandlesHaveOneOwner`, `TheLimitHolds`,
  `EvictionsAreLate` and `ServedTenantsAreReady`, without further assumptions. `OneOwner` is
  proved handle by handle and is inductive once it also says that one caller at most holds
  the lock, that this caller's tenant is not in the map, and that the sets of the sweep and of
  Close are filled once. That served tenants have tables needs that a provisioner is alone
  with its tenant until it activates it; the eviction needs that a returned handle's `since`
  is no later than its `lastUsed` in the map and that the sweep's time is no later than the clock.
* `MemoryStoreProofs`. `StoreTypes`, `MemoriesHaveOneSuccessor`, `VectorsFitContents` and
  `StoreIsHistory`, without further assumptions. The invariant `StoreInv` has a part for
  the tables (numbers without gaps, successors later and unique), one for the jobs (what a
  goroutine holds was created, and a vector it will write fits the text it will write) and
  one for the messages. Every statement maps to a step of `MemoryHistory` or a stutter.
* `EmbedServiceProofs`. `EmbedTypes`, `DescriptorsHaveOneHolder` and `NoWakeupIsLost`, for any
  number of connections and workers. The two are inductive
  together with the shape of the threads: the main thread holds a descriptor exactly before
  a push, a worker exactly while it serves or closes. The proof of the second compares the
  length of the queue with the number of workers about to look, by cardinalities.
  `ShutdownsAreClean` says what a shutdown leaves: a worker ends only on an empty queue, and
  when `main` returns every descriptor is closed. It needs that nobody waits or pushes once
  the flag is set, and `OneHolder` for what the last workers have put down.
* `SandboxProofs`. `SandboxTypes` for all constants, the others under `Exclusive`, one tent
  process at a time. Each needs only that those things do not fail that would refute it:
  `NoGuestLeaks` that `state.json` can be written and a cancelled run loop returns before
  an unpause; `DisksOutliveGuests` that a removal is complete as well; `OrphansAreGone` only
  that the file can be written; `LocksAreKept` nothing. Three invariants stand behind them.
  `SandboxInv`: a live guest is tracked, on record and not paused, one that may be unpaused
  keeps its disk, and what a request has seen stays true until it acts on it.
  `OrphansKnown`: a guest that executes belongs to the process that is up, whose memory
  is what the file says; a record without a handle has none, and stays so while a Destroy
  acts on it.
  `LocksKnown`: what is locked in memory is locked in the file until a command ends, so that
  a write of the whole table loses no lock. Section 6 says what refutes each of them.

Only model-checked: the liveness properties `EveryProcessEnds`, `StopReturns`,
`QueueDrains`, `GetReturns` and `WorkEnds`. `ENABLED` is out of the prover's reach, so
`StopsReturn` and `SignalsEndProcesses` have it as the hypothesis `NeverBlocked`. TLC finds
`[]NeverBlocked` to hold on the instances of `metrics_register` and `metrics_slow` (with
`FairSpec`) and of `loop`. The others need more: `EveryProcessEnds` an induction over the
clock, `QueueDrains` and `WorkEnds` one over what is queued, and these two and `GetReturns` have a
fairness condition per thread, a quantified temporal formula that the prover cannot instantiate.

## 6. Disagreements between the code and what is said of it

Shown by a run:

* `elsewhere`: a task put back "so the instance that has the file can pick it up"
  (`upload.go:175`) may have no file anywhere, since another instance took its own file of
  the same path for it and removed that, or its task was marked done by it.
* `sandbox_orphan`: "Orphaned state - VM process is gone, proceed with destroy"
  (`manager.go:905`). A second tent process has no handle of a guest that runs in the
  first, so `tent destroy` beside `tent api` removes the disk of a running guest.

Found by changing an instance, without a run of its own:

* `Sandbox` with `Faults = {"save"}` violates `GuestIsTracked`: a Pause that cannot write
  `state.json` lets the guest run on but leaves "paused" in the table in memory. With
  `{"late"}` it is violated as well: the run loop that Pause cancelled returns after an
  Unpause and marks a running VM as stopped, so the next Status drops its handle. With
  `{"rm"}` `GuestHasDisk` is violated: a Destroy of a paused sandbox that fails halfway
  leaves the record, and an Unpause continues the guest without its disk. The other two
  faults violate `GuestHasDisk` too, `{"save"}` also `OrphanIsGone`, and no fault violates
  `LocksHold`: the theorems of `SandboxProofs` draw this line.
* `Sandbox` with two processes at a time violates `LocksHold`: "Lock prevents a sandbox
  from being stopped, destroyed, or modified" (`manager.go:2354`), but a process that read
  `state.json` before the lock writes its whole table back with its next change.
* `MetricsWriter` with `SlowDisk`: "Atomic write (tmp + rename) prevents corruption"
  (`EXPLANATION.md:294`) does not hold once `stop()` gave up waiting and flushes beside the
  writer. `metrics_slow` shows that nothing else breaks the file.

Read while modelling:

* `loop.py:1172` says "remove workspace/PAUSE to resume". After an emergency pause this does
  not resume anything, as the streak is still at its threshold; the loop pauses itself
  again at once. A process restart helps.
* `loop.py:474`: the projection of the budget guard multiplies the spend of all processes
  with the elapsed time of this one, and so stops runs within their budget.
* `loop.py:1302` logs "no backoff" for an agent failure, but the streak is kept, so an
  agent failure within a streak is followed by the backoff of `loop.py:1218`.
* `make test-run` ("Run a single iteration for testing") sets `MAX_ITERATIONS`, which is
  compared with a counter restored from disk: on a used workspace it runs none.
* `upload_task.go:147` calls the reset safe for several instances. A task whose context
  expired is still being failed under the worker's own context, which has no deadline,
  when its row is old enough to be reset; `UploadWorker` with `Overrun` above 0 shows it,
  and the theorems exclude it by assumption.
* `EXPLANATION.md` describes a backoff that doubles up to an hour; `backoff_delay` returns 60 s.
* `README.md:112` of mnemo-server describes `If-Match`: it only warns, and `UpdateOptimistic`
  is called with version 0 by both callers and compares neither version nor state, so a PUT
  may write a row that was archived or deleted since it was read. A PUT of tags alone
  clears the vector, as `GetByID` does not load it.
* `addAllFacts` (`ingest.go`) takes all facts for new; with two ingests of the same text at
  once, both find nothing and both add. `ArchiveMemory` is used by nothing.
* Messages without a session id are stored again with every retry: the unique index of
  `schema.go:148` has a NULL column for them, and INSERT IGNORE
  (`sessions.go:41`) never sees a duplicate.
* `main.go:183`: `ListenAndServe` returns when `Shutdown` begins, and `main` closes the pool
  and exits under the requests that `Shutdown` waits for.
* `embed-service/README.md:84` speaks of 8 threads; the code takes the number of CPUs, 4 at
  most. Line 89 says 10 s timeouts; `recv` has 30 s. Line 86 promises a graceful shutdown; a
  signal between the test of `g_running` and `accept()`, or one delivered to a worker, is
  noticed only with the next connection, which is why `WorkEnds` starts at the join. A
  second request that arrives in the same `recv` as the first is dropped.

## 7. What is not modelled

Left out of the modules above:

* `UploadWorker`: parsing, progress, batches beyond their order, the dialects of other databases.
* `TenantPool`: the per-tenant cache of services, the lazily made sessions table, clusters
  left at the provider by a failed Provision, requests that go on after Close until the
  process exits. The instance has one tenant of each provider but provisions only the
  `tidb_zero` one; the proofs cover both.
* `MemoryStore`: ranking (a search returns anything), the database's own auto-embedding,
  versions and ETags in answers, tags and metadata of memories, conversations without a
  session id.
* `EmbedService`: start-up, routing, metrics, the embedding itself.
* `Sandbox`: overlapping requests of one server, snapshots, checkpoints, exec, logs, labels;
  hooks, mounts, policies, limits and port forwards only by the errors they return.

Components without a module, and why:

* The claude-code adapter, the oversight sidecar and the mem9 plugin are clients of what is
  modelled: one agent per request, a reader of `metrics.json`, a sender of POSTs. Their own
  state is a counter or a buffer in one thread; what an agent does is outside the code.
* The rate limiter is one locked map of token buckets from a library.
* ASMR joins its fan-outs before it stores anything.
* Harness, deploy scripts, clients, dashboard and site are sequential or presentation.
* The rest of tent: images, volumes, compose, networks and the command line run one step
  after the other in one command; devices and boot are register-level code against a guest
  kernel. These are most of the repository's lines, so the modules stand for a small share of
  the whole and for most of what in it is concurrent, shared or restarted.

What could come next: overlapping requests of one tent server; the checkpoints and snapshots
of tent, which copy a disk under a guest; the adapter composed with the orchestrator's
timeouts.
