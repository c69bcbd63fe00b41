# Portable TPC-C: a TLA+ model

Specifications of the benchmark worker (C++, `src/tpcc`) and of its orchestrator (Go, `src/mind`). Vendored code (`src/contrib`, `src/build`, `src/library`, `src/util`)
is not modelled.

## 1. The system

A benchmark run drives *terminals* against a DBMS (PostgreSQL, OceanBase or YDB) for a ramp-up, a
measurement interval and a drain. Several worker processes may take part; the orchestrator
(`mind-tpcc`) assigns warehouses to them, starts them at one common instant, supervises them,
collects their artifacts and consolidates one report.

### 1.1 Inside one worker

| component | state | operations | talks to |
|---|---|---|---|
| task queue, `runtime/task_queue.*` | per thread: timers, internal ready queue, inflight waiters, external ready queue, `IdleWake`; shared: `RunningInternalCount`, `WakeupAll`, stop source | `TaskReadyThreadSafe`, `AsyncSleep`, `IncInflight`, `DecInflight`, `RunThread`, `WakeupAndNeverSleep`, `Join` | resumes terminals; adapter threads push completed futures |
| terminal, `harness/terminal.cpp` | fixed inputs, attempt, start time, metrics | one coroutine `Run`: pacing, admission, session, workflow, retry, recording | task queue, phase controller, session factory |
| phase controller, `runtime/phase_controller.h` | schedule, published phase | `SetSchedule`, `SetPhase`, `Tick`, `MayAdmit`, `CompletelyWithinMeasurement` | written by the main thread, read by terminals |
| run loop and runner, `harness/run_loop.cpp`, `dbms/*/runner.cpp` | global stop and error flags, exit code | wait for `--start-at`, measurement and drain loop, stop, exit code | phase controller, task queue, pool |
| workflows, `transactions/*.cpp` | `TransactionsInflight`, logical inputs | five TPC-C transactions over a session interface | session of an adapter |
| connection pools and sessions, `dbms/pgsql`, `dbms/oceanbase`, `dbms/ydb` | free connections, checked-out connections, waiters, replacements | acquire, release, replace, `CancelAll` | terminals, adapter I/O threads, DBMS |
| error classifiers | none | native code to `EErrorClass` | terminal's retry policy |
| futures, timer queue, circular queues, thread pool | small containers | | everything above |
| metrics, artifacts | histograms, JSON files | record, merge, write atomically | terminal, orchestrator |
| loader, generator, checks | rows of a warehouse range | load, retry, check | DBMS |

### 1.2 The orchestrator

| component | state | operations |
|---|---|---|
| command line, `internal/cli` | none | resolve a run, lock it, run a stage, give the locks back |
| run state and locks, `internal/state` | `run-state.json`, profile and run lock files | `Load`, `Save`, `Transition`, `Fail`, `RecordSkip`, `UpsertProcess`, acquire and release, `LatestRunID` |
| orchestrator, `internal/orchestrator` | run directory (`run-config.json`, `profile.sha256`), processes on hosts | `Materialize`, the stages, the pipeline `run`, `stop`, `cleanup`, `drop`; launch, supervise, stop, reap, collect |
| worker process, seen from outside (`harness/orchestrated_roles.cpp`, `artifacts.cpp`) | `process.json`, `ready.json`, `result.json`, `artifact-manifest.json` in an instance directory | written in this order, each atomically |
| assignment, schedule | none | warehouse ranges, common start |
| collect, consolidate, histogram merge | `results/<run>/raw`, `collection-manifest.json`, `aggregate.json` | download and verify, validate, merge, report |
| remote execution, configuration | none | commands on hosts, parsing |

Commands are processes of their own. They meet in the files of the control host only, and meet the
workers in the instance directories and through signals.

### 1.3 What is hard

* *Concurrency in the scheduler.* Slots are counted with one atomic that overshoots; waiters are
  promoted by their home thread only, so a slot freed by one thread must wake another; handles move
  between five containers.
* *Time.* Admission is decided before keying time and again before the transaction, metrics from
  clock readings around it, the phase is published by a thread that polls.
* *Failure.* An attempt may fail with six classes at any of its operations; a commit may be applied
  though the client is told otherwise; retries must not apply a transaction twice.
* *Shutdown.* Signal, integrity error, lost pool, end of drain, all race with terminals in any state.
* *Pools.* Waiters, background replacement and cancellation race with releases.
* *Commands and crashes.* A command resolves its run before it locks it; updates of the run state are
  a load and a save; a killed command leaves its lock files, a half-made run and running workers.
* *Files that outlive their writers.* Two launches of a worker share a directory; what `test`, `collect`
  and `consolidate` find there may be of either.
* *One computation in two languages.* Histograms are recorded by C++ and validated and merged by Go.

The list of hazards, with the line where each bites and the property that watches it, is
`PROJECT.json`, `hazards`.

### 1.4 What makes each component correct

* task queue: slots neither leak nor exceed `max_inflight`; a handle is owned once; no wake-up is
  lost; `Join` returns.
* terminal and phase controller: transactions start only in the admission window; every exit
  releases the slot; no blind retry; truthful metrics; fixed inputs.
* runner: the run ends; a failure that was handled shows in the exit code; drain waits for what was admitted.
* pools: connections are conserved; nobody waits beside a free connection; cancellation reaches
  every waiter.
* run state, commands: at most one command works on a run and on a profile; no update is lost; locks are
  given back on every path; a run belongs to one profile.
* orchestrator: a test completes on the word of a process that ended well, and, in a clean directory, of the
  one it launched; it ends; it leaves nothing
  running; what is published comes from whole, finished measurements of single processes.
* assignment: warehouse ranges partition the warehouses evenly.
* histograms, consolidate: what workers write is accepted, and the published figures are those of all
  samples.

## 2. Plan

| step | modules | status |
|---|---|---|
| 1 | `InflightGate`, `TaskQueue`, `TaskQueueProofs` | modelled, checked, proved |
| 2 | `Worker` (on `InflightGate`), `WorkerProofs` | modelled, checked, proved |
| 3 | `ObConnectionPool`, `ObConnectionPoolProofs` | modelled, checked, proved |
| 4 | `RunState`, `ControlHost`, `ControlHostProofs` | modelled, checked, proved |
| 5 | `Measurement` (on `RunState`), `MeasurementProofs` | modelled, checked, proved |
| 6 | `Assignment`, `AssignmentProofs` | modelled, checked, proved |
| 7 | `Histogram`, `RawHistogram`, `HistogramProofs` | modelled, checked, proved |
| 8 | `Results` (composes `Assignment` with both), `ResultsProofs` | modelled, checked, proved |
| 9 | the PostgreSQL pool; statements and commit paths of the adapters with their classifiers; start schedule; timer and circular queues, futures; loader retry | planned |

Abstract specifications: `InflightGate` (done); a pool of `PoolSize` connections without fairness that the
OceanBase and PostgreSQL pools implement.

## 3. Modules

A definition `FaultX` placed before `X` is a plausible bug in `X`. No specification uses it; it
documents, executably, a change that the properties notice (see `mutants` in `PROJECT.json`).

### 3.1 `TaskQueue`: the scheduler

State. `readyI`, `readyE`, `waiting`, `due` are the queues of each thread; a sleeper whose deadline
has not passed is only marked in `where`, since the order of future deadlines is unknown, and
`TimerExpires` moves it to `due`. `batch` is the local vector drained from the external queue. `cur`
is the coroutine a thread executes; `pc` the position in `RunThread`, `call` the position of the
running coroutine inside `IncInflight` or `DecInflight`. `running` is `RunningInternalCount`;
`holders` is history. `where` records, for every coroutine, which container holds it, and makes
double ownership visible.

Atomicity. A step ends where another thread can observe or change shared state: between
`fetch_add` and the matching `fetch_sub`, between the checks of `MaybeIdleWait` and the reset of
`IdleWake`, between a push and its notification, between two iterations of `NotifyAllThreads`, and
between setting a flag and notifying. Queues that only their owner touches are read and changed
within a step. A notification under `IdleMutex` is one step, as is "reset `IdleWake`, evaluate the
predicate, block".

The coroutine itself is free: when resumed it may sleep, take or release a slot, wait for a future
(only inside a slot, as the terminal does) or finish, in any order. This includes everything
`terminal.cpp` does. `IoThread` are the threads that complete futures (an adapter's pool, or the main
thread while it starts the terminals).

Left out: `TaskReady` and `TYield`, which nothing calls; statistics; spurious wake-ups of the
condition variable, which only add wake-ups; the exceptions for a full queue, which `SingleOwner`
shows unreachable (a queue has `TerminalCount` places and a coroutine is in one queue once).

### 3.2 `InflightGate`: what the scheduler promises

A counting semaphore with no fairness among waiters. `TaskQueue` implements it with
`holding <- holders`; `Worker` uses its actions.

### 3.3 `Worker`: terminals, phases, main thread, exit code

A terminal's `pc` names the suspension point it is at; `tx[t]` is the local state of its current
business transaction plus its history (commits applied, inputs used, outcomes recorded). A step is
what the coroutine does between two suspensions. Two reads of shared state in one step are merged
when a run of the code with both reads at one instant has the same effect, which holds for
`stop_requested` followed by `MayAdmit` (stop never goes back, the window closes once). They are split
for `MayAdmit` followed by `Phase() == Prepare`, where it matters (finding 2).

The adapter is an environment: a session is granted, refused, or the request fails; `Begin` may fail;
an operation may fail with any class; a commit may be applied and reported, applied and reported as
ambiguous or permanent (libpqxx's `in_doubt_error` is unknown to the PostgreSQL classifier), or not
applied and reported with any class. The classes `RetryableAbort` and `NotCommitted` are
taken at their word (nothing was applied); whether each adapter's classifier deserves that is step
9 of the plan. `integrity` is history: `met` when a commit has failed with that class, `handled` when a terminal has
dealt with such an error. The code lets the two come apart (finding 3), and `CleanExit` is about the second. `ended` separates the end of the workflow coroutine, where the in-flight guard is
released, from the resumption of the terminal.

The main thread: `prepared`, `waiting` for `--start-at`, `loop` and `drain` (one iteration of
`RunMeasurementDrainLoop`, split between publishing the phase and reading `TransactionsInflight`, with
the `wallNow` of that iteration in `tickAt`), `stopping`, `exited`. `Join` drops suspended
terminals, as the destroyed frames are.

Left out: staggered start of the terminals (a terminal starts in `loop`, and may stay there for any
time), the choice of the transaction type, latencies, console statistics, simulation mode (a
workflow that returns true or false without a DBMS).

### 3.4 `ObConnectionPool`: the OceanBase pool

`connections`, `checkedOut`, `waiters` and `pending` are the members that `Mutex_` protects; a step is a
critical section or what lies between two. `ReleaseSession` of a broken session takes four steps (unregister,
destroy, count, submit); any other session is reusable, as `TObSession::IsReusable` finds it. Connections are addresses, so that `CheckedOut_` and the list that `CancelAll` works
through can name an object that no longer exists, or a new one at the same place. The executor's queue
`tasks` holds operations of sessions and replacement tasks (`NoClient`) in order; the I/O threads are
counted: running operations, `blocked` on `ReconnectMutex_`, and the owner of it, whose position is
`replacer`. An operation ends with or without the loss of its connection.

The destructor runs after the scheduler was joined, as in `runner.cpp`, so the tests of `Shutdown_` in
`AcquireSessionAsync` and `ReleaseSession` cannot be true there and are left out; they are kept in
`ReplaceBrokenConnections`, which runs on. `CancelAll` sets `ShutdownFlag_`, another flag: it makes operations fail
early, which is one of the ways they end, and does not keep `AcquireSessionAsync` from parking a client (finding 5).
`WaitersServed` therefore speaks of the time before `CancelAll` only. Backoff times and the tenant-memory pressure flag only change delays. The blocking
`AcquireSession` and `TryAcquireSession` have no caller in a run. `MaxBacklog` bounds the replacement tasks:
the code does not, because every loss submits one while one task serves all.

The call of `KillQuery` on an object destroyed since `CancelAll` copied its address is undefined behaviour; the
model gives it no effect.

### 3.5 `RunState` and `ControlHost`: commands on a control host

`RunState` holds the pipeline states, `validateTransition` and the phase guards, as operators; `ControlHost`
and `Measurement` extend it.

In `ControlHost` an invocation is a process: `pc` runs from the resolution of its run id over the two lock
files, `Materialize` and the body to the release of the locks. The body of a command is a sequence of
operations (`StageOps`, `PipelineOps`): transitions whose error ends the command or is ignored, process
records, skips, guards, work on the hosts, removal; `ip` is the position in it. An update of
`run-state.json` is a load (`BeginUpdate`, with the validation) and a save (`EndUpdate`) of the whole file, with
`seen` in between, because that is what could go wrong. The files of a run directory are separate fields of
`dir`, written one by one by `Materialize` and removed in any order by `RemoveRun`. `recent` is the order of
`UpdatedAt`, which `LatestRunID` and its kin look at.

`WriteProfileSHA` writes `profile.sha256` and `profile.redacted.yaml` in one step: a command killed between the two leaves
a run that `consolidate --force` accepts here and refuses in the code, for want of the second file.

A profile stands for the bytes of the file with the overrides of the command line; `drop` and `cleanup` compare the
bytes alone, so that they accept in the code a run of the same file with other overrides. Two profiles may have one
`metadata.name` and then share a lock. `consolidate --force` compares the identity of two profiles; the name stands
for all it compares. `drop` falls back to materializing when there is no recorded run. `test` appears with its
state updates only; its inside is `Measurement`. `Crash` ends a command anywhere and leaves its files.
`RemoveStaleLock` is the operator, who deletes a lock file by hand once its command is dead: nothing in the
code does.

Left out: `validate`, `status`, `deploy`, `undeploy` (they take no lock and leave the run state alone); the removal
of directories on other hosts (work of `cleanup`); ties of `UpdatedAt` within one second.

### 3.6 `Measurement`: launches, artifacts, aggregate

One run, its commands one after the other (`Exclusive`). A worker process is known by its nonce, which also stands
for its pid; a process goes through `starting`, `calibrating`, `running`, `ended`, `resulted`, `exiting`, and writes
one file at each step. An instance directory keeps, per file, the nonce of its writer; the artifact manifest keeps
the nonces of the payloads it hashed. That is enough to tell which process is behind a number. `cmd` is the command at work:
`launch`, `meta` (wait for `process.json`), `arm`, `wait`/`alive` (the two looks of `waitProcesses`), `stopPeers`,
`killPeers`, `reap`, `reapKill`, `collect`, `download`, `merge`. A process may die at any step, hang, or end early
with status 0 when it is sent TERM while it runs; before the handler is installed TERM is fatal.

A launch first removes what earlier ones left in the directory, but a file that cannot be removed only gives a warning
(`drive.go:467-474`): `Leftover` is what may stay, any part of it. Nor does a new `test` wait for the processes of one
that was killed, which may still be writing. Both matter, because `waitProcessMetadata` takes the nonce to wait for from
whatever `process.json` it finds. `fresh` is history: when the process was started, no `process.json` was left in its
directory and no older process was about to write one. `CompletedOnOwnWord` says without any condition that the process
whose nonce was taken ended with status 0 and wrote a manifest, and for a fresh launch that it is the one just
launched. Without that premise, or with only the first half of it, TLC finds a test that completes on the word of
an older process (section 6).

`collect` keeps the payloads that the manifest lists, and not the manifest. So `NonceConsistent` compares the
three payloads, which is all that `validateWorkerNonceConsistency` finds to compare.

`RunEnds` may come with status 0 at any time: at the end of the measurement, or earlier after a TERM, of this
command or of anybody else.

Left out: log relaying, clock calibration beyond its failure, the artifacts of loaders and checks in `collect`.
Signals arrive, and a request to a host either succeeds or fails the step that makes it (or, while a directory is being
cleared, is passed over). Two things in the code fall outside this: `reapLaunched` passes over a worker of which it
cannot find out whether it is alive (`drive.go:1036-1039`), which may then stay behind, and a request to a host that
stops answering may last beyond every deadline of `test`. A pid is not used again.

### 3.7 `Assignment`

The loop of `BalancedContiguousV1`, one instance per step, and `ValidateRunConfigAssignment`, which the
consolidation reports as `assignment_valid`. Instances are numbered in the order of their names, which the code
sorts.

### 3.8 `Histogram`, `RawHistogram` and `Results`: from samples to figures

`Histogram` is `THistogram`; `RawHistogram` is its mirror in Go. The two layouts are written independently, as in the
code: one looks an octave up while it walks over all of them, the other builds a list. `Results` composes `Assignment`
with both: terminals count and then record (two steps: the counter is atomic and precedes the lock of the
histograms), the worker joins its threads, adds them up and writes its result, the consolidation validates, merges
and reports. `log` is history, the bag of all finished transactions that are recorded; `recording` has those that are counted
and still to be recorded. A transaction carries its worker and its thread, which the code does not write down: they say of
every figure whose it is.

Left out: progress counters and `Sub` (console only); the number of retries, of which only remains that a positive one
makes a worker write its section; saturation and overflow at 2^64; refusal of a result with
another unit or layout; the five transaction types (one stands for them) and the component histograms (one for five).

## 4. Runs

| run | instance | shows |
|---|---|---|
| `scheduler` | 2 threads, 2 terminals, 1 slot, 1 I/O thread, 2 resumes per turn, fairness | `TypeOK`, `SlotConservation`, `AdmissionBound`, `SingleOwner`; refinement of `InflightGate`; `Join` returns |
| `stranded_waiter` | as `scheduler` | finding 1 |
| `worker` | 2 paced terminals, 1 slot, 2 attempts, 2 inputs, `--start-at` at 1, ramp 1, measurement 1, drain 1, fairness | admission window, slot discipline, no blind retry, truthful metrics, fixed inputs, exit code; the run ends |
| `terminal_leaves_early`, `integrity_lost` | as `worker` with one input | findings 2 and 3 |
| `ob_pool` | 2 clients, 2 connections, 3 addresses, 2 I/O threads, backlog 3, fairness | connections conserved and exclusive, no waiter beside a free one, no replacement forgotten; waiters served, before cancellation, if the server comes back; the destructor returns even if it does not |
| `ob_operations_starve` | 2 clients, 3 connections and addresses, 2 I/O threads, backlog 2, fairness | finding 4 |
| `cancelled_pool_parks` | 2 clients, 1 connection, 1 I/O thread | finding 5 |
| `control_host` | 3 commands, 2 at a time, 9 command lines, 2 contents of one profile name, 2 run ids | `Exclusive`, `UpdatesSerialized`, `LocksHaveHolders`, `RunOfOneProfile`, `UntestedRunUnchanged` |
| `measurement` | 1 worker, 2 launches, 3 commands, fairness | `AggregateUnmixed`, `CompletedOnOwnWord`, `NoStrayWorkers`, `TestEnds` |
| `unfinished_test_aggregated` | 1 worker, 1 launch, 3 commands | finding 6 |
| `results` | 4 warehouses, 3 workers of 2 threads, 3 samples, histogram of 4 unit buckets and octaves of 4 and 5 in 3 sub-buckets each | `Partitioned`, `Balanced`, `HonestResultsAccepted`, `PublishedFiguresTrue` |

Bounds. Two threads and one slot give every race on the counter and on a notification: a third
thread adds no new pair of conflicting accesses. Two terminals with one slot make one wait. With two resumes per turn both limits of the internal loop (queue empty, budget
exhausted) occur. In `Worker` one instant per phase suffices because the code only compares
times: a step of a terminal can fall before, at or after every boundary. Two attempts give a
retry and an exhausted retry; two inputs make a changed input visible. `LastInstant` stops the clock at
the drain deadline, after which every comparison has its final value. In the pool there are as many clients
as connections, as in the worker, where both equal `max_inflight`; a client is parked when connections
are being replaced. A backlog of three lets every connection be lost, and one of them again while the first
replacement task is still in its loop. A third address lets a new connection be, or not be, where a destroyed
one was. No other bound is in the models:
`running` and `now` are natural numbers; the counters of the code are 64 bits wide and bounded by
`TerminalCount`.

Control host: conflicts are between two commands, and a third comes after one of them has ended or was killed, which
is what a lock left behind and removed needs. The command lines are one of each kind of path: `indexes`,
which may also move the state back, `stop`, the pipeline with skips, the three consolidations (own profile, a profile edited since, forced),
`cleanup`, `drop`, and `plan` naming a run of another content. The stages that are not requested differ
only in the state they move to; `schema`, `load`, `check`, `debug`, `test` and `collect` run inside `run` or share their
operations with the ones requested. `checks.fail_fast` is off, the case in which a failed step does not end
the pipeline. `MaxLive` and `Invocations` are the bounds.

Measurement: two launches give an old and a new process in one directory; three commands give two tests and a
consolidation, or a test, `collect` and `consolidate`. One worker is enough for what is said of a worker's
directory, and for the finding, in which the test is killed. `MaxLaunches` and `MaxCommands` are the bounds.

Results: 4 warehouses over 3 workers have a remainder of 1; the worker with two warehouses uses both threads. The
samples of the two histograms lie, between them, in the exact part, in the first octave, in the last one (cut short by the
maximum) and beyond the maximum; three sub-buckets divide neither octave evenly. Three samples give every distribution over workers up to
one each, and ranks that fall between. `MaxSamples` is the bound.

Deadlock checking is off because a run ends: threads exit, terminals return.

Fairness. `TaskQueue`: every scheduler thread takes steps, and so does the main thread once it has begun to shut down (`WF`);
nothing is assumed of timers and of the I/O threads, so `Join` returns although the DBMS never answers; a coroutine that is resumed over and over eventually suspends (`SF`): it
has no unbounded loop without a suspension. Nothing forces the main thread to start a shutdown. `Worker`: terminals that can run do run, which is what the scheduler provides
apart from finding 1; the main thread polls, the clock advances. Nothing is assumed about the
DBMS while the run lasts. After the run, the pool's destructor joins its I/O threads, which requires
that `CancelAll` ends the outstanding calls; that wait is not in `Worker`. `ObConnectionPool`: threads run,
statements and connection attempts end, be it with an error (connecting has a timeout in the code; a session of a run sets none
for its statements, so that they end is assumed of the server), a terminal releases its session
after finitely many operations; only `WaitersServed` assumes that the server accepts new connections from
time to time, as its premise. `Measurement`: the command at work goes on (it polls) and the clock reaches its
deadline; nothing is assumed of the workers, which may hang. `ControlHost` and `Results` state no liveness: a command
that finds a lock taken gives up, and a killed one blocks its profile until an operator steps in.

## 5. Proofs

`TaskQueueProofs` proves, for every number of threads, terminals, slots (0 included) and every set of
I/O threads:

* `TypeCorrect`, `SlotsConserved`, `AdmissionBounded`, `SingleOwnership`: the invariants of the run
  `scheduler`;
* `ImplementsGate`: the refinement, `Spec => GateSpec`.

Assumptions: `ThreadAssumption` (at least one thread), `TerminalAssumption`, `SlotAssumption`
(naturals), `ResumeAssumption` (a positive budget).

The inductive invariant `IInv` adds two facts to the four invariants. `ThreadInv` ties positions
together: a coroutine runs only in the phases `external` and `internal`, a thread is inside `undoInc` or
`notify` only with a coroutine, a coroutine inside `undoInc` holds no slot, a batch does not outlive
the phase `external`, and a thread in `claim` still has a waiter to serve. It is needed because
`SlotConservation` counts a thread in `Overshoot` once, so it must not be undoing an `IncInflight` and
un-claiming at the same time, and because `ClaimSlot` takes the head of the waiting queue. `WaiterInv` says
that a waiting coroutine holds no slot, so that its promotion adds one holder. `AdmissionBound` follows from conservation at the moment of a grant: `fetch_add` returned less
than `MaxRunning`, and the holders are at most that value. Ownership is proved from lemmas on what a
push, a pop and a move do to a queue and to `where` (`PushOwned`, `PopOwned`, `OtherOwned`), one step
per action.

`AssignmentProofs` proves, for every number of warehouses and of instances (integers and naturals; nothing is assumed
of the request, since `Accepted` is part of the code):

* `Partition`: `AssignmentSpec => []Partitioned`;
* `Balance`: `AssignmentSpec => []Balanced`.

The inductive invariant `AssignmentInv` says that the first `i` instances have been given exactly `Given(i)` warehouses,
where `Given(n)` is `n * base + min(n, extra)`, and that their ranges fill these from left to right (`Served`). It is needed because neither property says anything
before the last instance is served. `Division` (quotient and remainder) and `Shares` (`Given` grows by `Count`) are the
arithmetic; `AllGiven` shows `Given(InstanceCount) = Warehouses`, so that the last range ends with the last warehouse.

`WorkerProofs` proves the safety properties of the run `worker` for every set of terminals and of inputs, every number
of slots and attempts, every schedule (a ramp-up, measurement or drain of 0 included), with and without delays,
`--start-at` and `retry.ambiguous_commit`: `TypeCorrect`, `SlotsAccounted`, `WindowKept` (an action property),
`NoBlindRetry`, `SameInputs`, `MetricsTrue`, `ExitCodeTrue`. Assumptions: at least one slot and one attempt, natural
instants, `NoInputs` is no input. The proof first sorts the steps of a terminal into a few shapes (a walk between
suspension points, an admission, the end of an attempt, a commit, a record, the next attempt), and then has one inductive
invariant for each question:

* `TypeInv` adds `AttemptInv` to the types: who waits for a retry has an attempt left. Without it the attempt counter could leave its range.
* `RunInv` ties the published phase to the position of the main thread and to the clock (a published Drain is not
  early), and says that no terminal is past its first test before the schedule is set. `WindowKept` needs it, because the
  terminal looks at the phase and not at the clock.
* `StopInv` says who stopped the run, and `HandledInv` that an integrity error which was handled has raised the error
  flag, or that its terminal is on the way to raise it (`finish`), a point at which `Join` does not drop it. `CodeInv` carries this over
  to the exit code, and `ExitCodeTrue` combines them.
* `UsedInv` (the inputs used so far are those of the context, or none), `CommitInv` (what has been committed at each
  position of an attempt, given what the attempt reported) and `ReportInv` (what a record says, given the commits) are about the
  history of one business transaction.

`ObConnectionPoolProofs` proves the invariants of the run `ob_pool` for any sets of clients and addresses and any number of
connections, I/O threads and queued replacements: `TypeCorrect`, `ConnectionsConserved`, `OneTerminalPerConnection`,
`NoLostHandOver`, `ReplacementsPaid`. Assumptions: a positive pool size, at least one I/O thread, the null
pointer is neither a connection nor a client. Neither set has to be finite; that what is out of the pool is
finite is part of `CountInv`. `CoreInv` says that a client has a connection exactly in the positions
between acquisition and the end of the release (`HoldInv`), that `Waiters_` are parked clients, each once (`WaiterInv`), and
that queued operations are those of waiting clients, each once (`TaskInv`). It is needed because a hand-over makes its
connection the property of the head of `Waiters_`: were the same client there twice, or busy, a connection would be lost.
`UseInv` adds that the list of free connections has no duplicates. Sequences are handled by lemmas on what taking the
head, appending and removing do to the set of their elements.

`ControlHostProofs` proves all properties of the run `control_host` for any sets of invocations, profiles, names and run
ids, any requests and any number of commands at a time: `TypeCorrect`, `MutualExclusion`, `NoLeakedLock`, `NoLostUpdate`,
`OneProfile`, and the action property `UntestedRunsSafe`. Assumptions: every profile has a name, every
request is one of the commands, and the null values are no run, profile or lock file. `LockInv` is `LocksHaveHolders`
with its converse, `LocksHeld`: a command at work on a run or a profile has a lock file there, made by itself. Neither
half is inductive alone, because release compares the run id in the file only. Mutual exclusion and the serialised updates follow from it.
`StepInv` ties the position in a command to the operation at `ip`. `ConsolidateInv` adds that consolidate past its guard works
on a run that has finished its test (`TestedInv`) and that a command starts with its first operation, which is the guard
(`StartInv`). `ProfileInv` adds what `profile.sha256` says of the run a command has accepted (`ShaInv`), and in which
circumstances the two files of a run directory can disagree (`FilesInv`).

`MeasurementProofs` proves the safety properties of the run `measurement` for any number of workers, launches and
commands, with and without `--leave-processes`: `TypeCorrect`, `OneProcessPerWorker`, `NoneLeftBehind`, and the action
property `TestOnItsOwnWord`. Assumptions: at least one worker; natural bounds. The model takes from the environment that a
pid is not reused, that signals arrive and that hosts answer (section 3.6). `Kinds` sorts the steps into a few kinds
(among them a launch, a load of `process.json`, stopping, the end and the beginning of a command, collecting, a step of a
process); every invariant has one proof step per kind. `IInv` consists of:

* `TypeInv`: types, with `CommandInv` (an idle command remembers nothing; a launching one has room for what is left to launch, and
  knows exactly the workers it has launched) and `ProcessInv` (a process belongs to a worker for good).
* `OwnersInv`: the launches on the list of the command are of the worker they stand for, and of a fresh one the nonce has not been
  replaced by another (`LaunchInv`). That needs `MetaInv`: while the command waits for the `process.json` of a fresh launch, the
  file is absent or by that process, and no other process of the worker is still to write it.
* `TrackInv`: a live process that is tracked is on the list of the command at work. `NoStrayWorkers` only
  speaks of idle moments; this says what holds in between.
* `FilesInv`: every result and every manifest in an instance directory, among the collected payloads, in the hands of
  `collect` or in the aggregate is by a process of that worker which has written it, and whose status is final.
* `MergedInv`: what was merged would pass the checks of `consolidate` now. With `FilesInv` this gives `AggregateUnmixed`.
* `WaitInv`: the workers a test has stopped waiting for have written their manifest, with status 0.

`HistogramProofs` is about the operators of `Histogram` and `RawHistogram`, for every pair of parameters (`0 < HdrTill <=
MaxValue`, any number of sub-buckets):

* `LayoutAgreement`: both implementations have the same number of buckets and put every value into the same one, which
  exists, although one walks over the octaves and the other builds a list of them;
* `HonestHistogramValid`: a histogram that holds a bag of values passes `Validate`: total, sum bounds, and extremes in the
  first and last occupied bucket;
* `PercentileFound`: `ValueAtPercentile` is the upper bound of the bucket of a recorded value that has the rank asked for,
  or `MaxValue` if that value is beyond it.

The last two speak of `Represents(h, B, U, val, none)`: `h` holds the values `val` of those elements of the bag `B` that are
in `U`, bucket by bucket, with their total, sum and extremes; an empty histogram has `none` as its minimum, the largest integer in a worker and 0
in a result. One lemma for each operation says that it keeps this: `RepresentsNew`, `RepresentsRecord`,
`RepresentsAdd`, `RepresentsRaw`, `RepresentsMerge`. What recursive functions and sums over sets compute is proved by induction stated
over sets instead of predicates: `NatMin` and `SetInduction` (a set of naturals closed under successor), `Recursion` (a
function defined by its first value and its step exists), `FiniteInduction`, and from these the lemmas on `SumFunctionOnSet`
(`SumRemove`, `SumCongruence`, `TotalUnion`, `TotalBounds`). The arithmetic of the layout (`DivInverse`, `OctaveFacts`, `OctaveOrder`,
`Located`, `UpperBound`) gives how far above a value its bucket ends.

`ResultsProofs` proves the remaining properties of the run `results` for every number of warehouses, workers, threads and
transactions, every set of latencies and all histogram parameters: `TypeCorrect`, `HonestResults`, `PublishedTrue`.
Assumptions (`ResultsAssumption`): the request for an assignment is one the code accepts, a worker has a thread, and
a latency is below the largest integer. The inductive invariant `ResultsInv` relates every figure to a part of `log`:

* `RecordingOK`: what a terminal is recording is of its own worker and thread, of a worker that has not been joined, and the only
  one of its thread;
* `StatsOK`: the counters of a thread are the numbers of its transactions in `log`, plus the one that is still to be
  recorded, and its histograms represent the completed ones in `log`. The two differ in between, which is why a collection
  at that moment would be refused;
* `JoinedOK`, `ResultOK`: a worker writes after its threads have ended, and what is written counts and represents its part of
  `log`, which grows no more (`Apart`);
* `MergeOK`: what is merged counts and represents the workers before `at`, `Given(at - 1)` warehouses, and nothing was refused;
* `BoundOK`: the transactions finished and under way are at most `MaxSamples`; `TypeOK` needs it for its ranges.

`HonestResults` is then a part of the invariant: `WrittenAccepted` takes `Validate` from `HonestHistogramValid` and the
agreement of counters and totals from both being totals of the same part. `PublishedTrue` reads the invariant at the last
worker; `FieldFaithful` takes ranks from `PercentileFound`, and `ReportedClose` shows that the bound of a bucket lies within
`Resolution`.

Every inductive invariant was checked by TLC on small instances before it was proved. Three properties turned out to
claim too much in general, and TLC found the counterexamples:

* `RunOfOneProfile`. Outside the bounds of the run, with four commands: `cleanup` of profile a is killed after it has removed `run-config.json` and
  before `profile.sha256`; a command of profile b rebuilds the run and is killed after writing `run-config.json` and before
  `profile.sha256` (`orchestrator.go:175`); a command of profile a then finds its own checksum and works on the configuration
  of b. The property now names this case (`InterruptedRebuild`), and `OneProfile` proves that it is the only one.
* `CompletedOnOwnWord`, stated without `fresh`: a test completes on the word of an older process (sections 3.6 and 6).
* `MeasuredCommits`. With `retry.ambiguous_commit` a transaction counted once may have been committed twice, or been
  committed before the attempt that is reported as rolled back. The property now says which of its parts depend on that
  option.

Only model-checked: `JoinCompletes`, `RunTerminates`, `WaitersServed`, `PoolCloses` and `TestEnds` (liveness under
fairness). Every invariant and every action property of a passing run is proved.

## 6. Findings

1. `stranded_waiter`: `MaybeIdleWait` resets `IdleWake` after its checks (`task_queue.cpp:355`), so a
   notification that arrives in between is lost: that of a freed slot, or that of a completed future. The
   thread sleeps until its next timer, another notification or shutdown. Terminals with pacing have timers
   most of the time, which hides it; without delays the thread may sleep for long.
2. `terminal_leaves_early`: `MayAdmit()` and `Phase()` (`terminal.cpp:215`, `218`) read the phase twice; if
   Ramp is published in between, the terminal leaves before the run begins.
3. `integrity_lost`: an integrity error of a commit thrown near the end of the drain is dropped by the
   shutdown branch of the terminal, and the worker exits with 0.
4. `ob_operations_starve`: replacement tasks hold I/O threads while they wait for `ReconnectMutex_`. After
   operations that failed and broke several connections, of which some are replaced and one is not, healthy sessions have
   no thread left.
5. `cancelled_pool_parks`: `CancelAll` sets `ShutdownFlag_` and fails the waiters there are, but
   `AcquireSessionAsync` tests `Shutdown_`, which only the destructor sets. A terminal that asks after the
   cancellation, while all connections are out, is parked, although `ob_connection_pool.h:43-44` says that its future
   then resolves with an exception.
6. `unfinished_test_aggregated`: `consolidate` refuses a run that has not finished its test, but `collect` does not,
   and moves it to a state that `consolidate` takes for finished. In the trace the test is killed after it has
   launched its worker, which ends by itself; `collect` and `consolidate` publish its result. A test that fails or is
   interrupted gives the same, with the partial figures of workers that were sent TERM.

Seen while modelling or proving, without a run:

* The configuration of one profile under the checksum of another, after a killed `cleanup` and a killed rebuild (section 5).
* A test may complete on the word of a process it did not launch: that of a killed test, which writes its
  `process.json` after the next launch has cleared the directory, or whose files could not be cleared (section 3.6).
  `docs/specification.md:544-546` and the comment at `drive.go:519-521` say that the clearing prevents
  this; the nonce to wait for is read from the same directory.
* `docs/specification.md:573-575` has an artifact manifest accepted only when its nonce matches. `waitProcesses` does
  that. `consolidate` would (`consolidate.go:416-423`), but `collect` never copies the manifest, so the comparison is always skipped.
* `TransactionsInflight` does not count an admitted transaction between attempts or while it waits for a session, so
  the drain may end early and cancel it (`run_loop.cpp:640`).
* `waitProcesses` looks for the manifest before it looks for the process; a worker that finishes in between is
  reported dead and its test aborted (`drive.go:870`, `931`). `superviseWorkers` looks in the other order.
* `Fail` does not validate its transition; that no other command has moved the run since rests on the locks alone.
* `latestContinuableRunID` looks at the latest run only; a run of another profile hides the active one of this profile.
* Standalone `consolidate` resolves a run before it takes the lock; if `cleanup` removes the run in between, the
  directory is made again, with a planned state, before `consolidate` refuses it.

## 7. Not modelled

See `components` in `PROJECT.json`. Planned parts are in section 2. Left out for good: SQL text,
parsing of configurations, command lines, console output and logging, SSH transport (input and output
without state of their own), vendored libraries (they appear as the environment).
