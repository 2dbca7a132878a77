# DPMC core: a formal model of its scheduler

DPMC runs production chains: graphs of processing nodes that become tasks,
batches and jobs, which a dispatcher places on hosts and workers execute.  This
directory holds TLA+ modules of the parts of DPMC that decide what runs, where
and when, and of the worker's ends of those decisions, the TLC configurations
that check them on small instances, and proofs that TLAPS checks for every value
of the constants.

Paths below are relative to `src/`.

## 1. The system and its parts

All processes share one PostgreSQL database; it is the only channel between the
dispatcher and the API.  Workers talk to the API alone, over HTTP.

```
  operator ──HTTP──▶ API (NestJS, several replicas) ◀──HTTP── worker (one per host,
                      │        ▲                               n runner threads)
                      │ tables │ POST expand
                      ▼        │
                  PostgreSQL ◀─┴─ dispatcher (one process, asyncio loops)
```

| part | state it keeps | operations | what must be true of it |
|---|---|---|---|
| dispatcher: dependency loop (`services/dependency.py`, `domain/dependencies.py`) | `job.status` of waiting jobs | one tick decides every waiting job | a job starts only behind what its edges wait for; a job whose parents ended is decided |
| dispatcher: dispatch loop (`services/dispatch.py`, `domain/dispatch.py`) | `job_x_allocation` | one tick reserves capacity for ready jobs | nothing is reserved twice; work spreads |
| dispatcher: monitor and recovery (`monitor.py`, `recovery.py`, `repositories/jobs.py`) | status, attempt, release of jobs of silent hosts | a read without lock, then writes | a lost job ends; its resources come back |
| dispatcher: finalizer (`finalizer.py`) | batch and task statuses | one tick seals batches, then tasks | a task closes exactly when its work is over |
| dispatcher: task loop, watcher, aging (`tasks.py`, `watcher.py`, `aging.py`) | task status, new tasks, `effectivePriority` | expansion through the API; new continuous tasks | a task is expanded once |
| dispatcher: process frame (`infrastructure/db.py`, `services/runner.py`, `api_client.py`) | one connection, one lock | start, recovery, tickers, reconnecting | transactions do not interleave; an outage passes |
| API: worker service (`modules/worker`) | jobs, allocations, batches, task | `nextJob`, `reportResult`, `recordOutputs` | one executor per job; a report is applied to its job |
| API: job service (`modules/job`) | job status, paused, release | cancel, pause, resume | a cancel leaves nothing behind |
| API: host registry (`modules/host`) | host status, heartbeat time, capacity | register, heartbeat, set status, cron that marks hosts offline | the scheduler sees who is there |
| API: task service (`modules/task`) | task, batches, jobs | create, trigger, expand, expandFanOut, delete | every node gets its jobs, once |
| API: chain edges (`modules/production-chain/edges`) | the graph of a chain | add with a cycle check, update, delete | the graph stays acyclic |
| API: batch service (`modules/batch`) | replay, chain batch, standalone batch | creation of batches outside `expand` | they run once |
| API: schedules (`modules/task-schedule`) | `nextRunAt` | claim of due schedules by every replica | a due run happens once |
| worker: runner (`runner.py`, `main.py`) | runner threads, keepalive | pull, run, report, heartbeat | a job in hand is reported |
| worker: staging (`staging.py`, the end of `runner.py`) | files, objects in the store | upload, report of outputs, report of the result | what starts behind a job finds its files |
| API: energy reconciler (`modules/energy`) | energy and metrics of ended jobs | a tick a minute in every replica | each job is measured, once its last scrape is in |
| worker: log shipper (`log_shipper.py`) | a bounded buffer, a flush thread | log, flush, put back, stop | the oldest records are dropped first, the others arrive, in order |
| worker: Kubernetes backend (`backends/kubernetes.py`) | none but the cluster's Jobs and pods | create or replace a Job, supervise it, cancel | the exit code is the run's own; what was reported is over |
| catalogue, projects, users, CO2 queries, web, CLI | their own tables | CRUD, queries, display | no scheduling protocol |

### How they interact, and what is hard about it

* **Read, then write.** `dep_tick`, `dispatch_tick` and `nextJob` lock the rows
  they decide about (`FOR UPDATE SKIP LOCKED`).  `cancel` and `pause` read before
  their transaction; `monitor_tick` and `recovery_once` read without a lock and
  write later.  Whatever another process does in between is overwritten.
* **One report, never repeated.** A runner thread POSTs the result once with a
  timeout and goes on; a reply or request that is lost leaves a running job that
  no one speaks for, although its host keeps its heartbeat.
* **Unguarded writes.** `reportResult`, `cancel`, `fail_job_and_release_allocation`
  and `heartbeat` set a status without looking at the one they replace.
* **Crashes.** A worker may stop and register again before the monitor sees it
  missing; the dispatcher may restart in the middle of a tick; the API may stop
  between the commit of a report and the fan-out that belongs to it.
* **Overlapping transactions.** Two reports of one task recompute its status at
  READ COMMITTED: each sees the other's batch as it was before.  The finalizer waits
  for a row that a report has written, and then writes what it had read before.
* **Rows that appear.** A fan-out adds batches and jobs to a task whose other
  jobs are being decided, reported and finalized.
* **Calls that outlive their caller.** `task_tick` waits 60 s for `expand`, which
  never writes the task; a request that is given up may still commit.
* **Compare-and-swap on one column.** A due schedule is claimed by `nextRunAt` alone;
  whether it was edited or removed since it was read is not looked at, and after the
  claim nothing but the tick knows that the run is due.
* **Two requests that belong together.** Outputs and result of a job are reported
  apart, the first is recorded in single writes, and the worker reports a success
  even if it fails, or if it has no client for the object store and published nothing.
* **Whole columns.** `reportResult` and the energy reconciler each replace the column
  `metrics` by the id alone, from what they know.
* **Capacity that changes.** A worker that registers again replaces the capacity of
  its host, whatever is reserved there.
* **Leftovers under the same name.** The Job of a worker that stopped is still in
  the cluster when its DPMC job is dispatched again.

`PROJECT.json` lists each hazard at its line, with the properties about it.

## 2. The modules

```
 DependencyRules ◀── JobFlow ◀───────────── TaskRollup ◀── MCTaskRollup
       ▲               ▲  ▲                     ▲
       │      INSTANCE │  │                     └── TaskRollupProofs
       │               │
 Placement ◀── JobLifecycle ◀── JobLifecycleProofs
                       ▲
                       └── MCJobLifecycle

 ChainGraph ◀── ChainPlan ◀── ChainPlanDocs, MCChainPlan
                    ▲
 TaskExpansion ◀────┴── TaskServiceProofs
 ScheduleClaim ◀── ScheduleClaimProofs, MCScheduleClaim
 LogShipper ◀── LogShipperProofs, MCLogShipper
 KubernetesBackend ◀── KubernetesBackendProofs
 OutputHandoff ◀── OutputHandoffProofs
 EnergyReconciler ◀── EnergyReconcilerProofs
```

The modules of the second group meet the first at one step each: what
`TaskExpansion` counts as one expansion is the birth of the jobs of `JobFlow`, laid
out as `ChainPlan` says; a claim of `ScheduleClaim` creates and triggers a task of
`TaskExpansion`; one run of `JobLifecycle` is one dispatch of `KubernetesBackend`, and
its `FinishRun` and `ReportResult` are the end of a run in `OutputHandoff`.

### DependencyRules and Placement

The pure rules.  `NextStateForChild` is `next_state_for_child`: given the
statuses of the parents by dependency mode, a waiting job stays, becomes ready or
is skipped.  `ParentsByMode` is `_collect_parents` with its two peculiarities: an
`on_data_available` edge is dropped with a warning, and a parent that has no row
is not there.  `Decided` says what one tick may do: rows are taken in some order,
and a later one reads what the tick wrote to an earlier one.
`Fits`, `RuntimeSatisfies` and `LowestGpus` are `_fits`, `runtime_satisfies` and
`gpu_free[:n]`.  Cores, RAM and disk are compared and summed in the same way and
are one scalar here; GPUs are sets of indices.  The sum of what jobs reserve (`Load`)
is the number of their single units.

### JobLifecycle

The jobs of one expanded task between dispatcher, API and workers.

| variables | in the code |
|---|---|
| `status`, `paused`, `attempt`, `jobHost` | table `job` |
| `allocHost`, `allocGpus`, `allocOpen` | table `job_x_allocation`; a job has at most one row, `allocOpen` is `releasedAt IS NULL` |
| `hostStatus`, `age` | table `host`; the time since its heartbeat |
| `workerUp`, `slot` | worker processes and the job each runner thread has |
| `reports` | POST requests with results that have not been processed |
| `cancelling`, `pausing` | API calls between their read and their write, with what they saw |
| `doomed`, `counted` | the monitor's or the recovery's tick between its read and its writes |
| `faults` | the faults that may still happen |

`DependencyTick` and `DispatchTick` are one action each, since they lock what they
decide.  All transactions of the dispatcher go through one connection and one
lock (`Db.tx`), so no tick starts while the monitor is between read and write
(`TickIdle`); API calls and workers do.  `DispatchTick` is stated without a loop:
there are an order of the unplaced rows, a host and GPUs for each such that every
row got the best of what the earlier ones left (`PlacedAs`).  The effective
priority only orders rows and is any order; ties of the worst fit are broken in
any way.  `NextJob` takes the oldest ready job whose reservation is on the
worker's host, and its reply may be lost.  `FinishRun` sends the one report and
frees the thread, since it does not wait longer than its timeout.
`ReportResult` checks the host of the allocation, as the code does, and nothing
else.  `reportResult` reads the allocation before its transaction; the model
merges the two because an allocation's host never changes.  `RecoverRead` stands
for a restart of the dispatcher: a tick in progress is rolled back, and the jobs
of hosts silent for twice the threshold are read.  There is one dispatcher
(`infra/k8s/dispatcher/base/deployment.yml:7-12`).

### JobFlow

The abstract specification: what all these processes together promise about the
jobs, with no hosts, reservations, ticks or requests.  `started` are the jobs ever
handed to a worker, `inHand` those that a thread or its report still speaks for.
`FlowGate` is a property of the step on which a job is released: `Allows` of
DependencyRules says for each edge what the code wants to find at that moment, in the
rows before the tick or, for a parent that only has to end, as the tick leaves them.
`JobLifecycle` implements it with `started` = jobs with a host and `inHand` = jobs
in slots or reports (`FlowOfJobs`); the module TaskRollup builds on it.

### TaskRollup

Batches and the task above the jobs.  `expand` and `expandFanOut` create each
batch with exactly one job, so a batch has its job's name (a replay of old
batches with several jobs is not modelled).  Jobs move by the actions of JobFlow.
On top of them:

| action | in the code |
|---|---|
| `SetRunning` | the last write of `task_tick`, after the expansion; jobs may run before it |
| `NextJob` | `nextJob` with `maybeStartBatch` |
| `ReportRead`, `ReportRoll`, `ReportCommit` | the transaction of `reportResult` with `recomputeBatchStatus` and `recomputeTaskStatus`, in steps so that reports overlap as READ COMMITTED lets them: the row of the job is locked and that of the batch read (`Locked`), the batch is written, which locks it, and the verdict on the task read (`Rolled`), all is committed |
| `FanOutDone`, `FanOutFails`, `FanOutLost` | `expandFanOut`, a transaction of its own after the commit; it succeeds, throws (then the batch is rewritten to failed), or the API stops before it |
| `FinalizerRead`, `FinalizerSeal`, `FinalizerCommit` | `finalizer_tick`: its first statement reads (`seals`), waits for the reports that have written one of its rows and locks them, the second statement reads the task, and both are written; what a report has committed between the first two steps is written over (`SealedBatches`) |
| `MonitorRead`, `MonitorFail` | `monitor_tick`, which reads without a lock and writes the jobs blindly |
| `CancelJob`, `LoseReport` | with the monitor, the writes that leave batch and task to the finalizer |

Cancels and losses are those of JobFlow, more than JobLifecycle does (a lost host
is any set of started jobs), so what holds here holds for the code's.  The ticks of the
dispatcher exclude each other (`TickIdle`).

### TaskExpansion

How tasks come to be and get their batches.

| variables | in the code |
|---|---|
| `rows`, `status`, `origin`, `watched`, `due`, `deleted` | table `task`: its rows, who created each, whether it belongs to the watched chain, whether `scheduledStartTime` has come |
| `bad` | tasks without script, node or version, which `expand` refuses |
| `expansions`, `open` | batches of a task: how often it was expanded, and pieces of work that are not over |
| `triggers`, `calls` | calls of `trigger` and `expand` between their read and their write |
| `todo`, `asked`, `answered` | `task_tick`: its list, the task it waits for, whether the API has answered |
| `excused` | history: the named events after which a task may be expanded once more |

`expand` reads the task before its transaction and never writes it, so nothing but
the statuses around it keeps a task from being expanded twice.  `Commit` is the
transaction; a call that `LoseAnswer` or `Restart` has given up goes on as a call of
nobody's.  `Promote` is the update to running at the end of `task_tick`, which
looks at nothing.  `Select` may skip any task with a call under way: its row is
locked by the foreign key of the new batch.  The batches of a task are one counter,
since how they end is the subject of TaskRollup; a batch without jobs (chain
batches) or with waiting jobs that `dep_tick` does not join (replays) never ends
(`Unfinishable`).

### ChainGraph and ChainPlan

`ChainGraph` is the graph of one chain and the calls that edit it (`AddRead`,
`AddWrite`, `UpdateEdge`, `DeleteEdge`).  The searches of the code along edges ask
what is behind a node; `Behind` says it as the least set that the edges do not lead
out of.  `crossed` is a history: an edge was written to a graph with an edge between
two nodes that the check of this call had not seen.  `ChainPlan` is what `expand` and
`expandFanOut` create from the graph.  `Planned` is the filter by `isBlocked` and the
depth-first sort of `expand`; `FanOutOf` is the breadth-first search and the layout
loop of `expandFanOut` with its bound.  Each loop is a function from one of its states
to the next (`PlaceNode`, `Search`, `LayOut`), and `Loop` takes it as often as the loop
of the code can run; further steps change nothing.  A visit of `placeNode` is two such
steps, when the node enters `visiting` and when it is placed.  A listing is an order in
which the database returns rows without ORDER BY.

`batches` is the table of batches: a batch has its node, its block if it is one of the N
that a fan-out creates of its first node, and its group, the batches out of whose fan-outs
it came.  `FanOut` is called once for each batch that succeeds on a node with a
fan-out edge, as `reportResult` does, so a fan-out behind a fanned-out node is laid out once
per block, each time in a group of its own.  How many blocks a batch lists is any number
of `Widths`.  `ChainPlanDocs` is the same module on the chain of the documentation.

### ScheduleClaim

One schedule, overlapping ticks of `runDue`, and operators.  `TickRead` fixes the due
occurrence and computes the next, `TickClaim` is the `updateMany` on `nextRunAt`,
`TickCreate`, `TickTrigger` and `TickFail` what follows.  The write of `lastError` is
outside the `try`, so it may throw as well (`TickFailThrows`): the claim is gone and so is
the rest of the tick, whose schedules stay due.  `UpdateRead` and
`UpdateWrite` are apart because `update` computes `nextRunAt` before it writes by the
id alone.  A cron expression with its timezone is the set of times at which it fires.

### LogShipper

`buffer` is `_buffer`; `batch` holds what the flush thread, and at the end the main
thread, has taken and not yet disposed of; `stored` is the table `host_log`.
`Refused` is every `ApiError`: the batch is put back.  `TimesOut` is the one after
which the API may store the batch all the same.  `stop()` joins the flush thread for
two seconds only, so both threads may drain at the same time.

### KubernetesBackend

One job id through several dispatches.  `job`, `leaving`, `pod`, `doomed` are the
cluster: the Job object named `dpmc-job-<id>`, whether it is being deleted in the
foreground, the pods by the run that caused them.  `at` is where the current run is
in `run()`.  Errors that are an `ApiException` are counted by the polls
(`PollFails`); any other ends the run without a cancel (`PollBreaks`, `CreateBreaks`).
`careless` and `removed` are histories that name the exceptions of the properties.

### OutputHandoff

One job from the end of its run to the start of what is behind it.  `phase` is where
the runner thread is in `_execute`; `step`, `current`, `left` are where the call of
`recordOutputs` is, which may go on after the worker has given it up (`GiveUp`);
`products`, `linked`, `listed`, `merged` are the rows each output has got.  `Upload`,
`Begin`, `Link`, `List` and `Merge` are single writes, since nothing ties them
together; a call that breaks leaves what was written.  The two writes of the path are
one step: no reader looks between them.  `FanOut` reads as `expandFanOut`
does: `parametersOut`, else the object of any one product of the batch.  `store` says
whether the worker has a client for the object store; without one `_stage_out_and_report`
goes straight to the report (`_stage_ready`).  `readable` are the JSON outputs whose
content the worker can read and post along; any other is posted without content.  Contents
of different outputs have no key in common.

### EnergyReconciler

The reconciler's ticks in every replica, with the writes of `metrics` and `endedAt`
they race with.  `todo`, `seen`, `expired` are what a tick has read; `Measure` is one
turn of its loop, with any answers of Prometheus.  A job is `inHand` until its worker
has reported it, which is not prevented by its having been ended by a cancel or the
monitor (`EndRead`, `EndWrite`).  Figures are left out: `metrics` holds whether the
worker's part and the reconciler's part are there, `basis` whether every source
had answered.

### Names that look alike

Each mutated operator (`…Stale`, `…Again`, `…Any`, …) stands above the definition
it varies and is used by no specification; it is there to show that a property
notices a plausible bug.

## 3. Runs

The modules `MC…` name the instances; every `.cfg` gives
constants their values and replaces nothing else.

| run | instance | asks | states |
|---|---|---|---|
| `job_placement` | 3 independent jobs, two of them in need of a GPU, 2 hosts of 4 cores and 1 GPU with different runtimes, 2 and 1 threads; a cancel, an operator's status of one host, 1 fault | `GpuExclusive`, `CapacityRespected`, `SingleExecutor`, `SpreadsOverIdleHosts` | 384,416 |
| `job_dependencies` | 4 jobs: j1, then j2 on success or j3 on failure, j4 joins them; 2 cancels, 1 fault | `DependencyGate`, `RunningHoldsReservation`, `LeakOnlyByCancel`, `EndedStaysEnded`, `FlowOfJobs` | 367,266 |
| `job_liveness` | a chain of 3 jobs, 1 fault, a cancel, a pause, fairness | `RunEnds`, `LostRunEnds`, `ChildDecided`, `PlacedStarts` | 18,322 |
| `task_rollup` | j1 fans out to j2 with j4 behind it for its failure, j3 joins j1 and j5; a cancel, a fault, fairness | `ClosedIsOver`, `FanOutOnce`, `SealedStaysSealed`, `FlowGate`, `DoneIsEarned`, `TaskCloses` | 590,722 |
| `task_intake` | 2 tasks of any origin, 2 mishaps (calls by operators, lost calls and answers, restarts), fairness | `ExpandedOnce`, `WatcherRunsApart`, `RunningIsExpanded`, `DueIsRun` | 626,833 |
| `chain_plan` | every graph of 4 nodes with static and fan-out edges, 2 row orders, 2 edits, 2 blocks per fan-out, 2 fan-outs inside each other | `ChainStaysAcyclic`, `ParentsComeFirst`, `FanOutsAreWired` | 498,388 |
| `schedule_claim` | 2 overlapping ticks, 2 rules, 2 edits, a stop or an error that cannot be written, fairness | `FiresOnce`, `ClaimsAccounted`, `DueIsClaimed` | 469,983 |
| `log_shipper` | 5 records, a buffer of 3, batches of 2, an oversized record, a timeout, fairness | `OldestAreLost`, `StoresInOrder`, `RecordsShip` | 8,146 |
| `k8s_backend` | 3 dispatches, an error budget of 2, 2 faults, fairness | `OwnExitCode`, `ReportedIsOver`, `RunReturns` | 17,805 |
| `output_handoff` | 3 outputs: the blocks, one without a type, one without content; a worker with or without a client for the store | `InputsComplete`, `FanOutFindsBlocks` | 7,580 |
| `energy_backlog` | 2 jobs, 2 replicas, batches of 1, a delay of 1, an age of 2, a tick that fails, fairness | `MetricsKept`, `MeasuredInTime`, `BacklogDrains` | 159,439 |
| `doc_downstream` | the chain of the documentation | `EveryNodeBehindIsCreated` | violated |

The type invariants (`TypeOK`, `RollupTypeOK`, `BackendTypeOK`, `EnergyTypeOK`) and the
promises `FlowEnds` and `ListedIsThere` are in no run: they are proved.

**Bounds.** `MaxAge` caps the silence of a host: one step more than the longer of
the windows that are told apart (`OfflineAfter`, `LostAfter`, twice `LostAfter`
where recovery matters) is enough, a longer silence satisfies the same
conditions.  `MaxFaults` counts lost messages, stops of workers, of the dispatcher
and of the API: one is enough for a job that is lost while another is cancelled
and a third competes for its resources; in the roll-up a cancel and a fault are two ends
that no worker reports, and they meet.  `Cancellable`, `Pausable` and `Administered` name the
rows an operator touches, since every operator call doubles the states; the
choice is a parent and a child, so a cancel races both the tick that decides the
child and the report of the parent.  The needs of `job_placement` are
chosen so that a tick that forgot its earlier placements would give a GPU twice or
overbook cores, and so that work can spread: the two hosts are equal, but for the
runtime that one job asks for.  Two threads of one host are the least that could take one job
twice.  The fan-out of `task_rollup` adds a ready and a waiting row while other jobs of
the same task are reported, cancelled, given up and joined.

In `task_intake`, `MaxMishaps` counts the calls by hand and the faults together: two
of them meet on one task (two triggers that overlap, a call by hand during the
dispatcher's, an answer lost while a task is deleted), and the second task is the
watcher's next one.  Four nodes are the least with a join beside a fan-out inside a
fan-out; every acyclic graph on them is a starting point, and the edges that are
added (`Editable`) close a cycle with it or with each other.  Two blocks are the
least for which the batches of a fan-out differ, and two fan-outs inside each other
(`MaxNesting`) the least for which an inner one is laid out more than once; a chain of three
on four nodes only repeats that, at twice the states.  In `schedule_claim` the
rules fire one unit apart and then together, so a tick, the next tick and an
update each see another due time; the clock stops after the third.  The buffer
of `log_shipper` holds one batch and a half: a batch that is put back meets records that came in
between, overflows and is sent again.  Three dispatches let a run meet the Job
of one before and the pod of another that was cancelled before that.

The outputs of `output_handoff` are one of each kind that the code treats differently,
and every subset of them may be written by the run.  A batch of one with two jobs
lets one job that is always deferred stand before another; the clock of
`energy_backlog` stops one unit after the age at which a job is measured anyhow.

**Fairness.** The ticker repeats every tick for ever and swallows its exceptions
(`services/runner.py:27-39`), so `DependencyTick`, `DispatchTick`, `MonitorRead` and
`FailAndRelease` are weakly fair, and so are the finalizer and `task_tick` in
TaskRollup.  A runner thread polls for ever and a script ends, so `NextJob(r)` and
`FinishRun(r)` are.  A request that arrived is answered (`ReportResult`), a
transaction that began ends, a call of `expandFanOut` returns or throws.  Time goes
on for a host whose worker is down.  Nothing is assumed of operators, of faults,
of heartbeats in time, of a worker that starts again, nor, in TaskRollup, that a
ready job is ever placed: capacity may never suffice.  `TaskCloses` and `RunEnds`
say what remains under that.  The chain of `job_liveness` has `on_success` edges only, so
`ChildDecided` is checked for those; a runner thread is taken to survive whatever its
calls throw.

In `task_intake`, `task_tick` repeats and goes on after a task that is refused, calls
of `expand` commit unless a mishap stops them, jobs end and the finalizer runs.  In
`schedule_claim` cron starts a tick every minute and its awaits return; no time is
assumed to pass while a tick is under way.  In `log_shipper` the
threads run, a request is answered or times out, `join` has its timeout, and the
API is not down for ever: a batch that is sent again and again is stored at last
(strong fairness of `Store`, for batches without an oversized record).  In
`k8s_backend` the run polls for ever until it is told an end, the deadline of the
pod's start comes, and the cluster starts, ends and removes pods; answers of its API
are not assumed, the polls may all fail.  In `energy_backlog` cron starts the ticks, the
awaits of a tick return (each query has a timeout of 5 s) and time goes on; whether
Prometheus ever answers is open.

### What the passing runs show

* Within one tick and between ticks no GPU and no core is reserved twice.
* A running job's reservation is open on the host that runs it: neither a stale
  cancel, nor a stale monitor tick, nor a late report gives its resources away.
* A job is in at most one thread or report and never comes back to `ready`.
* A job is released only on a step that finds each of its edges as it asks: a parent that
  succeeded for `on_success`, one that ended for `on_completion`, a failure among
  the `on_failure` parents; and it runs only after that.  Later writes may still change how
  the parent ended.
* A reservation is left open only by a cancel that read before the placement.
* A job that is running ends, unless the one message about it was lost.
* A task is closed only when all jobs of its expansion have ended, in spite of
  overlapping reports; and it is closed whoever ended them, even if the jobs ended
  before the task was set to running.
* A batch in a final status belongs to an ended job and never leaves the final statuses;
  which of them it has is changed only by the late report of its job, by the failure of
  its fan-out, or by a finalizer that had read it before.
* A fan-out happens once, whatever becomes of its batch while the call is under way.
* `ClosedIsOver` leaves out the jobs that a fan-out added: see the observations
  below.  `DoneIsEarned` leaves out failures of a fan-out and of the batches it added,
  late reports of cancelled jobs, and failures that the finalizer writes over the success of
  a job; they may reach a batch after the verdict on the task.
* A task is expanded once, whatever ticks, calls and answers overlap, but for the
  races that `excused` names; what runs has been expanded; a task that is refused at
  every tick does not hold back the others; the runs of a watcher chain do not
  overlap.
* The cycle check keeps the graph acyclic unless two adds cross.  Parents come first
  in every plan.  A fan-out inside another is laid out once per batch of the outer one;
  each batch finds, in its own group, a batch for every node it reads from, and all
  batches of a node come out of fan-outs of the same nodes.  Nodes with a fan-out edge and
  another edge coming in, and what is behind them, are left out: for those it is false.
* An occurrence of a schedule fires once under any overlap of ticks, unless an
  update that was computed before it writes after it; a claimed run leaves a task or
  its error, but for one per stop of a replica and per error that cannot be written; at
  most one claim comes after a removal.
* The shipper drops the oldest records only, sends in order, twice only after a
  timeout, and ships everything unless a record that the API refuses blocks it.
* A Kubernetes run that succeeds ran itself, and when it has reported its workload
  is over, but for calls that broke without a retry and stops right after a cancel.
* Because the worker waits for the answer of `report_outputs`, a success has all its
  outputs recorded before anyone can act on it, unless an upload or that call failed, and
  none behind a worker without a client for the store; at no time is a product listed that has no path or no object.
* The worker's figures of a job get lost only to a tick that read it before they
  came; a job is measured with an incomplete answer only when it is too old; and
  each ended job is measured although Prometheus may never answer.

### Findings

| run | what the code does |
|---|---|
| `doc_downstream` | the loop of `expandFanOut` that lays out the nodes behind a fan-out counts its iterations against the length of a list that becomes shorter (`task.service.ts:1018`): of three nodes it creates two and stops without an error, so on the documented Warhol chain CLEANUP, or PUBLISH, never gets a batch |

### Observations

What the modules showed or allow, and a document or a comment says otherwise:

* The task can be closed between the success of a batch and the fan-out it triggers
  (`worker.service.ts:906`), though the comment at lines 886-888 says that the order
  prevents it; `ClosedIsOver` excepts the jobs of the fan-out.
* The fan-out is called once, after the commit; if the API stops in between no one
  repeats it, and the task is `done` without those batches.
* A cancel that read the job before `dispatch_tick` placed it leaves its reservation
  open for ever (`job.service.ts:97`; `LeakOnlyByCancel` says that nothing else does).
* Final statuses of jobs are rewritten by stale cancels and late reports
  (`EndedStaysEnded` says by what).
* The next heartbeat takes a host out of maintenance (`host.service.ts:191`).
* A lost job is failed for good (`repositories/jobs.py:24`), though the retry policy
  (`scheduler.mdx:95`) sends it back to `ready`.
* An `Edited` task that an operator expands by hand and then triggers is expanded
  twice; so is one whose answer arrives after the 60 s of the dispatcher.
* A task that chain, standalone and replayed batches bring is `Queued`, so `task_tick`
  expands it too, beside the batch.  A chain batch has no job and the jobs of a
  replay stay waiting, so such a task never closes.
* Two calls of `trigger` that overlap queue a task again after it has run.
* `expand` answers with an error if the task was deleted during its transaction,
  which has been committed.
* Two adds of edges that cross may close a cycle.
* Only `ApiException` is caught by the polls of the Kubernetes backend, so a broken
  connection reports a failure while the pod goes on, which the comment at
  `kubernetes.py:204-206` means to exclude.
* A log record of more than 8192 characters is refused with its whole batch, put back,
  and blocks the shipper for ever; a lost answer stores a batch twice.
* An upload that throws, or a report of outputs that fails or times out, is logged and the
  job stays a success (`worker/runner.py:232`, `:259`): what waits for it on success starts
  without the inputs.  This is the exception of `InputsComplete`.
* A worker without a client for the object store skips its uploads without a word, posts
  nothing and reports the success (`worker/runner.py:219`); only inputs that it cannot
  download fail a job (`:128`).  The comment at `worker/main.py:247-250` says that a job
  for which staging is requested is then failed.  What waits for it starts without
  inputs, and the fan-out behind a CALC on such a worker fails.
* A finalizer whose first statement has read a batch waits for the report that is writing
  it, and then sets the status that it had read (`finalizer.py:46-57` looks again at
  the id alone): a batch whose success was committed becomes `failed` or `cancelled` while its
  fan-out is under way.  Its second statement looks at the status of the task in the
  snapshot only, so it may also turn an `error` that a report has committed into `done`.
  The module's comment (`finalizer.py:11`) says that only rows that need to move are acted on.
* A report that comes after its job was ended by a cancel or the monitor, and measured,
  replaces the column `metrics` (`worker.service.ts:861`) while `energyMeasuredAt` stays:
  the source of the transfer volumes, which `carbon-footprint.mdx:59` says is stored on
  every job, is gone for good.  `MetricsKept` names such a report as the only cause.
* A claim does not see that its schedule was removed or disabled after it was read.
* When a due schedule cannot become a task because the database is away, the error cannot be
  written either (`task-schedule.service.ts:251`): the occurrence was claimed before,
  so it is skipped, and the tick ends without the other due schedules, which stay due.

Also seen while modelling: `find_best_host` chooses the
largest rest, not the smallest (`apps/docs/docs/architecture/scheduler.mdx:74`); GPU
indices need not be contiguous (`scheduler.mdx:75`); a child with only an
`on_data_available` edge becomes ready at once (`scheduler.mdx:46`); on hosts of
different size the comment at `domain/dispatch.py:60-63` does not hold; a fan-out that
throws turns a successful batch into a failed one, an arrow that the batch diagram
(`task-batch-job.mdx:77-86`) does not have; the doc comment of
`recomputeTaskStatus` (`worker.service.ts:986`) says that a cancelled batch makes the
task an error, its code and the comment inside say the opposite.

## 4. Proofs

`tlapm` checks every theorem to the last leaf, for any finite sets of jobs and
hosts, any graph of edges, any needs and capacities, any schedules and any bounds.  They rest on
the named assumptions of the modules (`JobsAssumption`, `HostsAssumption`,
`BoundsAssumption`, `InitialAssumption`, `FanOutAssumption`,
`ExpansionAssumption`, `GraphAssumption`, `ListingAssumption`, `ScheduleAssumption`,
`ShipperAssumption`, `BackendAssumption`, `HandoffAssumption`,
`ReconcilerAssumption`), which TLC evaluates in every run.  `FanOutAssumption` says what `expandFanOut` creates: children of the
fan-out edge ready and behind nothing else, nodes behind them waiting, and no job by
two fan-outs.  `GraphAssumption` says that a chain has no cycle at first, which a chain
without edges satisfies; `ListingAssumption` that a listing has every node.

**JobLifecycleProofs.** The inductive invariant is `IInv`.  The properties alone are
not inductive:

* `LeakOnlyByCancel` breaks when a waiting job with a reservation is skipped, or when
  the monitor fails a job of which it saw no reservation; `NotBefore` (a waiting job
  has never been placed, a ready one never been started) and `DoomedHeld` (the
  monitor only read jobs whose reservation was open) exclude it, the latter because
  of `RunningHoldsReservation`.
* `SingleExecutor` needs `CarriedWasStarted` and `NotBefore`: what a thread or a report
  carries was started, so it is not ready and cannot be handed out again.
* `DependencyGate` is about the step that releases: `GateStep` takes the rows that one tick
  has read, partly before and partly after its own writes, and shows that the rules allow the
  release by each edge.
* `CapacityRespected` speaks of a tick that places several jobs, so its step looks at the
  last job that the tick put on a host (`LastOf`): it fitted beside all the others that
  are there afterwards (`TickPlaces`), and a job adds no more than it needs (`LoadWith`).  Every other step leaves a host the reservations it had, or fewer
  (`LoadMonotonic`).
* `SpreadsOverIdleHosts` looks at the later of the two jobs: the idle host could run it
  too and had more left, which is what `PlacedAs` excludes.  The property is about two
  jobs either of which the idle host could run: a tick that has placed the first does
  not know that the second fits on no other host.

`StepLawful` says once what any step may do to a row of `job`; the proofs of
`EndedForEver`, `GateHolds` and `RunningReserved` use that instead of the actions.
The rules of the dependency loop enter through `RulesAllow`: if
`NextStateForChild` says ready, each parent's status is what its edge asks.

The last part of **JobLifecycleProofs** proves `ImplementsFlow`: `JobLifecycle!Spec`
implements `JobFlow`, one lemma per kind of step; the additional invariant is that a job
the monitor read had been started.

**TaskRollupProofs** begins with the abstract specification: in `JobFlow` the gate holds
and jobs stay ended, also where rows are added.  Then it proves that TaskRollup's jobs are a `JobFlow` too
(`RollupImplementsFlow`), and with `RollupInv` that a closed task and a sealed batch
are over and that a fan-out happens once.  The step that makes it go through is
`VerdictSound`, with `FinalizerSound` for the finalizer's: a verdict that was read but
not committed may be overtaken, but what was over when it was read stays over, so the verdict is
still true at the commit; only fan-outs add jobs, and those `ClosedIsOver` names.
`SealsAreOver` says the same of what the finalizer's first statement has read: its batch
may be written over, never opened again.  `FanOutAfterReport` says that before its report
a batch has nothing behind it, and `RollingOnce` that a job has one transaction; so no
second call of `expandFanOut` is made, whatever the finalizer makes of the batch.

`DoneIsEarned` needs more: between verdict and commit no other batch may turn into a
failure.  By `HandedStatus` the job of a thread is running or was given up, unless it was
cancelled, so a batch that is closed without a failure, or that the finalizer will close
so, gets no report any more (`ClosedWell`, `SealsWell`).  What the finalizer may still
write over such a batch is the exception of the property: by `SealsOvertaken` and
`DoomedWell` its job was a success all the same.  `VerdictEarned` and `FinalizerEarned` carry
this over to the commits.

**TaskServiceProofs.** For the expansion of tasks: `ExpandedOnce` is not inductive: a task that has been
expanded must not be offered again.  `Once` says where such a task is (answered,
running, done or deleted), `TickHoldsQueued` that what `task_tick` holds is still
queued when it writes running, and `CallsAccounted` that the call it waits for is the
only one on an unexcused task.  `OneLive` carries the watcher: all its tasks but one
are over, and by `RunningIsExpanded` what is done has no work left.

For the graph of a chain, `BehindIs` says that `Behind` is the least closed set.  What an add
may have in flight was checked against a graph that had every edge of the one it is
written to, unless `crossed`, and `EdgeClosesNoCycle` says that the check is then the right
one: if the parent is not behind the child, the new edge closes no cycle.  Deleting an
edge or changing its kind leaves nothing more behind a node (`FewerEdges`).

For the plan, `LoopKeeps` is the invariant rule of a loop: what its first state has and its
step keeps, the last state has.  It is proved from the least round that would break it,
since induction itself is out of reach.  The invariant of `placeNode` (`InPlace`) is that
each node on the path is behind the one before it; in an acyclic graph a parent of the
innermost is then not on the path, so when no parent is due all have been placed.
`InLayOut` says that what a fan-out has created is its first node and nodes behind it,
each with its parents.  That a batch finds its inputs in its own group follows from that and
is kept since batches are only added.  That all batches of a node have the same trail needs
`TrailOfFanOut`: if something that a fan-out creates had a batch of another trail, a parent
of it among the same had one too; the nodes behind the first that have none are then
closed under the edges, so the first node had one, and that came out of a second fan-out edge
into it, or out of the same node, whose batches have one trail.

**ScheduleClaimProofs.** The argument is that `nextRunAt` only moves forward:
`ClaimedIsPast` says it lies after every claimed occurrence unless an update moved it
back (`rewound`), so the compare-and-swap of a second tick fails.  `RemovedIsPast` is
the same for the ticks that are still under way when a schedule is removed.
`NextRunIsLater` gets the order from the well-foundedness of the naturals.
`ClaimsAccounted` is a balance: a claim adds one to the claims and one tick to those with a
run in hand (`ClaimAccount`), a tick that lets go of its run has settled it or used up a
fault (`HandAccount`), and no other step touches either side.

**LogShipperProofs.** For any stream, buffer and batch.  `ShipOrder` says that before the
last drain the batch of the flush thread and the buffer are in order, the first before the
second; `ServedDown` that of what is still here, whatever is older than a record that was
stored, or that a request given up carries, was stored or is carried with it; `GoneOldest`
that what is nowhere any more is older than all that is buffered and as many
records behind the newest as the buffer holds.  A record that the thread has taken may be older
than one that is gone, but then the buffer is full, and putting the batch back drops it.
`AcceptedStored` and `StoredOnce` relate what the API has taken to what the thread still holds.  Only the last drain, with two threads at work, breaks the order, so the order is claimed
`Before` it.  `PushedIs`, `PutBackIs` and `ConcatIs` say what the operations of the deque
do to an ordered sequence, `CountAbove` how many records fit between two.

**KubernetesBackendProofs.** `OneJob` and `PodsOwned` say to which run the Job and each
pod belong: a pod without its Job exists only after a cancel, so the first pod that
carries the label is the run's own.  The lemmas `GoesOn`, `Ends` and `ClusterSteps`
treat the steps that go on, that end a run, and those of the cluster.

**OutputHandoffProofs.** For any set of outputs.  `ListedIsThere` follows from the order in
which one output is recorded and from what is left being uploaded already.  The other two need to know
what an unbroken call has done: while it runs, every output is either still to come, the one
in hand, or recorded as its kind asks, and when the worker goes on nothing is left.
`NothingPublished` is what is true of a worker without a client for the store.

**EnergyReconcilerProofs.** For any number of replicas.  `ReadInTime` says that a tick which is up
to date read a job late enough, and this stays true as jobs only grow older.  For
`MetricsKept`, that a tick has seen the report which is there (`ReportIsSeen`) is not
inductive: a second tick may write back what it has seen itself.  It must
hold against what any tick has seen, and `ReportStays` and `ReportedOnce` give that: until a
job is measured nothing takes a report away, and there is one report of a job.

**Only model-checked.** Liveness (`RunEnds`, `LostRunEnds`, `ChildDecided`,
`PlacedStarts`, `TaskCloses`, `DueIsRun`, `DueIsClaimed`, `RecordsShip`,
`RunReturns`, `BacklogDrains`) is out of the prover's reach.  Every invariant and
every action property of the passing runs is proved.  That the plan of `expand` has every
node that is not blocked is neither a property nor a theorem: the proofs say what a plan
has, in which order, and not that the rounds of a loop are enough for it to end.

## 5. What is not modelled

Left out on purpose: payload assembly, the Docker and Apptainer back ends,
sampling, the queries of the CO2 metrics, logging and events, authentication, the catalogue and every CRUD
module (`PROJECT.json` gives the reason for each).

In the modules above:

* in `OutputHandoff`, batches with several jobs, a second run of the same job, the globs of
  `stage_out`, and the types and names of products; `stage_in` downloads what it is told;
* hosts whose worker registers with another capacity: `dispatch_tick` counts what is
  reserved, so a host that shrinks gets nothing until it fits again, but a tick that has
  read the old capacity may overbook it;
* the connection of the dispatcher to its database and what happens in an outage: that
  ticks do not overlap (`Db.tx`) and repeat (`_ticker`) is taken from the code;
* rows of other tasks; old batches with several jobs;
* the merge of parameters along a chain, `update` and `updatePriority` of a task, nodes
  of a chain that are edited while it is expanded;
* the streaming of logs and the cancel of a Kubernetes run from outside, which the
  runner does not do.

What comes next, if the project goes on: capacity as a variable of `JobLifecycle`, the
dispatcher's connection, and the merge of parameters along a chain.

## 6. Checking

```
tlc -workers 2 -config job_dependencies.cfg MCJobLifecycle
tlc -workers 2 -config task_rollup.cfg MCTaskRollup
tlc -workers 2 -config task_intake.cfg TaskExpansion
tlapm JobLifecycleProofs.tla
tlapm TaskServiceProofs.tla
```

The longest runs (`task_rollup`, `schedule_claim`) take about two minutes on two cores, the
longest proof about one.
