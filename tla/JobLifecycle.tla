---------------------------- MODULE JobLifecycle ----------------------------
(***************************************************************************)
(* The life of a job between the dispatcher (apps/dispatcher), the API     *)
(* (modules job, worker and host) and the workers (apps/worker).  All of   *)
(* them share one database: the rows job, job_x_allocation and host are    *)
(* the variables of the first groups below.  A transaction that locks the  *)
(* rows it decides about is one action; one that reads them without a      *)
(* lock, or before it begins, and writes later is two.  A worker has one   *)
(* or more runner threads: each pulls a job, runs it and reports it once.  *)
(***************************************************************************)
EXTENDS DependencyRules, Placement

CONSTANTS
  Jobs,         \* the jobs of one expanded task
  CreatedAt,    \* job.createdAt, equal for jobs of one transaction
  Need,         \* what a job's script version requires
  Hosts, NoHost,
  Capacity,     \* the scalar resource of a host
  GpuCount, HostRuntime,
  Runners,      \* runner threads of all workers
  HostOf,       \* the host a runner thread belongs to
  NoJob,
  OfflineAfter, \* WORKER_OFFLINE_THRESHOLD_S, in steps of silence
  LostAfter,    \* monitor_lost_host_threshold_s, in steps of silence
  MaxAge,       \* bound: a longer silence is not told apart
  MaxFaults,    \* bound: messages lost, workers and dispatchers stopped
  Cancellable,  \* bound: the jobs an operator may cancel
  Pausable,     \* bound: the jobs an operator may pause
  Administered  \* bound: the hosts whose status an operator sets

VARIABLES
  status, paused, attempt, jobHost,     \* table job
  allocHost, allocGpus, allocOpen,      \* table job_x_allocation
  hostStatus, age,                      \* table host, time since heartbeat
  workerUp, slot,                       \* worker processes, their threads
  reports,                              \* POST result requests in flight
  cancelling, pausing,                  \* API calls between read and write
  doomed, counted,                      \* monitor tick between read and write
  faults                                \* faults that may still happen

allocVars == <<allocHost, allocGpus, allocOpen>>
hostVars  == <<hostStatus, age, workerUp>>
callVars  == <<cancelling, pausing>>
tickVars  == <<doomed, counted>>
vars == <<status, paused, attempt, jobHost, allocVars, hostVars, slot,
          reports, callVars, tickVars, faults>>

HostStatus == {"up", "busy", "off", "maintenance"}
Result     == {"success", "failed"}
GpuIndices == UNION {0 .. GpuCount[h] - 1 : h \in Hosts}
Seen       == {"no", "saw_open", "saw_none"}
Report     == [job : Jobs, host : Hosts, result : Result]

ASSUME JobsAssumption ==
  /\ IsFiniteSet(Jobs) /\ NoJob \notin Jobs
  /\ Edges \subseteq [parent : Jobs, child : Jobs, mode : Mode]
  /\ CreatedAt \in [Jobs -> Nat]
  /\ Need \in [Jobs -> [cores : Nat, gpus : Nat, runtime : Runtime]]
  /\ Cancellable \subseteq Jobs /\ Pausable \subseteq Jobs

ASSUME HostsAssumption ==
  /\ IsFiniteSet(Hosts) /\ NoHost \notin Hosts
  /\ Capacity \in [Hosts -> Nat] /\ GpuCount \in [Hosts -> Nat]
  /\ HostRuntime \in [Hosts -> Runtime]
  /\ HostOf \in [Runners -> Hosts]
  /\ Administered \subseteq Hosts

ASSUME BoundsAssumption ==
  /\ OfflineAfter \in Nat /\ LostAfter \in Nat
  /\ MaxAge \in Nat /\ MaxFaults \in Nat

TypeOK ==
  /\ status \in [Jobs -> JobStatus]
  /\ paused \in [Jobs -> BOOLEAN]
  /\ attempt \in [Jobs -> Nat]
  /\ jobHost \in [Jobs -> Hosts \cup {NoHost}]
  /\ allocHost \in [Jobs -> Hosts \cup {NoHost}]
  /\ allocGpus \in [Jobs -> SUBSET GpuIndices]
  /\ allocOpen \in [Jobs -> BOOLEAN]
  /\ hostStatus \in [Hosts -> HostStatus]
  /\ age \in [Hosts -> Nat]
  /\ workerUp \in [Hosts -> BOOLEAN]
  /\ slot \in [Runners -> Jobs \cup {NoJob}]
  /\ reports \subseteq Report
  /\ cancelling \in [Jobs -> Seen]
  /\ pausing \in [Jobs -> BOOLEAN]
  /\ doomed \in [Jobs -> Seen]
  /\ counted \in BOOLEAN
  /\ faults \in Nat

-----------------------------------------------------------------------------
(* The tables as the queries read them. *)

HasAllocation(j) == allocHost[j] # NoHost
Holders(h)       == {j \in Jobs : allocOpen[j] /\ allocHost[j] = h}
Unplaced         == {j \in Jobs : status[j] = "ready" /\ ~HasAllocation(j)
                                  /\ ~paused[j]}
SeenOf(j)        == IF allocOpen[j] THEN "saw_open" ELSE "saw_none"
Lost(h, silence) == age[h] > silence

\* alloc_cores, the sum of what jobs reserve: the number of single units.
Units(S) == UNION {{j} \X (1 .. Need[j].cores) : j \in S}
Load(S)  == Cardinality(Units(S))

-----------------------------------------------------------------------------
(* An entry node's job is created ready, any other waiting (expand). *)
Init ==
  /\ status = [j \in Jobs |-> IF Incoming(j) = {} THEN "ready" ELSE "waiting"]
  /\ paused = [j \in Jobs |-> FALSE]
  /\ attempt = [j \in Jobs |-> 0]
  /\ jobHost = [j \in Jobs |-> NoHost]
  /\ allocHost = [j \in Jobs |-> NoHost]
  /\ allocGpus = [j \in Jobs |-> {}]
  /\ allocOpen = [j \in Jobs |-> FALSE]
  /\ hostStatus = [h \in Hosts |-> "up"]
  /\ age = [h \in Hosts |-> 0]
  /\ workerUp = [h \in Hosts |-> TRUE]
  /\ slot = [r \in Runners |-> NoJob]
  /\ reports = {}
  /\ cancelling = [j \in Jobs |-> "no"]
  /\ pausing = [j \in Jobs |-> FALSE]
  /\ doomed = [j \in Jobs |-> "no"]
  /\ counted = FALSE
  /\ faults = MaxFaults

-----------------------------------------------------------------------------
(* Dispatcher ticks: each one transaction, and one at a time (Db.tx).  The *)
(* rows of dep_tick and dispatch_tick are locked; a row that is locked by  *)
(* another transaction is left to the next tick.                           *)

\* The jobs a tick read and will write; no other tick runs meanwhile.
Doomed   == {j \in Jobs : doomed[j] # "no"}
TickIdle == Doomed = {}

\* dep_tick: every waiting job is decided, in one order or another.
DependencyTick ==
  /\ TickIdle
  /\ \E new \in Decided(status) :
       status' = [j \in Jobs |-> IF status[j] = "waiting" THEN new[j]
                                 ELSE status[j]]
  /\ UNCHANGED <<paused, attempt, jobHost, allocVars, hostVars, slot, reports,
                 callVars, tickVars, faults>>

\* What a tick that goes through rows in the order rank, and has placed them
\* as (host, gpus) say, sees of host h when it comes to job j.
PlacedBefore(j, h, rank, host) ==
  {i \in DOMAIN rank : rank[i] < rank[j] /\ host[i] = h}

\* Mutant: the in-memory capacity is not updated after a placement.
LeftForStale(j, h, rank, host) ==
  Capacity[h] - Load(Holders(h))

LeftFor(j, h, rank, host) ==
  Capacity[h] - Load(Holders(h) \cup PlacedBefore(j, h, rank, host))

\* Mutant: the free GPUs are not updated after a placement.
GpuFreeForStale(j, h, rank, host, gpus) ==
  (0 .. GpuCount[h] - 1) \ UNION {allocGpus[i] : i \in Holders(h)}

GpuFreeFor(j, h, rank, host, gpus) ==
  (0 .. GpuCount[h] - 1)
    \ ((UNION {allocGpus[i] : i \in Holders(h)})
        \cup (UNION {gpus[i] : i \in PlacedBefore(j, h, rank, host)}))

Eligible(j, rank, host, gpus) ==
  {h \in Hosts : Fits(hostStatus[h], HostRuntime[h], LeftFor(j, h, rank, host),
                      GpuFreeFor(j, h, rank, host, gpus), Need[j])}

\* Mutant: the first host that fits is taken, as a bin packer would.
PlacedAsFirstFit(j, rank, host, gpus) ==
  \/ /\ host[j] = NoHost
     /\ gpus[j] = {}
     /\ Eligible(j, rank, host, gpus) = {}
  \/ /\ host[j] \in Eligible(j, rank, host, gpus)
     /\ gpus[j] = LowestGpus(GpuFreeFor(j, host[j], rank, host, gpus),
                             Need[j].gpus)

\* find_best_host (worst fit, ties in any order) and the GPUs it is given.
PlacedAs(j, rank, host, gpus) ==
  \/ /\ host[j] = NoHost
     /\ gpus[j] = {}
     /\ Eligible(j, rank, host, gpus) = {}
  \/ /\ host[j] \in Eligible(j, rank, host, gpus)
     /\ gpus[j] = LowestGpus(GpuFreeFor(j, host[j], rank, host, gpus),
                             Need[j].gpus)
     /\ \A h \in Eligible(j, rank, host, gpus) :
          LeftFor(j, h, rank, host) <= LeftFor(j, host[j], rank, host)

\* dispatch_tick: ready jobs that never had an allocation, in the order of
\* their effective priority, each on the best host that is left for it.
DispatchTick ==
  /\ TickIdle
  /\ \E rank \in Orders(Unplaced),
        host \in [Unplaced -> Hosts \cup {NoHost}],
        gpus \in [Unplaced -> SUBSET GpuIndices] :
       /\ \A j \in Unplaced : PlacedAs(j, rank, host, gpus)
       /\ allocHost' = [j \in Jobs |->
                          IF j \in Unplaced THEN host[j] ELSE allocHost[j]]
       /\ allocGpus' = [j \in Jobs |->
                          IF j \in Unplaced THEN gpus[j] ELSE allocGpus[j]]
       /\ allocOpen' = [j \in Jobs |->
                          IF j \in Unplaced THEN host[j] # NoHost
                          ELSE allocOpen[j]]
  /\ UNCHANGED <<status, paused, attempt, jobHost, hostVars, slot, reports,
                 callVars, tickVars, faults>>

\* Mutant: only hosts that still count as up are watched.
MonitorReadUp ==
  LET rows == {j \in Jobs : /\ status[j] = "running"
                            /\ jobHost[j] \in Hosts
                            /\ hostStatus[jobHost[j]] = "up"
                            /\ Lost(jobHost[j], LostAfter)}
  IN  /\ TickIdle /\ rows # {}
      /\ doomed' = [j \in Jobs |-> IF j \in rows THEN SeenOf(j) ELSE "no"]
      /\ counted' = TRUE
      /\ UNCHANGED <<status, paused, attempt, jobHost, allocVars, hostVars,
                     slot, reports, callVars, faults>>

\* monitor_tick reads the running jobs of silent hosts, without a lock ...
MonitorRead ==
  LET rows == {j \in Jobs : /\ status[j] = "running"
                            /\ jobHost[j] \in Hosts
                            /\ Lost(jobHost[j], LostAfter)}
  IN  /\ TickIdle /\ rows # {}
      /\ doomed' = [j \in Jobs |-> IF j \in rows THEN SeenOf(j) ELSE "no"]
      /\ counted' = TRUE
      /\ UNCHANGED <<status, paused, attempt, jobHost, allocVars, hostVars,
                     slot, reports, callVars, faults>>

\* recovery_once does so when the dispatcher starts again (a tick it was in
\* is rolled back): a wider window, and no new attempt is counted.
RecoverRead ==
  LET rows == {j \in Jobs : /\ status[j] = "running"
                            /\ allocOpen[j] /\ HasAllocation(j)
                            /\ Lost(allocHost[j], 2 * LostAfter)}
  IN  /\ faults > 0 /\ faults' = faults - 1
      /\ doomed' = [j \in Jobs |-> IF j \in rows THEN SeenOf(j) ELSE "no"]
      /\ counted' = FALSE
      /\ UNCHANGED <<status, paused, attempt, jobHost, allocVars, hostVars,
                     slot, reports, callVars>>

\* ... and fail_job_and_release_allocation writes, whatever happened since.
FailAndRelease ==
  /\ ~TickIdle
  /\ status' = [j \in Jobs |-> IF j \in Doomed THEN "failed" ELSE status[j]]
  /\ allocOpen' = [j \in Jobs |-> allocOpen[j] /\ doomed[j] # "saw_open"]
  /\ attempt' = [j \in Jobs |-> IF counted /\ j \in Doomed THEN attempt[j] + 1
                                ELSE attempt[j]]
  /\ doomed' = [j \in Jobs |-> "no"]
  /\ counted' = FALSE
  /\ UNCHANGED <<paused, jobHost, allocHost, allocGpus, hostVars, slot,
                 reports, callVars, faults>>

-----------------------------------------------------------------------------
(* The worker: runner threads, keepalive loop, stop and start. *)

\* Mutant: a job whose reply may be lost is handed out again.
ReadyOnAgain(h) == {j \in Holders(h) : status[j] \in {"ready", "running"}}

\* Mutant: whatever holds a reservation and is not running is handed out.
ReadyOnAny(h) == {j \in Holders(h) : status[j] # "running"}

ReadyOn(h) == {j \in Holders(h) : status[j] = "ready"}

\* Mutant: no job for a host that does not count as up.
NextJobUp(r) ==
  LET h == HostOf[r] IN
  /\ workerUp[h] /\ slot[r] = NoJob /\ hostStatus[h] = "up"
  /\ \E j \in ReadyOn(h) :
       /\ \A i \in ReadyOn(h) : CreatedAt[j] <= CreatedAt[i]
       /\ status' = [status EXCEPT ![j] = "running"]
       /\ jobHost' = [jobHost EXCEPT ![j] = h]
       /\ \/ slot' = [slot EXCEPT ![r] = j] /\ UNCHANGED faults
          \/ faults > 0 /\ faults' = faults - 1 /\ UNCHANGED slot
  /\ UNCHANGED <<paused, attempt, allocVars, hostVars, reports, callVars,
                 tickVars>>

\* Runner.run and WorkerService.nextJob: the oldest ready job of the host
\* becomes running.  The reply may be lost, then no thread has the job.
NextJob(r) ==
  LET h == HostOf[r] IN
  /\ workerUp[h] /\ slot[r] = NoJob
  /\ \E j \in ReadyOn(h) :
       /\ \A i \in ReadyOn(h) : CreatedAt[j] <= CreatedAt[i]
       /\ status' = [status EXCEPT ![j] = "running"]
       /\ jobHost' = [jobHost EXCEPT ![j] = h]
       /\ \/ slot' = [slot EXCEPT ![r] = j] /\ UNCHANGED faults
          \/ faults > 0 /\ faults' = faults - 1 /\ UNCHANGED slot
  /\ UNCHANGED <<paused, attempt, allocVars, hostVars, reports, callVars,
                 tickVars>>

\* Runner._execute to its end: one report, never repeated.  The thread goes
\* on at the reply or after its timeout, so it does not wait for the API.
FinishRun(r) ==
  /\ slot[r] # NoJob
  /\ slot' = [slot EXCEPT ![r] = NoJob]
  /\ \/ /\ \E res \in Result :
             reports' = reports \cup
               {[job |-> slot[r], host |-> HostOf[r], result |-> res]}
        /\ UNCHANGED faults
     \/ faults > 0 /\ faults' = faults - 1 /\ UNCHANGED reports
  /\ UNCHANGED <<status, paused, attempt, jobHost, allocVars, hostVars,
                 callVars, tickVars>>

\* Mutant: a failed job keeps its reservation.
ReportResultKeep(m) ==
  /\ m \in reports
  /\ reports' = reports \ {m}
  /\ IF allocHost[m.job] = m.host
     THEN /\ status' = [status EXCEPT ![m.job] = m.result]
          /\ allocOpen' = [allocOpen EXCEPT ![m.job] = m.result = "failed"]
     ELSE UNCHANGED <<status, allocOpen>>
  /\ UNCHANGED <<paused, attempt, jobHost, allocHost, allocGpus, hostVars,
                 slot, callVars, tickVars, faults>>

\* Mutant: a failure, which has no exit code, is refused by the API.
ReportResultRefused(m) ==
  /\ m \in reports
  /\ reports' = reports \ {m}
  /\ IF m.result = "success"
     THEN /\ status' = [status EXCEPT ![m.job] = m.result]
          /\ allocOpen' = [allocOpen EXCEPT ![m.job] = FALSE]
     ELSE UNCHANGED <<status, allocOpen>>
  /\ UNCHANGED <<paused, attempt, jobHost, allocHost, allocGpus, hostVars,
                 slot, callVars, tickVars, faults>>

\* Mutant: a failed job goes back to ready for another attempt.
ReportResultRetry(m) ==
  /\ m \in reports
  /\ reports' = reports \ {m}
  /\ IF allocHost[m.job] = m.host
     THEN /\ status' = [status EXCEPT ![m.job] = IF m.result = "failed"
                                               THEN "ready" ELSE m.result]
          /\ allocOpen' = [allocOpen EXCEPT ![m.job] = m.result = "failed"]
     ELSE UNCHANGED <<status, allocOpen>>
  /\ UNCHANGED <<paused, attempt, jobHost, allocHost, allocGpus, hostVars,
                 slot, callVars, tickVars, faults>>

\* WorkerService.reportResult: the host of the allocation is checked, the
\* status of the job is not.
ReportResult(m) ==
  /\ m \in reports
  /\ reports' = reports \ {m}
  /\ IF allocHost[m.job] = m.host
     THEN /\ status' = [status EXCEPT ![m.job] = m.result]
          /\ allocOpen' = [allocOpen EXCEPT ![m.job] = FALSE]
     ELSE UNCHANGED <<status, allocOpen>>
  /\ UNCHANGED <<paused, attempt, jobHost, allocHost, allocGpus, hostVars,
                 slot, callVars, tickVars, faults>>

\* The process dies (nothing else is written), or stops on a signal and
\* marks its host off; the jobs in its threads are abandoned either way.
StopWorker(h) ==
  /\ workerUp[h] /\ faults > 0
  /\ faults' = faults - 1
  /\ workerUp' = [workerUp EXCEPT ![h] = FALSE]
  /\ slot' = [r \in Runners |-> IF HostOf[r] = h THEN NoJob ELSE slot[r]]
  /\ hostStatus' \in {hostStatus, [hostStatus EXCEPT ![h] = "off"]}
  /\ UNCHANGED <<status, paused, attempt, jobHost, allocVars, age, reports,
                 callVars, tickVars>>

\* Worker._register: up and heard of, whatever the host was.
StartWorker(h) ==
  /\ ~workerUp[h]
  /\ workerUp' = [workerUp EXCEPT ![h] = TRUE]
  /\ hostStatus' = [hostStatus EXCEPT ![h] = "up"]
  /\ age' = [age EXCEPT ![h] = 0]
  /\ UNCHANGED <<status, paused, attempt, jobHost, allocVars, slot, reports,
                 callVars, tickVars, faults>>

\* The keepalive loop and HostService.heartbeat.
Heartbeat(h) ==
  /\ workerUp[h]
  /\ hostStatus' = [hostStatus EXCEPT ![h] = "up"]
  /\ age' = [age EXCEPT ![h] = 0]
  /\ UNCHANGED <<status, paused, attempt, jobHost, allocVars, workerUp, slot,
                 reports, callVars, tickVars, faults>>

\* Time passes without a heartbeat of h.
Silence(h) ==
  /\ age[h] < MaxAge
  /\ age' = [age EXCEPT ![h] = @ + 1]
  /\ UNCHANGED <<status, paused, attempt, jobHost, allocVars, hostStatus,
                 workerUp, slot, reports, callVars, tickVars, faults>>

\* HostScheduler.markStaleHostsOffline.
MarkStaleOffline ==
  /\ hostStatus' = [h \in Hosts |-> IF Lost(h, OfflineAfter) THEN "off"
                                    ELSE hostStatus[h]]
  /\ UNCHANGED <<status, paused, attempt, jobHost, allocVars, age, workerUp,
                 slot, reports, callVars, tickVars, faults>>

-----------------------------------------------------------------------------
(* Operators of the API: cancel, pause, resume, and the status of a host. *)

\* JobService.cancel reads the job and its allocation first ...
CancelRead(j) ==
  /\ j \in Cancellable /\ cancelling[j] = "no"
  /\ status[j] \in {"waiting", "ready", "running"}
  /\ cancelling' = [cancelling EXCEPT ![j] =
                      IF allocOpen[j] THEN "saw_open" ELSE "saw_none"]
  /\ UNCHANGED <<status, paused, attempt, jobHost, allocVars, hostVars, slot,
                 reports, pausing, tickVars, faults>>

\* Mutant: only the status is guarded by what happened since.
CancelWriteHalf(j) ==
  /\ cancelling[j] # "no"
  /\ cancelling' = [cancelling EXCEPT ![j] = "no"]
  /\ status' = [status EXCEPT ![j] = IF @ \in {"waiting", "ready"}
                                     THEN "cancelled" ELSE @]
  /\ allocOpen' = [allocOpen EXCEPT ![j] = @ /\ cancelling[j] # "saw_open"]
  /\ UNCHANGED <<paused, attempt, jobHost, allocHost, allocGpus, hostVars,
                 slot, reports, pausing, tickVars, faults>>

\* ... and then writes what it decided, whatever happened since.
CancelWrite(j) ==
  /\ cancelling[j] # "no"
  /\ cancelling' = [cancelling EXCEPT ![j] = "no"]
  /\ status' = [status EXCEPT ![j] = "cancelled"]
  /\ allocOpen' = [allocOpen EXCEPT ![j] = @ /\ cancelling[j] # "saw_open"]
  /\ UNCHANGED <<paused, attempt, jobHost, allocHost, allocGpus, hostVars,
                 slot, reports, pausing, tickVars, faults>>

\* JobService.pause, in the same two steps, and resume.
PauseRead(j) ==
  /\ j \in Pausable /\ ~pausing[j]
  /\ status[j] = "ready" /\ ~paused[j]
  /\ pausing' = [pausing EXCEPT ![j] = TRUE]
  /\ UNCHANGED <<status, paused, attempt, jobHost, allocVars, hostVars, slot,
                 reports, cancelling, tickVars, faults>>

PauseWrite(j) ==
  /\ pausing[j]
  /\ pausing' = [pausing EXCEPT ![j] = FALSE]
  /\ paused' = [paused EXCEPT ![j] = TRUE]
  /\ UNCHANGED <<status, attempt, jobHost, allocVars, hostVars, slot, reports,
                 cancelling, tickVars, faults>>

Resume(j) ==
  /\ paused[j]
  /\ paused' = [paused EXCEPT ![j] = FALSE]
  /\ UNCHANGED <<status, attempt, jobHost, allocVars, hostVars, slot, reports,
                 callVars, tickVars, faults>>

\* HostService.updateStatus.
UpdateStatus(h, s) ==
  /\ h \in Administered
  /\ hostStatus' = [hostStatus EXCEPT ![h] = s]
  /\ UNCHANGED <<status, paused, attempt, jobHost, allocVars, age, workerUp,
                 slot, reports, callVars, tickVars, faults>>

-----------------------------------------------------------------------------
DispatcherNext ==
  \/ DependencyTick \/ DispatchTick
  \/ MonitorRead \/ RecoverRead \/ FailAndRelease
WorkerNext ==
  \/ \E r \in Runners : NextJob(r) \/ FinishRun(r)
  \/ \E m \in reports : ReportResult(m)
HostNext ==
  \/ \E h \in Hosts : \/ StopWorker(h) \/ StartWorker(h)
                      \/ Heartbeat(h) \/ Silence(h)
  \/ MarkStaleOffline
OperatorNext ==
  \/ \E j \in Jobs : \/ CancelRead(j) \/ CancelWrite(j)
                     \/ PauseRead(j) \/ PauseWrite(j) \/ Resume(j)
  \/ \E h \in Hosts, s \in HostStatus : UpdateStatus(h, s)

Next == DispatcherNext \/ WorkerNext \/ HostNext \/ OperatorNext

Spec == Init /\ [][Next]_vars
-----------------------------------------------------------------------------
(* Safety. *)

Running(j) == status[j] = "running"
Over(j)    == status[j] \in Ended

\* No GPU index of a host is in two open reservations: what dispatch_tick
\* computes from the table, and within one tick from its own copy, never
\* hands a device out twice.
GpuExclusive ==
  \A i, j \in Jobs :
    /\ i # j
    /\ allocOpen[i] /\ allocOpen[j]
    /\ allocHost[i] = allocHost[j]
    => allocGpus[i] \cap allocGpus[j] = {}

\* The open reservations of a host never exceed its capacity, although a
\* tick only ever looks at one job at a time.
CapacityRespected == \A h \in Hosts : Load(Holders(h)) <= Capacity[h]

\* A job that the database calls running has its reservation open, on the
\* host that took it: whatever cancel, monitor, recovery and late reports do
\* in between, its cores and GPUs are not given to another job.
RunningHoldsReservation ==
  \A j \in Jobs : Running(j) => /\ allocOpen[j]
                                /\ allocHost[j] = jobHost[j]
                                /\ jobHost[j] \in Hosts

\* A job is in the hands of at most one runner thread, or of its one report,
\* and whoever has it took it from ready: it can never be picked up again.
SingleExecutor ==
  /\ \A q, r \in Runners : slot[q] = slot[r] /\ slot[q] # NoJob => q = r
  /\ \A m, n \in reports : m.job = n.job => m = n
  /\ \A m \in reports, r \in Runners : slot[r] # m.job
  /\ \A j \in Jobs :
       (\E r \in Runners : slot[r] = j) \/ (\E m \in reports : m.job = j)
         => status[j] \notin {"waiting", "ready"}

\* A reservation that outlives its job is the work of a cancel that read
\* the job before it was placed; no other end of a job leaves one behind.
LeakOnlyByCancel ==
  \A j \in Jobs : Over(j) /\ allocOpen[j] => status[j] = "cancelled"

\* Nothing but other reservations keeps the job off the host.
CouldRun(h, j) ==
  Fits(hostStatus[h], HostRuntime[h], Capacity[h], 0 .. GpuCount[h] - 1, Need[j])

\* A tick spreads: it does not put a job on a host beside another, already
\* there or placed by the same tick, and leave a host without any that is as
\* large and could run either.
Spreads ==
  \A j \in Unplaced, i \in Jobs, g, h \in Hosts :
    /\ i # j /\ {i, j} \subseteq Holders(g)'
    /\ CouldRun(h, j) /\ (i \in Unplaced => CouldRun(h, i))
    /\ Need[i].cores > 0 /\ Need[j].cores > 0
    /\ Capacity[h] >= Capacity[g]
    => Holders(h)' # {}

SpreadsOverIdleHosts == [][Spreads]_vars

\* A job is released only from waiting and only when each of its edges finds
\* its parent as it asks in that tick (a success for on_success, an end for
\* on_completion, a failure of one of them for on_failure), and it runs only
\* after the release: no stale cancel, monitor tick or late report starts a
\* child behind a parent that ended otherwise.
DependencyGate ==
  [][\A j \in Jobs :
       /\ status[j] # "ready" /\ status'[j] = "ready" =>
            /\ status[j] = "waiting"
            /\ \A e \in Wired(j) : Allows(e, status, status')
       /\ ~Running(j) /\ Running(j)' => status[j] = "ready"]_vars

\* An ended job never becomes waiting, ready or running again, though late
\* reports and stale cancels may still change how it ended.
EndedStaysEnded == [][\A j \in Jobs : Over(j) => Over(j)']_vars

-----------------------------------------------------------------------------
(* What all this amounts to for a task: the promise JobFlow.               *)

Started == {j \in Jobs : jobHost[j] # NoHost}
Carried == ({slot[r] : r \in Runners} \ {NoJob}) \cup {m.job : m \in reports}

Flow == INSTANCE JobFlow WITH Initial <- Jobs, started <- Started,
                              inHand <- Carried

\* Whatever ticks, workers, cancels and faults do, seen without hosts and
\* reservations it is the flow of jobs that the roll-up of batches and tasks
\* builds on: nothing is started twice, reported twice or reopened.
FlowOfJobs == Flow!FlowSpec
-----------------------------------------------------------------------------
(* Liveness.  The ticks, the cron job and the runner threads loop for ever *)
(* and swallow their errors; a request that arrives is answered; a script  *)
(* ends; and time goes on for a host whose worker is down.                 *)

Fairness ==
  /\ WF_vars(DependencyTick) /\ WF_vars(DispatchTick)
  /\ WF_vars(MonitorRead) /\ WF_vars(FailAndRelease)
  /\ \A r \in Runners : WF_vars(NextJob(r)) /\ WF_vars(FinishRun(r))
  /\ WF_vars(\E m \in reports : ReportResult(m))
  /\ \A h \in Hosts : WF_vars(~workerUp[h] /\ Silence(h))

FairSpec == Spec /\ Fairness

\* Nobody will ever report this running job, after a fault: its reply or its
\* report was lost, or its worker stopped.
Orphan(j) ==
  /\ Running(j)
  /\ faults < MaxFaults
  /\ \A r \in Runners : slot[r] # j
  /\ \A m \in reports : m.job # j

\* A running job ends, unless it is orphaned.
RunEnds == \A j \in Jobs : Running(j) ~> Over(j) \/ Orphan(j)

\* A running job whose worker is down does not stay so: the monitor fails
\* it, unless the worker starts again first.
LostRunEnds ==
  \A j \in Jobs, h \in Hosts :
    Running(j) /\ jobHost[j] = h /\ ~workerUp[h]
      ~> ~Running(j) \/ workerUp[h]

\* A waiting job all of whose parents have ended is decided.
ChildDecided ==
  \A j \in Jobs :
    status[j] = "waiting" /\ (\A e \in Incoming(j) : Over(e.parent))
      ~> status[j] # "waiting"

\* A placed job is started, as long as the worker of its host is up.
PlacedStarts ==
  \A j \in Jobs, h \in Hosts :
    status[j] = "ready" /\ j \in Holders(h) /\ workerUp[h]
      ~> status[j] # "ready" \/ ~workerUp[h]
=============================================================================
