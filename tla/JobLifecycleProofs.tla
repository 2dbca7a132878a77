------------------------- MODULE JobLifecycleProofs -------------------------
(***************************************************************************)
(* Theorems about JobLifecycle, for every set of jobs, edges, hosts and    *)
(* runner threads.                                                         *)
(***************************************************************************)
EXTENDS JobLifecycle, FiniteSetTheorems, TLAPS

-----------------------------------------------------------------------------
(* The inductive invariant.  Each part is a fact the code relies on but    *)
(* writes down nowhere.                                                    *)

\* An open reservation names a host.
OpenIsPlaced == \A j \in Jobs : allocOpen[j] => allocHost[j] \in Hosts

\* A waiting job has never been placed, a ready one has never been started.
NotBefore ==
  /\ \A j \in Jobs : status[j] = "waiting" => allocHost[j] = NoHost
  /\ \A j \in Jobs :
       jobHost[j] # NoHost => status[j] \notin {"waiting", "ready"}

\* What a thread or a report carries was started, and so was what succeeded.
CarriedWasStarted ==
  /\ \A r \in Runners : slot[r] # NoJob => jobHost[slot[r]] # NoHost
  /\ \A m \in reports : jobHost[m.job] # NoHost
  /\ \A j \in Jobs : status[j] = "success" => jobHost[j] # NoHost

\* The monitor only ever reads running jobs, whose reservation is open.
DoomedHeld == \A j \in Jobs : doomed[j] # "saw_none"

IInv ==
  /\ TypeOK
  /\ OpenIsPlaced /\ NotBefore /\ CarriedWasStarted /\ DoomedHeld
  /\ RunningHoldsReservation /\ SingleExecutor /\ LeakOnlyByCancel
  /\ GpuExclusive /\ CapacityRespected
-----------------------------------------------------------------------------
(* Type correctness. *)

LEMMA InitType == Init => TypeOK
<1> SUFFICES ASSUME Init PROVE TypeOK
    OBVIOUS
<1>1. status \in [Jobs -> JobStatus]
  BY DEF Init, JobStatus
<1>2. allocGpus \in [Jobs -> SUBSET GpuIndices]
  BY DEF Init
<1>3. /\ paused \in [Jobs -> BOOLEAN] /\ attempt \in [Jobs -> Nat]
      /\ allocOpen \in [Jobs -> BOOLEAN] /\ pausing \in [Jobs -> BOOLEAN]
  BY DEF Init
<1>4. /\ jobHost \in [Jobs -> Hosts \cup {NoHost}]
      /\ allocHost \in [Jobs -> Hosts \cup {NoHost}]
      /\ slot \in [Runners -> Jobs \cup {NoJob}]
  BY DEF Init
<1>5. /\ hostStatus \in [Hosts -> HostStatus]
      /\ age \in [Hosts -> Nat] /\ workerUp \in [Hosts -> BOOLEAN]
  BY DEF Init, HostStatus
<1>6. /\ cancelling \in [Jobs -> Seen] /\ doomed \in [Jobs -> Seen]
      /\ counted \in BOOLEAN
  BY DEF Init, Seen
<1>7. reports \subseteq Report /\ faults \in Nat
  BY BoundsAssumption DEF Init
<1> QED
  BY <1>1, <1>2, <1>3, <1>4, <1>5, <1>6, <1>7 DEF TypeOK

\* The dispatcher's actions preserve the types.
LEMMA DispatcherType == TypeOK /\ DispatcherNext => TypeOK'
<1> SUFFICES ASSUME TypeOK, DispatcherNext PROVE TypeOK'
    OBVIOUS
<1> USE DEF TypeOK
<1>1. CASE DependencyTick
  <2> DEFINE rows == {j \in Jobs : status[j] = "waiting"}
  <2>1. PICK new \in [rows -> {"ready", "waiting", "skipped"}] :
          status' = [j \in Jobs |-> IF j \in rows THEN new[j] ELSE status[j]]
    <3>1. DOMAIN status = Jobs
      OBVIOUS
    <3>2. Decided(status) \subseteq
            [rows -> {"ready", "waiting", "skipped"}]
      BY <3>1 DEF Decided
    <3>3. PICK new \in Decided(status) :
            status' = [j \in Jobs |-> IF status[j] = "waiting" THEN new[j]
                                      ELSE status[j]]
      BY <1>1 DEF DependencyTick
    <3> QED
      BY <3>2, <3>3
  <2>2. status' \in [Jobs -> JobStatus]
    BY <2>1 DEF JobStatus
  <2> QED
    BY <1>1, <2>2 DEF DependencyTick, allocVars, hostVars, callVars, tickVars
<1>2. CASE DispatchTick
  <2>1. PICK host \in [Unplaced -> Hosts \cup {NoHost}],
             gpus \in [Unplaced -> SUBSET GpuIndices] :
          /\ allocHost' = [j \in Jobs |->
                             IF j \in Unplaced THEN host[j] ELSE allocHost[j]]
          /\ allocGpus' = [j \in Jobs |->
                             IF j \in Unplaced THEN gpus[j] ELSE allocGpus[j]]
          /\ allocOpen' = [j \in Jobs |->
                             IF j \in Unplaced THEN host[j] # NoHost
                             ELSE allocOpen[j]]
    BY <1>2 DEF DispatchTick
  <2>2. allocHost' \in [Jobs -> Hosts \cup {NoHost}]
    BY <2>1
  <2>3. allocGpus' \in [Jobs -> SUBSET GpuIndices]
    BY <2>1
  <2>4. allocOpen' \in [Jobs -> BOOLEAN]
    BY <2>1
  <2> QED
    BY <1>2, <2>2, <2>3, <2>4 DEF DispatchTick, hostVars, callVars, tickVars
<1>3. CASE MonitorRead
  BY <1>3 DEF MonitorRead, allocVars, hostVars, callVars, SeenOf, Seen
<1>4. CASE RecoverRead
  <2>1. faults' \in Nat
    BY <1>4 DEF RecoverRead
  <2> QED
    BY <1>4, <2>1 DEF RecoverRead, allocVars, hostVars, callVars, SeenOf, Seen
<1>5. CASE FailAndRelease
  <2>1. status' \in [Jobs -> JobStatus]
    BY <1>5 DEF FailAndRelease, JobStatus
  <2>2. allocOpen' \in [Jobs -> BOOLEAN] /\ doomed' \in [Jobs -> Seen]
    BY <1>5 DEF FailAndRelease, Seen
  <2>3. attempt' \in [Jobs -> Nat]
    BY <1>5 DEF FailAndRelease
  <2> QED
    BY <1>5, <2>1, <2>2, <2>3 DEF FailAndRelease, hostVars, callVars
<1> QED
  BY <1>1, <1>2, <1>3, <1>4, <1>5 DEF DispatcherNext

\* The actions of workers and of the API they call preserve the types.
LEMMA WorkerType == TypeOK /\ WorkerNext => TypeOK'
<1> SUFFICES ASSUME TypeOK, WorkerNext PROVE TypeOK'
    OBVIOUS
<1> USE DEF TypeOK
<1>1. ASSUME NEW r \in Runners, NextJob(r) PROVE TypeOK'
  <2>1. HostOf[r] \in Hosts
    BY HostsAssumption
  <2>2. PICK j \in Jobs : /\ status' = [status EXCEPT ![j] = "running"]
                          /\ jobHost' = [jobHost EXCEPT ![j] = HostOf[r]]
                          /\ \/ /\ slot' = [slot EXCEPT ![r] = j]
                                /\ UNCHANGED faults
                             \/ /\ faults > 0 /\ faults' = faults - 1
                                /\ UNCHANGED slot
    BY <1>1 DEF NextJob, ReadyOn, Holders
  <2>3. /\ status' \in [Jobs -> JobStatus]
        /\ jobHost' \in [Jobs -> Hosts \cup {NoHost}]
    BY <2>1, <2>2 DEF JobStatus
  <2>4. slot' \in [Runners -> Jobs \cup {NoJob}] /\ faults' \in Nat
    BY <2>2
  <2> QED
    BY <1>1, <2>3, <2>4 DEF NextJob, allocVars, hostVars, callVars, tickVars
<1>2. ASSUME NEW r \in Runners, FinishRun(r) PROVE TypeOK'
  <2>1. slot[r] \in Jobs /\ HostOf[r] \in Hosts
    BY <1>2, HostsAssumption DEF FinishRun
  <2>2. slot' \in [Runners -> Jobs \cup {NoJob}] /\ faults' \in Nat
    BY <1>2 DEF FinishRun
  <2>3. \A res \in Result :
          [job |-> slot[r], host |-> HostOf[r], result |-> res] \in Report
    BY <2>1 DEF Report
  <2>4. reports' \subseteq Report
    BY <1>2, <2>3 DEF FinishRun
  <2> QED
    BY <1>2, <2>2, <2>4 DEF FinishRun, allocVars, hostVars, callVars, tickVars
<1>3. ASSUME NEW m \in reports, ReportResult(m) PROVE TypeOK'
  <2>1. m.job \in Jobs /\ m.result \in JobStatus
    BY DEF Report, Result, JobStatus
  <2>2. status' \in [Jobs -> JobStatus] /\ allocOpen' \in [Jobs -> BOOLEAN]
    BY <1>3, <2>1 DEF ReportResult
  <2>3. reports' \subseteq Report
    BY <1>3 DEF ReportResult
  <2> QED
    BY <1>3, <2>2, <2>3 DEF ReportResult, hostVars, callVars, tickVars
<1> QED
  BY <1>1, <1>2, <1>3 DEF WorkerNext

\* So do those of worker processes and of the host table.
LEMMA HostType == TypeOK /\ HostNext => TypeOK'
<1> SUFFICES ASSUME TypeOK, HostNext PROVE TypeOK'
    OBVIOUS
<1> USE DEF TypeOK, allocVars, hostVars, callVars, tickVars
<1>1. ASSUME NEW h \in Hosts, StopWorker(h) PROVE TypeOK'
  <2>1. faults' \in Nat /\ workerUp' \in [Hosts -> BOOLEAN]
    BY <1>1 DEF StopWorker
  <2>2. slot' \in [Runners -> Jobs \cup {NoJob}]
    BY <1>1 DEF StopWorker
  <2>3. hostStatus' \in [Hosts -> HostStatus]
    BY <1>1 DEF StopWorker, HostStatus
  <2> QED
    BY <1>1, <2>1, <2>2, <2>3 DEF StopWorker
<1>2. ASSUME NEW h \in Hosts, StartWorker(h) PROVE TypeOK'
  BY <1>2 DEF StartWorker, HostStatus
<1>3. ASSUME NEW h \in Hosts, Heartbeat(h) PROVE TypeOK'
  BY <1>3 DEF Heartbeat, HostStatus
<1>4. ASSUME NEW h \in Hosts, Silence(h) PROVE TypeOK'
  BY <1>4 DEF Silence
<1>5. CASE MarkStaleOffline
  <2>1. hostStatus' \in [Hosts -> HostStatus]
    BY <1>5 DEF MarkStaleOffline, HostStatus
  <2> QED
    BY <1>5, <2>1 DEF MarkStaleOffline
<1> QED
  BY <1>1, <1>2, <1>3, <1>4, <1>5 DEF HostNext

\* And those of operators.
LEMMA OperatorType == TypeOK /\ OperatorNext => TypeOK'
<1> SUFFICES ASSUME TypeOK, OperatorNext PROVE TypeOK'
    OBVIOUS
<1> USE DEF TypeOK, allocVars, hostVars, tickVars
<1>1. ASSUME NEW j \in Jobs, CancelRead(j) PROVE TypeOK'
  BY <1>1 DEF CancelRead, Seen
<1>2. ASSUME NEW j \in Jobs, CancelWrite(j) PROVE TypeOK'
  <2>1. status' \in [Jobs -> JobStatus]
    BY <1>2 DEF CancelWrite, JobStatus
  <2>2. cancelling' \in [Jobs -> Seen] /\ allocOpen' \in [Jobs -> BOOLEAN]
    BY <1>2 DEF CancelWrite, Seen
  <2> QED
    BY <1>2, <2>1, <2>2 DEF CancelWrite
<1>3. ASSUME NEW j \in Jobs, PauseRead(j) PROVE TypeOK'
  BY <1>3 DEF PauseRead
<1>4. ASSUME NEW j \in Jobs, PauseWrite(j) PROVE TypeOK'
  BY <1>4 DEF PauseWrite
<1>5. ASSUME NEW j \in Jobs, Resume(j) PROVE TypeOK'
  BY <1>5 DEF Resume, callVars
<1>6. ASSUME NEW h \in Hosts, NEW s \in HostStatus, UpdateStatus(h, s)
      PROVE  TypeOK'
  BY <1>6 DEF UpdateStatus, callVars
<1> QED
  BY <1>1, <1>2, <1>3, <1>4, <1>5, <1>6 DEF OperatorNext

LEMMA TypeStep == TypeOK /\ [Next]_vars => TypeOK'
<1>1. TypeOK /\ UNCHANGED vars => TypeOK'
  BY DEF TypeOK, vars, allocVars, hostVars, callVars, tickVars
<1> QED
  BY <1>1, DispatcherType, WorkerType, HostType, OperatorType DEF Next

\* Every row and every message keeps its type: no action writes a status, a
\* host or a result that the tables do not know.
THEOREM TypeCorrect == Spec => []TypeOK
BY InitType, TypeStep, PTL DEF Spec

-----------------------------------------------------------------------------
(* Who may change what: one lemma per table.                               *)

\* A status changes in one of five ways.
StatusMay(j) ==
  \/ status'[j] = status[j]
  \/ /\ DependencyTick
     /\ status[j] = "waiting" /\ status'[j] \in {"ready", "skipped"}
  \/ status[j] = "ready" /\ status'[j] = "running"
  \/ /\ doomed[j] # "no" /\ status'[j] = "failed"
     /\ allocOpen'[j] => doomed[j] = "saw_none"
  \/ /\ status'[j] \in Result /\ ~allocOpen'[j]
     /\ \E m \in reports : m.job = j
  \/ status'[j] = "cancelled"

\* A reservation is opened by dispatch_tick only, for a job without one, and
\* closed only together with the end of its job.
AllocationMay(j) ==
  /\ allocHost'[j] # allocHost[j] \/ allocGpus'[j] # allocGpus[j] =>
       DispatchTick /\ j \in Unplaced
  /\ allocOpen'[j] /\ ~allocOpen[j] => DispatchTick /\ j \in Unplaced
  /\ allocOpen[j] /\ ~allocOpen'[j] => status'[j] \in Ended

\* A job is started by nextJob only, from ready, on the host it is placed on.
StartMay(j) ==
  /\ jobHost'[j] # jobHost[j] => status[j] = "ready" /\ status'[j] = "running"
  /\ status[j] = "ready" /\ status'[j] = "running" =>
       /\ allocOpen[j] /\ allocOpen'[j]
       /\ allocHost[j] \in Hosts
       /\ jobHost'[j] = allocHost[j] /\ allocHost'[j] = allocHost[j]

Lawful(j) == StatusMay(j) /\ AllocationMay(j) /\ StartMay(j)

LEMMA DispatcherLawful ==
  TypeOK /\ OpenIsPlaced /\ DispatcherNext => \A j \in Jobs : Lawful(j)
<1> SUFFICES ASSUME TypeOK, OpenIsPlaced, DispatcherNext, NEW j \in Jobs
             PROVE  Lawful(j)
    OBVIOUS
<1> USE DEF TypeOK, Lawful, StatusMay, AllocationMay, StartMay, allocVars
<1>1. CASE DependencyTick
  <2> DEFINE rows == {i \in Jobs : status[i] = "waiting"}
  <2>1. PICK new \in [rows -> {"ready", "waiting", "skipped"}] :
          status' = [i \in Jobs |-> IF i \in rows THEN new[i] ELSE status[i]]
    <3>1. DOMAIN status = Jobs
      OBVIOUS
    <3>2. Decided(status) \subseteq
            [rows -> {"ready", "waiting", "skipped"}]
      BY <3>1 DEF Decided
    <3>3. PICK new \in Decided(status) :
            status' = [i \in Jobs |-> IF status[i] = "waiting" THEN new[i]
                                      ELSE status[i]]
      BY <1>1 DEF DependencyTick
    <3> QED
      BY <3>2, <3>3
  <2>2. UNCHANGED <<jobHost, allocHost, allocGpus, allocOpen>>
    BY <1>1 DEF DependencyTick
  <2> QED
    BY <1>1, <2>1, <2>2
<1>2. CASE DispatchTick
  <2>1. j \notin Unplaced => /\ allocHost'[j] = allocHost[j]
                             /\ allocGpus'[j] = allocGpus[j]
                             /\ allocOpen'[j] = allocOpen[j]
    BY <1>2 DEF DispatchTick
  <2>2. j \in Unplaced => ~allocOpen[j]
    BY HostsAssumption DEF Unplaced, HasAllocation, OpenIsPlaced
  <2>3. UNCHANGED <<status, jobHost>>
    BY <1>2 DEF DispatchTick
  <2> QED
    BY <1>2, <2>1, <2>2, <2>3
<1>3. CASE MonitorRead
  BY <1>3 DEF MonitorRead
<1>4. CASE RecoverRead
  BY <1>4 DEF RecoverRead
<1>5. CASE FailAndRelease
  <2>1. /\ status'[j] = IF doomed[j] # "no" THEN "failed" ELSE status[j]
        /\ allocOpen'[j] = (allocOpen[j] /\ doomed[j] # "saw_open")
        /\ UNCHANGED <<jobHost, allocHost, allocGpus>>
    BY <1>5 DEF FailAndRelease, Doomed
  <2> QED
    BY <1>5, <2>1 DEF Ended, Seen
<1> QED
  BY <1>1, <1>2, <1>3, <1>4, <1>5 DEF DispatcherNext

LEMMA WorkerLawful ==
  TypeOK /\ WorkerNext => \A j \in Jobs : Lawful(j)
<1> SUFFICES ASSUME TypeOK, WorkerNext, NEW j \in Jobs PROVE Lawful(j)
    OBVIOUS
<1> USE DEF TypeOK, Lawful, StatusMay, AllocationMay, StartMay, allocVars
<1>1. ASSUME NEW r \in Runners, NextJob(r) PROVE Lawful(j)
  <2>1. HostOf[r] \in Hosts
    BY HostsAssumption
  <2>2. PICK i \in ReadyOn(HostOf[r]) :
          /\ status' = [status EXCEPT ![i] = "running"]
          /\ jobHost' = [jobHost EXCEPT ![i] = HostOf[r]]
    BY <1>1 DEF NextJob
  <2>3. UNCHANGED <<allocHost, allocGpus, allocOpen>>
    BY <1>1 DEF NextJob
  <2> QED
    BY <2>1, <2>2, <2>3 DEF ReadyOn, Holders
<1>2. ASSUME NEW r \in Runners, FinishRun(r) PROVE Lawful(j)
  BY <1>2 DEF FinishRun
<1>3. ASSUME NEW m \in reports, ReportResult(m) PROVE Lawful(j)
  <2>1. m.job \in Jobs /\ m.result \in Result
    BY DEF Report
  <2>2. UNCHANGED <<jobHost, allocHost, allocGpus>>
    BY <1>3 DEF ReportResult
  <2>3. CASE j = m.job /\ allocHost[m.job] = m.host
    <3>1. status'[j] = m.result /\ ~allocOpen'[j]
      BY <1>3, <2>1, <2>3 DEF ReportResult
    <3> QED
      BY <2>1, <2>2, <2>3, <3>1 DEF Ended, Result
  <2>4. CASE ~(j = m.job /\ allocHost[m.job] = m.host)
    <3>1. status'[j] = status[j] /\ allocOpen'[j] = allocOpen[j]
      BY <1>3, <2>1, <2>4 DEF ReportResult
    <3> QED
      BY <2>2, <3>1
  <2> QED
    BY <2>3, <2>4
<1> QED
  BY <1>1, <1>2, <1>3 DEF WorkerNext

LEMMA HostLawful ==
  HostNext \/ UNCHANGED vars => \A j \in Jobs : Lawful(j)
<1> SUFFICES ASSUME HostNext \/ UNCHANGED vars PROVE \A j \in Jobs : Lawful(j)
    OBVIOUS
<1>1. UNCHANGED <<status, jobHost, allocHost, allocGpus, allocOpen>>
  BY DEF HostNext, StopWorker, StartWorker, Heartbeat, Silence,
         MarkStaleOffline, vars, allocVars
<1> QED
  BY <1>1 DEF Lawful, StatusMay, AllocationMay, StartMay

LEMMA OperatorLawful ==
  TypeOK /\ OperatorNext => \A j \in Jobs : Lawful(j)
<1> SUFFICES ASSUME TypeOK, OperatorNext, NEW j \in Jobs PROVE Lawful(j)
    OBVIOUS
<1> USE DEF TypeOK, Lawful, StatusMay, AllocationMay, StartMay
<1>1. ASSUME NEW i \in Jobs, CancelWrite(i) PROVE Lawful(j)
  <2>1. UNCHANGED <<jobHost, allocHost, allocGpus>>
    BY <1>1 DEF CancelWrite
  <2>2. CASE i = j
    <3>1. status'[j] = "cancelled" /\ (allocOpen'[j] => allocOpen[j])
      BY <1>1, <2>2 DEF CancelWrite
    <3> QED
      BY <2>1, <3>1 DEF Ended
  <2>3. CASE i # j
    BY <1>1, <2>1, <2>3 DEF CancelWrite
  <2> QED
    BY <2>2, <2>3
<1>2. ASSUME UNCHANGED <<status, jobHost, allocHost, allocGpus, allocOpen>>
      PROVE  Lawful(j)
  BY <1>2
<1> QED
  BY <1>1, <1>2 DEF OperatorNext, CancelRead, PauseRead, PauseWrite, Resume,
                    UpdateStatus, allocVars

LEMMA StepLawful ==
  TypeOK /\ OpenIsPlaced /\ [Next]_vars => \A j \in Jobs : Lawful(j)
BY DispatcherLawful, WorkerLawful, HostLawful, OperatorLawful DEF Next

-----------------------------------------------------------------------------
(* The invariant is inductive, part by part.                               *)

LEMMA InitInv == Init => IInv
<1> SUFFICES ASSUME Init PROVE IInv
    OBVIOUS
<1>1. TypeOK
  BY InitType
<1>2. \A j \in Jobs : /\ status[j] \in {"ready", "waiting"}
                      /\ jobHost[j] = NoHost /\ allocHost[j] = NoHost
                      /\ ~allocOpen[j] /\ doomed[j] = "no"
  BY DEF Init
<1>3. OpenIsPlaced /\ NotBefore /\ DoomedHeld /\ GpuExclusive
  BY <1>2 DEF OpenIsPlaced, NotBefore, DoomedHeld, GpuExclusive
<1>4. RunningHoldsReservation /\ LeakOnlyByCancel
  BY <1>2 DEF RunningHoldsReservation, LeakOnlyByCancel, Running, Over, Ended
<1>5. CarriedWasStarted /\ SingleExecutor
  <2>1. reports = {} /\ \A r \in Runners : slot[r] = NoJob
    BY DEF Init
  <2> QED
    BY <1>2, <2>1, JobsAssumption DEF CarriedWasStarted, SingleExecutor
<1>6. CapacityRespected
  <2>1. \A h \in Hosts : Holders(h) = {}
    BY <1>2 DEF Holders
  <2>2. Load({}) = 0
    BY FS_EmptySet DEF Load, Units
  <2>3. \A h \in Hosts : Load(Holders(h)) = 0
    BY <2>1, <2>2
  <2>4. \A h \in Hosts : Capacity[h] \in Nat
    BY HostsAssumption
  <2> QED BY <2>3, <2>4 DEF CapacityRespected
<1> QED
  BY <1>1, <1>3, <1>4, <1>5, <1>6 DEF IInv

LEMMA PlacedStep == IInv /\ [Next]_vars => OpenIsPlaced'
<1> SUFFICES ASSUME IInv, [Next]_vars, NEW j \in Jobs, allocOpen'[j]
             PROVE  allocHost'[j] \in Hosts
    BY DEF OpenIsPlaced
<1> USE DEF IInv
<1>1. CASE DispatchTick /\ j \in Unplaced
  BY <1>1 DEF DispatchTick
<1>2. CASE ~(DispatchTick /\ j \in Unplaced)
  BY <1>2, StepLawful DEF Lawful, AllocationMay, OpenIsPlaced
<1> QED
  BY <1>1, <1>2

LEMMA NotBeforeStep == IInv /\ [Next]_vars => NotBefore'
<1> SUFFICES ASSUME IInv, [Next]_vars, NEW j \in Jobs
             PROVE  /\ status'[j] = "waiting" => allocHost'[j] = NoHost
                    /\ jobHost'[j] # NoHost =>
                         status'[j] \notin {"waiting", "ready"}
    BY DEF NotBefore
<1>1. Lawful(j)
  BY StepLawful DEF IInv
<1>2. status'[j] \in {"waiting", "ready"} =>
        status[j] = status'[j] \/ status[j] = "waiting"
  BY <1>1 DEF Lawful, StatusMay, Result
<1>3. status'[j] = "waiting" => status[j] = "waiting"
  BY <1>1 DEF Lawful, StatusMay, Result
<1>4. ASSUME status'[j] = "waiting" PROVE allocHost'[j] = NoHost
  BY <1>1, <1>3, <1>4 DEF Lawful, AllocationMay, Unplaced, IInv, NotBefore
<1>5. ASSUME jobHost'[j] # NoHost
      PROVE  status'[j] \notin {"waiting", "ready"}
  BY <1>1, <1>2, <1>5 DEF Lawful, StartMay, IInv, NotBefore
<1> QED
  BY <1>4, <1>5

LEMMA DoomedStep == IInv /\ [Next]_vars => DoomedHeld'
<1> SUFFICES ASSUME IInv, [Next]_vars PROVE DoomedHeld'
    OBVIOUS
<1> USE DEF IInv, DoomedHeld, SeenOf, RunningHoldsReservation, Running
<1>1. CASE MonitorRead
  BY <1>1 DEF MonitorRead
<1>2. CASE RecoverRead
  BY <1>2 DEF RecoverRead
<1>3. CASE FailAndRelease
  BY <1>3 DEF FailAndRelease
<1>4. ASSUME UNCHANGED doomed PROVE DoomedHeld'
  BY <1>4
<1> QED
  BY <1>1, <1>2, <1>3, <1>4
     DEF Next, DispatcherNext, WorkerNext, HostNext, OperatorNext,
         DependencyTick, DispatchTick, NextJob, FinishRun, ReportResult,
         StopWorker, StartWorker, Heartbeat, Silence, MarkStaleOffline,
         CancelRead, CancelWrite, PauseRead, PauseWrite, Resume,
         UpdateStatus, vars, tickVars

LEMMA RunningStep == IInv /\ [Next]_vars => RunningHoldsReservation'
<1> SUFFICES ASSUME IInv, [Next]_vars, NEW j \in Jobs, status'[j] = "running"
             PROVE  /\ allocOpen'[j]
                    /\ allocHost'[j] = jobHost'[j]
                    /\ jobHost'[j] \in Hosts
    BY DEF RunningHoldsReservation, Running
<1>1. Lawful(j)
  BY StepLawful DEF IInv
<1>2. CASE status[j] = "ready"
  BY <1>1, <1>2 DEF Lawful, StartMay
<1>3. CASE status[j] # "ready"
  <2>1. status[j] = "running"
    BY <1>1, <1>3 DEF Lawful, StatusMay, Result
  <2>2. allocOpen[j] /\ allocHost[j] = jobHost[j] /\ jobHost[j] \in Hosts
    BY <2>1 DEF IInv, RunningHoldsReservation, Running
  <2>3. j \notin Unplaced
    BY <2>1 DEF Unplaced
  <2> QED
    BY <1>1, <1>3, <2>2, <2>3
       DEF Lawful, AllocationMay, StartMay, Ended, IInv
<1> QED
  BY <1>2, <1>3

LEMMA LeakStep == IInv /\ [Next]_vars => LeakOnlyByCancel'
<1> SUFFICES ASSUME IInv, [Next]_vars, NEW j \in Jobs,
                    status'[j] \in Ended, allocOpen'[j]
             PROVE  status'[j] = "cancelled"
    BY DEF LeakOnlyByCancel, Over
<1>1. Lawful(j)
  BY StepLawful DEF IInv
<1>2. CASE status'[j] = status[j]
  <2>1. j \notin Unplaced
    BY <1>2 DEF Unplaced, Ended
  <2> QED
    BY <1>1, <1>2, <2>1
       DEF Lawful, AllocationMay, IInv, LeakOnlyByCancel, Over
<1>3. CASE status[j] = "waiting"
  <2>1. ~allocOpen[j] /\ j \notin Unplaced
    BY <1>3, HostsAssumption DEF IInv, NotBefore, OpenIsPlaced, Unplaced
  <2> QED
    BY <1>1, <2>1 DEF Lawful, AllocationMay
<1>4. CASE doomed[j] # "no"
  BY <1>1, <1>2, <1>3, <1>4
     DEF Lawful, StatusMay, IInv, DoomedHeld, Ended
<1> QED
  BY <1>1, <1>2, <1>3, <1>4 DEF Lawful, StatusMay, Ended

\* Slots and reports change by the worker's own steps only.
LEMMA CarriageUnchanged ==
  [Next]_vars =>
    \/ UNCHANGED <<slot, reports>>
    \/ \E r \in Runners : NextJob(r) \/ FinishRun(r)
    \/ \E m \in reports : ReportResult(m)
    \/ \E h \in Hosts : StopWorker(h)
BY DEF Next, DispatcherNext, WorkerNext, HostNext, OperatorNext,
       DependencyTick, DispatchTick, MonitorRead, RecoverRead, FailAndRelease,
       StartWorker, Heartbeat, Silence, MarkStaleOffline, CancelRead,
       CancelWrite, PauseRead, PauseWrite, Resume, UpdateStatus, vars

\* A started job stays started.
LEMMA StartedStays ==
  IInv /\ [Next]_vars =>
    \A j \in Jobs : jobHost[j] # NoHost => jobHost'[j] # NoHost
BY StepLawful DEF IInv, NotBefore, Lawful, StartMay

LEMMA CarriedStep == IInv /\ [Next]_vars => CarriedWasStarted'
<1> SUFFICES ASSUME IInv, [Next]_vars PROVE CarriedWasStarted'
    OBVIOUS
<1>1. \A j \in Jobs : status'[j] = "success" => jobHost'[j] # NoHost
  <2> SUFFICES ASSUME NEW j \in Jobs, status'[j] = "success"
               PROVE  jobHost[j] # NoHost
      BY StartedStays
  <2>1. status[j] = "success" \/ \E m \in reports : m.job = j
    BY StepLawful DEF IInv, Lawful, StatusMay
  <2> QED
    BY <2>1 DEF IInv, CarriedWasStarted
<1>2. /\ \A r \in Runners : slot[r] # NoJob =>
           slot[r] \in Jobs /\ jobHost'[slot[r]] # NoHost
      /\ \A m \in reports : m.job \in Jobs /\ jobHost'[m.job] # NoHost
  BY StartedStays DEF IInv, TypeOK, CarriedWasStarted, Report
<1>3. CASE UNCHANGED <<slot, reports>>
  BY <1>1, <1>2, <1>3 DEF CarriedWasStarted
<1>4. ASSUME NEW r \in Runners, NextJob(r) PROVE CarriedWasStarted'
  <2>1. HostOf[r] \in Hosts /\ HostOf[r] # NoHost
    BY HostsAssumption
  <2>2. PICK j \in Jobs : /\ jobHost' = [jobHost EXCEPT ![j] = HostOf[r]]
                          /\ slot' = [slot EXCEPT ![r] = j] \/ slot' = slot
    BY <1>4 DEF NextJob, ReadyOn, Holders
  <2>3. jobHost'[j] # NoHost
    BY <2>1, <2>2 DEF IInv, TypeOK
  <2>4. reports' = reports
    BY <1>4 DEF NextJob
  <2>5. \A q \in Runners : slot'[q] # NoJob => jobHost'[slot'[q]] # NoHost
    BY <1>2, <2>2, <2>3 DEF IInv, TypeOK
  <2> QED
    BY <1>1, <1>2, <2>4, <2>5 DEF CarriedWasStarted
<1>5. ASSUME NEW r \in Runners, FinishRun(r) PROVE CarriedWasStarted'
  <2>1. slot[r] # NoJob
    BY <1>5 DEF FinishRun
  <2>2. \A m \in reports' : m \in reports \/ m.job = slot[r]
    BY <1>5 DEF FinishRun
  <2>3. \A q \in Runners : slot'[q] = slot[q] \/ slot'[q] = NoJob
    BY <1>5 DEF FinishRun, IInv, TypeOK
  <2> QED
    BY <1>1, <1>2, <2>1, <2>2, <2>3 DEF CarriedWasStarted
<1>6. ASSUME NEW m \in reports, ReportResult(m) PROVE CarriedWasStarted'
  <2>1. reports' \subseteq reports /\ slot' = slot
    BY <1>6 DEF ReportResult
  <2> QED
    BY <1>1, <1>2, <2>1 DEF CarriedWasStarted
<1>7. ASSUME NEW h \in Hosts, StopWorker(h) PROVE CarriedWasStarted'
  <2>1. reports' = reports
    BY <1>7 DEF StopWorker
  <2>2. \A q \in Runners : slot'[q] = slot[q] \/ slot'[q] = NoJob
    BY <1>7 DEF StopWorker
  <2> QED
    BY <1>1, <1>2, <2>1, <2>2 DEF CarriedWasStarted
<1> QED
  BY <1>3, <1>4, <1>5, <1>6, <1>7, CarriageUnchanged

LEMMA ExecutorStep == IInv /\ [Next]_vars => SingleExecutor'
<1> SUFFICES ASSUME IInv, [Next]_vars PROVE SingleExecutor'
    OBVIOUS
<1>1. \A j \in Jobs :
        (\E r \in Runners : slot'[r] = j) \/ (\E m \in reports' : m.job = j)
          => status'[j] \notin {"waiting", "ready"}
  BY CarriedStep, NotBeforeStep, JobsAssumption
     DEF CarriedWasStarted, NotBefore
<1> DEFINE Apart ==
       /\ \A q, r \in Runners : slot[q] = slot[r] /\ slot[q] # NoJob => q = r
       /\ \A m, n \in reports : m.job = n.job => m = n
       /\ \A m \in reports, r \in Runners : slot[r] # m.job
<1>2. Apart
  BY DEF IInv, SingleExecutor
<1> SUFFICES Apart'
    BY <1>1 DEF SingleExecutor
<1>3. CASE UNCHANGED <<slot, reports>>
  BY <1>2, <1>3
<1>4. ASSUME NEW r \in Runners, NextJob(r) PROVE Apart'
  <2>1. PICK j \in Jobs : /\ status[j] = "ready"
                          /\ slot' = [slot EXCEPT ![r] = j] \/ slot' = slot
    BY <1>4 DEF NextJob, ReadyOn, Holders
  <2>2. /\ \A q \in Runners : slot[q] # j
        /\ \A m \in reports : m.job # j
    BY <2>1 DEF IInv, SingleExecutor
  <2>3. reports' = reports
    BY <1>4 DEF NextJob
  <2> QED
    BY <1>2, <2>1, <2>2, <2>3 DEF IInv, TypeOK
<1>5. ASSUME NEW r \in Runners, FinishRun(r) PROVE Apart'
  <2>1. /\ slot[r] \in Jobs
        /\ slot' = [slot EXCEPT ![r] = NoJob]
    BY <1>5 DEF FinishRun, IInv, TypeOK
  <2>2. PICK res : \/ reports' = reports \cup
                        {[job |-> slot[r], host |-> HostOf[r], result |-> res]}
                   \/ reports' = reports
    BY <1>5 DEF FinishRun
  <2>3. \A m \in reports : m.job # slot[r] /\ m.job \in Jobs
    BY <1>2 DEF IInv, TypeOK, Report
  <2>4. \A m, n \in reports' : m.job = n.job => m = n
    BY <1>2, <2>2, <2>3
  <2>5. \A q \in Runners : (slot'[q] = slot[q] /\ q # r) \/ slot'[q] = NoJob
    BY <2>1 DEF IInv, TypeOK
  <2>6. \A m \in reports', q \in Runners : slot'[q] # m.job
    BY <1>2, <2>1, <2>2, <2>3, <2>5, JobsAssumption
  <2> QED
    BY <1>2, <2>4, <2>5, <2>6
<1>6. ASSUME NEW m \in reports, ReportResult(m) PROVE Apart'
  <2>1. reports' \subseteq reports /\ slot' = slot
    BY <1>6 DEF ReportResult
  <2> QED
    BY <1>2, <2>1
<1>7. ASSUME NEW h \in Hosts, StopWorker(h) PROVE Apart'
  <2>1. reports' = reports
    BY <1>7 DEF StopWorker
  <2>2. \A q \in Runners : slot'[q] = slot[q] \/ slot'[q] = NoJob
    BY <1>7 DEF StopWorker
  <2>3. \A m \in reports : m.job # NoJob
    BY JobsAssumption DEF IInv, TypeOK, Report
  <2> QED
    BY <1>2, <2>1, <2>2, <2>3
<1> QED
  BY <1>3, <1>4, <1>5, <1>6, <1>7, CarriageUnchanged

-----------------------------------------------------------------------------
(* The GPU indices that a tick gives out.                                  *)

\* gpu_free[:n] takes free indices only.
LEMMA LowestAreFree ==
  ASSUME NEW free, NEW n PROVE LowestGpus(free, n) \subseteq free
BY DEF LowestGpus

LEMMA GpuStep == IInv /\ [Next]_vars => GpuExclusive'
<1> SUFFICES ASSUME IInv, [Next]_vars PROVE GpuExclusive'
    OBVIOUS
<1>1. CASE ~DispatchTick
  <2>1. \A j \in Jobs : /\ allocHost'[j] = allocHost[j]
                        /\ allocGpus'[j] = allocGpus[j]
                        /\ allocOpen'[j] => allocOpen[j]
    BY <1>1, StepLawful DEF IInv, Lawful, AllocationMay
  <2> QED
    BY <2>1 DEF IInv, GpuExclusive
<1>2. CASE DispatchTick
  <2>1. PICK rank \in Orders(Unplaced),
             host \in [Unplaced -> Hosts \cup {NoHost}],
             gpus \in [Unplaced -> SUBSET GpuIndices] :
          /\ \A j \in Unplaced : PlacedAs(j, rank, host, gpus)
          /\ allocHost' = [j \in Jobs |->
                             IF j \in Unplaced THEN host[j] ELSE allocHost[j]]
          /\ allocGpus' = [j \in Jobs |->
                             IF j \in Unplaced THEN gpus[j] ELSE allocGpus[j]]
          /\ allocOpen' = [j \in Jobs |->
                             IF j \in Unplaced THEN host[j] # NoHost
                             ELSE allocOpen[j]]
    BY <1>2 DEF DispatchTick
  <2>2. /\ Unplaced \subseteq Jobs /\ DOMAIN rank = Unplaced
        /\ \A i, j \in Unplaced :
             i # j => rank[i] < rank[j] \/ rank[j] < rank[i]
    BY DEF Unplaced, Orders
  <2>3. ASSUME NEW j \in Unplaced, host[j] # NoHost
        PROVE  gpus[j] \subseteq GpuFreeFor(j, host[j], rank, host, gpus)
    BY <2>1, <2>3, LowestAreFree DEF PlacedAs
  \* A job placed now and one that was placed before the tick.
  <2>4. ASSUME NEW j \in Unplaced, NEW i \in Jobs \ Unplaced,
               host[j] # NoHost, allocOpen[i], allocHost[i] = host[j]
        PROVE  gpus[j] \cap allocGpus[i] = {}
    BY <2>3, <2>4 DEF GpuFreeFor, Holders
  \* Two jobs placed by the tick, one after the other.
  <2>5. ASSUME NEW i \in Unplaced, NEW j \in Unplaced,
               rank[i] < rank[j], host[j] # NoHost, host[i] = host[j]
        PROVE  gpus[j] \cap gpus[i] = {}
    <3>1. i \in PlacedBefore(j, host[j], rank, host)
      BY <2>2, <2>5 DEF PlacedBefore
    <3> DEFINE taken == UNION {gpus[k] :
                                 k \in PlacedBefore(j, host[j], rank, host)}
    <3>2. \A g \in gpus[i] : g \in taken
      BY <3>1
    <3>3. \A g \in GpuFreeFor(j, host[j], rank, host, gpus) : g \notin taken
      BY DEF GpuFreeFor
    <3> QED
      BY <2>3, <2>5, <3>2, <3>3
  <2> SUFFICES ASSUME NEW i \in Jobs, NEW j \in Jobs, i # j,
                      allocOpen'[i], allocOpen'[j],
                      allocHost'[i] = allocHost'[j]
               PROVE  allocGpus'[i] \cap allocGpus'[j] = {}
      BY DEF GpuExclusive
  <2>6. CASE i \in Unplaced /\ j \in Unplaced
    <3>1. /\ host[i] # NoHost /\ host[i] = host[j]
          /\ allocGpus'[i] = gpus[i] /\ allocGpus'[j] = gpus[j]
      BY <2>1, <2>6
    <3>2. CASE rank[i] < rank[j]
      BY <2>5, <2>6, <3>1, <3>2
    <3>3. CASE rank[j] < rank[i]
      BY <2>5, <2>6, <3>1, <3>3
    <3> QED
      BY <2>2, <2>6, <3>2, <3>3
  <2>7. CASE i \in Unplaced /\ j \notin Unplaced
    BY <2>1, <2>4, <2>7
  <2>8. CASE i \notin Unplaced /\ j \in Unplaced
    BY <2>1, <2>4, <2>8
  <2>9. CASE i \notin Unplaced /\ j \notin Unplaced
    BY <2>1, <2>9 DEF IInv, GpuExclusive
  <2> QED
    BY <2>6, <2>7, <2>8, <2>9
<1> QED
  BY <1>1, <1>2

-----------------------------------------------------------------------------
(* The cores that a tick gives out.                                        *)

LEMMA NeedIsNat == \A j \in Jobs : Need[j].cores \in Nat
BY JobsAssumption

\* The units of one job are as many as it needs.
LEMMA LoadOfOne ==
  ASSUME NEW j \in Jobs
  PROVE  /\ IsFiniteSet({j} \X (1 .. Need[j].cores))
         /\ Cardinality({j} \X (1 .. Need[j].cores)) = Need[j].cores
<1> DEFINE n == Need[j].cores
<1>1. n \in Nat
  BY NeedIsNat
<1> HIDE DEF n
<1>2. IsFiniteSet(1 .. n) /\ Cardinality(1 .. n) = n
  BY <1>1, FS_Interval
<1>3. IsFiniteSet({j}) /\ Cardinality({j}) = 1
  BY FS_Singleton
<1>4. /\ IsFiniteSet({j} \X (1 .. n))
      /\ Cardinality({j} \X (1 .. n)) = Cardinality({j}) * Cardinality(1 .. n)
  BY <1>2, <1>3, FS_Product
<1> QED
  BY <1>1, <1>2, <1>3, <1>4 DEF n

LEMMA UnitsFinite ==
  ASSUME NEW S \in SUBSET Jobs
  PROVE  IsFiniteSet(Units(S)) /\ Load(S) \in Nat
<1> DEFINE unit == [j \in S |-> {j} \X (1 .. Need[j].cores)]
           T == {{j} \X (1 .. Need[j].cores) : j \in S}
<1>1. unit \in Surjection(S, T)
  BY DEF Surjection
<1>2. IsFiniteSet(S)
  BY JobsAssumption, FS_Subset
<1>3. IsFiniteSet(T)
  BY <1>1, <1>2, FS_Surjection
<1>4. \A t \in T : IsFiniteSet(t)
  BY LoadOfOne
<1>5. IsFiniteSet(UNION T)
  <2> HIDE DEF T
  <2> QED BY <1>3, <1>4, FS_UNION
<1> QED
  BY <1>5, FS_CardinalityType DEF Units, Load

LEMMA LoadMonotonic ==
  ASSUME NEW T \in SUBSET Jobs, NEW S \in SUBSET T
  PROVE  Load(S) <= Load(T)
<1>1. Units(S) \subseteq Units(T)
  BY DEF Units
<1> QED
  BY <1>1, UnitsFinite, FS_Subset DEF Load

\* A job adds no more than it needs.
LEMMA LoadWith ==
  ASSUME NEW S \in SUBSET Jobs, NEW j \in Jobs
  PROVE  Load(S \cup {j}) <= Load(S) + Need[j].cores
<1> DEFINE U == Units(S)
           V == {j} \X (1 .. Need[j].cores)
<1>1. Units(S \cup {j}) = U \cup V
  BY DEF Units
<1>2. IsFiniteSet(U) /\ Cardinality(U) = Load(S) /\ Load(S) \in Nat
  BY UnitsFinite DEF Load
<1>3. IsFiniteSet(V) /\ Cardinality(V) = Need[j].cores
  BY LoadOfOne
<1> HIDE DEF U, V
<1>4. /\ Cardinality(U \cup V)
           = Cardinality(U) + Cardinality(V) - Cardinality(U \cap V)
      /\ Cardinality(U \cap V) \in Nat
  BY <1>2, <1>3, FS_Union, FS_Intersection, FS_CardinalityType
<1>5. Load(S \cup {j}) = Cardinality(U \cup V)
  BY <1>1 DEF Load
<1>6. Need[j].cores \in Nat
  BY NeedIsNat
<1> QED
  BY <1>2, <1>3, <1>4, <1>5, <1>6

\* What the steps of the tick, in their order, have in common.
LEMMA TickPlaces ==
  ASSUME IInv, DispatchTick
  PROVE  \E rank \in Orders(Unplaced),
            host \in [Unplaced -> Hosts \cup {NoHost}],
            gpus \in [Unplaced -> SUBSET GpuIndices] :
           /\ \A j \in Unplaced : PlacedAs(j, rank, host, gpus)
           /\ \A h \in Hosts :
                Holders(h)' = Holders(h) \cup {j \in Unplaced : host[j] = h}
<1>1. PICK rank \in Orders(Unplaced),
           host \in [Unplaced -> Hosts \cup {NoHost}],
           gpus \in [Unplaced -> SUBSET GpuIndices] :
        /\ \A j \in Unplaced : PlacedAs(j, rank, host, gpus)
        /\ allocHost' = [j \in Jobs |->
                           IF j \in Unplaced THEN host[j] ELSE allocHost[j]]
        /\ allocOpen' = [j \in Jobs |->
                           IF j \in Unplaced THEN host[j] # NoHost
                           ELSE allocOpen[j]]
  BY DEF DispatchTick
<1>2. \A j \in Unplaced : j \in Jobs /\ ~allocOpen[j]
  BY HostsAssumption DEF IInv, OpenIsPlaced, Unplaced, HasAllocation
<1>3. \A h \in Hosts :
        Holders(h)' = Holders(h) \cup {j \in Unplaced : host[j] = h}
  BY <1>1, <1>2, HostsAssumption DEF Holders
<1> QED
  BY <1>1, <1>3

\* Of the jobs in a set that a tick goes through, one comes last.
LEMMA LastOf ==
  ASSUME NEW rank \in Orders(Unplaced), NEW P \in SUBSET Unplaced, P # {}
  PROVE  \E j \in P : \A i \in P \ {j} : rank[i] < rank[j]
<1> DEFINE N == Cardinality(Unplaced)
           S == {N - rank[j] : j \in P}
<1>1. /\ rank \in [Unplaced -> 1 .. N]
      /\ \A i, j \in Unplaced : rank[i] = rank[j] => i = j
  BY DEF Orders
<1>2. N \in Nat
  <2>1. IsFiniteSet(Unplaced)
    BY JobsAssumption, FS_Subset DEF Unplaced
  <2> QED BY <2>1, FS_CardinalityType
<1> HIDE DEF N
<1>3. S \subseteq Nat /\ S # {}
  BY <1>1, <1>2
<1>4. PICK least \in S : \A n \in S : <<n, least>> \notin OpToRel(<, Nat)
  <2>1. IsWellFoundedOn(OpToRel(<, Nat), Nat)
    BY NatLessThanWellFounded
  <2> HIDE DEF S
  <2> QED BY <1>3, <2>1, WFMin
<1>5. PICK j \in P : least = N - rank[j]
  OBVIOUS
<1>6. ASSUME NEW i \in P \ {j}
      PROVE  rank[i] < rank[j]
  <2>1. rank[i] \in 1 .. N /\ rank[j] \in 1 .. N /\ rank[i] # rank[j]
    BY <1>1
  <2>2. N - rank[i] \in S /\ ~(N - rank[i] < least)
    BY <1>2, <1>3, <1>4 DEF OpToRel
  <2> QED BY <1>2, <1>5, <2>1, <2>2
<1> QED
  BY <1>6

LEMMA CapacityStep == IInv /\ [Next]_vars => CapacityRespected'
<1> SUFFICES ASSUME IInv, [Next]_vars, NEW h \in Hosts
             PROVE  Load(Holders(h)') <= Capacity[h]
  BY DEF CapacityRespected, Load, Units
<1>0. /\ Holders(h) \in SUBSET Jobs /\ Holders(h)' \in SUBSET Jobs
      /\ Load(Holders(h)) <= Capacity[h] /\ Capacity[h] \in Nat
  BY HostsAssumption DEF IInv, CapacityRespected, Holders
<1>1. CASE ~DispatchTick
  <2>1. \A j \in Jobs : /\ allocHost'[j] = allocHost[j]
                        /\ allocOpen'[j] => allocOpen[j]
    BY <1>1, StepLawful DEF IInv, Lawful, AllocationMay
  <2>2. Holders(h)' \in SUBSET Holders(h)
    BY <2>1 DEF Holders
  <2>3. Load(Holders(h)') <= Load(Holders(h))
    BY <1>0, <2>2, LoadMonotonic
  <2> QED
    BY <1>0, <2>3, UnitsFinite
<1>2. CASE DispatchTick
  <2>1. PICK rank \in Orders(Unplaced),
             host \in [Unplaced -> Hosts \cup {NoHost}],
             gpus \in [Unplaced -> SUBSET GpuIndices] :
          /\ \A j \in Unplaced : PlacedAs(j, rank, host, gpus)
          /\ Holders(h)' = Holders(h) \cup {j \in Unplaced : host[j] = h}
    BY <1>2, TickPlaces
  <2> DEFINE P == {j \in Unplaced : host[j] = h}
  <2>2. CASE P = {}
    BY <1>0, <2>1, <2>2
  \* The job that is placed last had room beside all the others.
  <2>3. CASE P # {}
    <3>1. PICK j \in P : \A i \in P \ {j} : rank[i] < rank[j]
      BY <2>3, LastOf
    <3> DEFINE A == Holders(h) \cup PlacedBefore(j, h, rank, host)
    <3>2. /\ j \in Unplaced /\ j \in Jobs /\ host[j] = h
          /\ DOMAIN rank = Unplaced /\ Unplaced \subseteq Jobs
      BY DEF Unplaced, Orders
    <3>3. A \in SUBSET Jobs /\ Holders(h)' \in SUBSET (A \cup {j})
      BY <1>0, <2>1, <3>1, <3>2 DEF PlacedBefore
    <3>4. Capacity[h] - Load(A) >= Need[j].cores
      <4>1. h \in Eligible(j, rank, host, gpus)
        BY <2>1, <3>2, HostsAssumption DEF PlacedAs
      <4> QED BY <4>1 DEF Eligible, Fits, LeftFor
    <3> HIDE DEF A
    <3>5. Load(Holders(h)') <= Load(A \cup {j})
      BY <3>2, <3>3, LoadMonotonic
    <3>6. Load(A \cup {j}) <= Load(A) + Need[j].cores
      BY <3>2, <3>3, LoadWith
    <3>7. /\ Load(Holders(h)') \in Nat /\ Load(A \cup {j}) \in Nat
          /\ Load(A) \in Nat /\ Need[j].cores \in Nat
      BY <1>0, <3>2, <3>3, UnitsFinite, NeedIsNat
    <3> QED
      BY <1>0, <3>4, <3>5, <3>6, <3>7
  <2> QED
    BY <2>2, <2>3
<1> QED
  BY <1>1, <1>2

\* Worst fit: a host that has a job or gets one earlier in the tick has less
\* left than one that stays empty, and is not preferred to it.
LEMMA SpreadStep == IInv /\ [Next]_vars => Spreads
<1> SUFFICES ASSUME IInv, [Next]_vars, NEW j \in Unplaced, NEW i \in Jobs,
                    NEW g \in Hosts, NEW h \in Hosts,
                    i # j, {i, j} \subseteq Holders(g)', CouldRun(h, j),
                    i \in Unplaced => CouldRun(h, i),
                    Need[i].cores > 0, Need[j].cores > 0,
                    Capacity[h] >= Capacity[g], Holders(h)' = {}
             PROVE  FALSE
  BY DEF Spreads
<1>1. DispatchTick
  <2>1. j \in Jobs /\ ~allocOpen[j] /\ allocOpen'[j]
    BY HostsAssumption DEF IInv, OpenIsPlaced, Unplaced, HasAllocation, Holders
  <2> QED BY <2>1, StepLawful DEF IInv, Lawful, AllocationMay
<1>2. PICK rank \in Orders(Unplaced),
           host \in [Unplaced -> Hosts \cup {NoHost}],
           gpus \in [Unplaced -> SUBSET GpuIndices] :
        /\ \A x \in Unplaced : PlacedAs(x, rank, host, gpus)
        /\ \A k \in Hosts :
             Holders(k)' = Holders(k) \cup {x \in Unplaced : host[x] = k}
  BY <1>1, TickPlaces
<1>3. /\ DOMAIN rank = Unplaced /\ Unplaced \subseteq Jobs
      /\ \A x, y \in Unplaced : x # y => rank[x] < rank[y] \/ rank[y] < rank[x]
  BY DEF Unplaced, Orders
<1>4. ASSUME NEW x \in Unplaced, NEW y \in Jobs, host[x] = g, CouldRun(h, x),
             y \in Holders(g) \cup PlacedBefore(x, g, rank, host),
             Need[y].cores > 0
      PROVE  FALSE
  <2> DEFINE A == Holders(g) \cup PlacedBefore(x, g, rank, host)
  <2>1. Holders(h) = {} /\ PlacedBefore(x, h, rank, host) = {}
    BY <1>2, <1>3 DEF PlacedBefore
  <2>2. /\ LeftFor(x, h, rank, host) = Capacity[h]
        /\ GpuFreeFor(x, h, rank, host, gpus) = 0 .. GpuCount[h] - 1
    <3>1. Load({}) = 0 /\ Capacity[h] \in Nat
      BY FS_EmptySet, HostsAssumption DEF Load, Units
    <3>2. LeftFor(x, h, rank, host) = Capacity[h] - Load({})
      BY <2>1 DEF LeftFor
    <3> QED BY <2>1, <3>1, <3>2 DEF GpuFreeFor
  <2>3. h \in Eligible(x, rank, host, gpus)
    BY <1>4, <2>2 DEF CouldRun, Eligible
  <2>4. Capacity[h] <= Capacity[g] - Load(A)
    <3>1. LeftFor(x, h, rank, host) <= LeftFor(x, g, rank, host)
      BY <1>2, <1>4, <2>3, HostsAssumption DEF PlacedAs
    <3> QED BY <2>2, <3>1 DEF LeftFor
  <2>5. Load({y}) = Need[y].cores
    <3>1. Units({y}) = {y} \X (1 .. Need[y].cores)
      BY DEF Units
    <3> QED BY <3>1, LoadOfOne DEF Load
  <2>6. A \in SUBSET Jobs /\ {y} \in SUBSET A
    BY <1>3, <1>4 DEF Holders, PlacedBefore
  <2> HIDE DEF A
  <2>7. Load({y}) <= Load(A) /\ Load(A) \in Nat
    BY <2>6, LoadMonotonic, UnitsFinite
  <2>8. /\ Need[y].cores \in Nat
        /\ Capacity[g] \in Nat /\ Capacity[h] \in Nat
    BY NeedIsNat, HostsAssumption
  <2> QED
    BY <1>4, <2>4, <2>5, <2>7, <2>8
<1>5. host[j] = g
  BY <1>2, HostsAssumption DEF Unplaced, Holders, HasAllocation
<1>6. CASE i \notin Unplaced
  BY <1>2, <1>3, <1>4, <1>5, <1>6
<1>7. CASE i \in Unplaced
  <2>1. host[i] = g
    BY <1>2, <1>7, HostsAssumption DEF Unplaced, Holders, HasAllocation
  <2>2. CASE rank[i] < rank[j]
    <3>1. i \in PlacedBefore(j, g, rank, host)
      BY <1>3, <1>7, <2>1, <2>2 DEF PlacedBefore
    <3> QED BY <1>4, <1>5, <3>1
  <2>3. CASE rank[j] < rank[i]
    <3>1. j \in PlacedBefore(i, g, rank, host) /\ j \in Jobs
      BY <1>3, <1>5, <2>3 DEF PlacedBefore
    <3> QED BY <1>4, <1>7, <2>1, <3>1
  <2> QED BY <1>3, <1>7, <2>2, <2>3
<1> QED
  BY <1>6, <1>7

-----------------------------------------------------------------------------
(* The dependency gate.                                                    *)

\* How an ended job ended may be rewritten, that it ended may not.
LEMMA EndedStep == IInv /\ [Next]_vars => \A j \in Jobs : Over(j) => Over(j)'
BY StepLawful DEF IInv, Lawful, StatusMay, Over, Ended, Result

\* The rules of the dispatcher are strict enough: a child they make ready
\* reads the parent of each of its edges as the edge asks.
LEMMA RulesAllow ==
  ASSUME NEW j \in Jobs, NEW seen \in [Jobs -> JobStatus],
         NextStateForChild(ParentsByMode(j, seen)) = "ready",
         NEW e \in Wired(j)
  PROVE  /\ e.mode = "on_success" => seen[e.parent] = "success"
         /\ e.mode = "on_completion" => seen[e.parent] \in Ended
         /\ e.mode = "on_failure" =>
              \E f \in Incoming(j) : /\ f.mode = "on_failure"
                                     /\ seen[f.parent] = "failed"
<1> DEFINE P == ParentsByMode(j, seen)
           found == {f \in Wired(j) : f.parent \in DOMAIN seen}
           S == {seen[f.parent] : f \in {w \in found : w.mode = e.mode}}
<1>1. e \in found
  BY JobsAssumption DEF Wired, Incoming
<1>2. e.mode \in DOMAIN P /\ P[e.mode] = S /\ seen[e.parent] \in S
  BY <1>1 DEF ParentsByMode
<1>3. ~Pending(e.mode, S)
  BY <1>2 DEF NextStateForChild
<1>4. e.mode = "on_failure" => "failed" \in S
  BY <1>3 DEF Pending
<1>5. "failed" \in S => \E f \in Incoming(j) : /\ f.mode = e.mode
                                               /\ seen[f.parent] = "failed"
  BY DEF Wired
<1> QED
  BY <1>2, <1>3, <1>4, <1>5 DEF Pending

\* A step releases by the rules, on what one tick has read.
LEMMA GateStep ==
  ASSUME IInv, [Next]_vars, NEW j \in Jobs
  PROVE  /\ status[j] # "ready" /\ status'[j] = "ready" =>
              /\ status[j] = "waiting"
              /\ \A e \in Wired(j) : Allows(e, status, status')
         /\ ~Running(j) /\ Running(j)' => status[j] = "ready"
<1>1. StatusMay(j)
  BY StepLawful DEF IInv, Lawful
<1>2. ~Running(j) /\ Running(j)' => status[j] = "ready"
  BY <1>1 DEF StatusMay, Running, Result
<1>3. ASSUME status[j] # "ready", status'[j] = "ready", NEW e \in Wired(j)
      PROVE  Allows(e, status, status')
  <2>1. DependencyTick /\ status[j] = "waiting"
    BY <1>1, <1>3 DEF StatusMay, Result
  <2> DEFINE rows == {i \in Jobs : status[i] = "waiting"}
  <2>2. PICK new \in [rows -> {"ready", "waiting", "skipped"}],
             rank \in Orders(rows) :
          /\ \A i \in rows :
               LET seen == [q \in Jobs |-> IF q \in rows /\ rank[q] < rank[i]
                                           THEN new[q] ELSE status[q]]
               IN  new[i] = NextStateForChild(ParentsByMode(i, seen))
          /\ status' = [i \in Jobs |-> IF i \in rows THEN new[i]
                                       ELSE status[i]]
    <3>1. DOMAIN status = Jobs
      BY DEF IInv, TypeOK
    <3> QED
      BY <2>1, <3>1 DEF DependencyTick, Decided
  <2> DEFINE seen == [q \in Jobs |-> IF q \in rows /\ rank[q] < rank[j]
                                     THEN new[q] ELSE status[q]]
  <2>3. seen \in [Jobs -> JobStatus]
    BY <2>2 DEF IInv, TypeOK, JobStatus
  <2>4. NextStateForChild(ParentsByMode(j, seen)) = "ready"
    BY <1>3, <2>1, <2>2
  \* A skip that the tick reads is one that it leaves behind, and neither a
  \* success nor a failure is of its making.
  <2>5. \A q \in Jobs : /\ seen[q] \in Ended => status'[q] \in Ended
                        /\ seen[q] = "success" => status[q] = "success"
                        /\ seen[q] = "failed" => status[q] = "failed"
    BY <2>2 DEF Ended
  <2> HIDE DEF seen
  <2>6. e.parent \in Jobs /\ e.child = j
        /\ \A f \in Incoming(j) : f.parent \in Jobs
    BY JobsAssumption DEF Wired, Incoming
  <2>7. /\ e.mode = "on_success" => seen[e.parent] = "success"
        /\ e.mode = "on_completion" => seen[e.parent] \in Ended
        /\ e.mode = "on_failure" =>
             \E f \in Incoming(j) : /\ f.mode = "on_failure"
                                    /\ seen[f.parent] = "failed"
    BY <2>3, <2>4, RulesAllow
  <2>8. e.mode = "on_success" => status[e.parent] = "success"
    BY <2>5, <2>6, <2>7
  <2>9. e.mode = "on_completion" => status'[e.parent] \in Ended
    BY <2>5, <2>6, <2>7
  <2>10. e.mode = "on_failure" =>
           \E f \in Incoming(j) : /\ f.mode = "on_failure"
                                  /\ status[f.parent] = "failed"
    BY <2>5, <2>6, <2>7
  <2> QED
    BY <2>6, <2>8, <2>9, <2>10 DEF Allows
<1>4. status[j] # "ready" /\ status'[j] = "ready" => status[j] = "waiting"
  BY <1>1 DEF StatusMay, Result
<1> QED
  BY <1>2, <1>3, <1>4

-----------------------------------------------------------------------------
(* The theorems.                                                           *)

LEMMA StepInv == IInv /\ [Next]_vars => IInv'
BY TypeStep, PlacedStep, NotBeforeStep, CarriedStep, DoomedStep, RunningStep,
   ExecutorStep, LeakStep, GpuStep, CapacityStep
   DEF IInv

LEMMA Invariance == Spec => []IInv
BY InitInv, StepInv, PTL DEF Spec

\* No GPU is given out twice, whatever the jobs, hosts and threads, and
\* whatever cancels, late reports and lost hosts do to the reservations
\* between two ticks.
THEOREM GpusExclusive == Spec => []GpuExclusive
BY Invariance, PTL DEF IInv

\* No host is given more than it has, however many jobs a tick places on it
\* and however the reservations of earlier ticks end.
THEOREM CapacityKept == Spec => []CapacityRespected
BY Invariance, PTL DEF IInv

\* On any fleet a tick spreads jobs over the hosts that are as large.
THEOREM TicksSpread == Spec => SpreadsOverIdleHosts
<1>1. IInv /\ [Next]_vars => [Spreads]_vars
  BY SpreadStep
<1> QED
  BY <1>1, Invariance, PTL DEF Spec, SpreadsOverIdleHosts

\* A running job's resources are reserved on the host that runs it.
THEOREM RunningReserved == Spec => []RunningHoldsReservation
BY Invariance, PTL DEF IInv

\* No job is in two threads, or in a thread and a report, at a time.
THEOREM ExecutorUnique == Spec => []SingleExecutor
BY Invariance, PTL DEF IInv

\* Only a cancel can leave a reservation open behind an ended job.
THEOREM LeaksByCancelOnly == Spec => []LeakOnlyByCancel
BY Invariance, PTL DEF IInv

\* On every graph of edges and in every order of a tick, a job is released
\* only by parents that are as its edges ask, and runs only when released.
THEOREM GateHolds == Spec => DependencyGate
<1> DEFINE Gate ==
      \A j \in Jobs :
        /\ status[j] # "ready" /\ status'[j] = "ready" =>
             /\ status[j] = "waiting"
             /\ \A e \in Wired(j) : Allows(e, status, status')
        /\ ~Running(j) /\ Running(j)' => status[j] = "ready"
<1>1. IInv /\ [Next]_vars => [Gate]_vars
  BY GateStep
<1> QED
  BY <1>1, Invariance, PTL DEF Spec, DependencyGate

\* No step takes an ended job back to waiting, ready or running.
THEOREM EndedForEver == Spec => EndedStaysEnded
<1>1. IInv /\ [Next]_vars => [\A j \in Jobs : Over(j) => Over(j)']_vars
  BY EndedStep
<1> QED
  BY <1>1, Invariance, PTL DEF Spec, EndedStaysEnded

-----------------------------------------------------------------------------
(* JobLifecycle implements JobFlow.                                        *)

\* What the monitor or the recovery read, and will fail, was started.
DoomedStarted == \A j \in Jobs : doomed[j] # "no" => jobHost[j] # NoHost

RInv == IInv /\ DoomedStarted

LEMMA DoomedStartedStep == RInv /\ [Next]_vars => DoomedStarted'
<1> SUFFICES ASSUME RInv, [Next]_vars, NEW j \in Jobs, doomed'[j] # "no"
             PROVE  jobHost'[j] # NoHost
    BY DEF DoomedStarted
<1>1. CASE MonitorRead \/ RecoverRead
  <2>1. Running(j) /\ jobHost' = jobHost
    BY <1>1 DEF MonitorRead, RecoverRead, Running
  <2> QED
    BY <2>1, HostsAssumption DEF RInv, IInv, RunningHoldsReservation
<1>2. CASE FailAndRelease
  BY <1>2 DEF FailAndRelease
<1>3. CASE doomed' = doomed
  BY <1>3, StartedStays DEF RInv, DoomedStarted
<1> QED
  BY <1>1, <1>2, <1>3
     DEF Next, DispatcherNext, WorkerNext, HostNext, OperatorNext,
         DependencyTick, DispatchTick, NextJob, FinishRun, ReportResult,
         StopWorker, StartWorker, Heartbeat, Silence, MarkStaleOffline,
         CancelRead, CancelWrite, PauseRead, PauseWrite, Resume, UpdateStatus,
         vars, tickVars

LEMMA RefinementInvariant == Spec => []RInv
<1>1. Init => RInv
  BY InitInv DEF Init, RInv, DoomedStarted
<1>2. RInv /\ [Next]_vars => RInv'
  BY StepInv, DoomedStartedStep DEF RInv
<1> QED
  BY <1>1, <1>2, PTL DEF Spec

-----------------------------------------------------------------------------
\* The rules are the same on both sides.
LEMMA SameRules ==
  ASSUME NEW s PROVE Flow!Decided(s) = Decided(s)
<1>1. \A j, seen : Flow!ParentsByMode(j, seen) = ParentsByMode(j, seen)
  BY DEF Flow!ParentsByMode, ParentsByMode, Flow!Wired, Wired,
         Flow!Incoming, Incoming
<1>2. \A m, t : /\ Flow!Contradicted(m, t) <=> Contradicted(m, t)
                /\ Flow!Pending(m, t) <=> Pending(m, t)
  BY DEF Flow!Contradicted, Contradicted, Flow!Pending, Pending,
         Flow!Ended, Ended
<1>3. \A parents : Flow!NextStateForChild(parents) = NextStateForChild(parents)
  BY <1>2 DEF Flow!NextStateForChild, NextStateForChild
<1>4. \A S : Flow!Orders(S) = Orders(S)
  BY Zenon DEF Flow!Orders, Orders, Flow!Cardinality, Cardinality
<1> QED
  BY <1>1, <1>3, <1>4 DEF Flow!Decided, Decided

LEMMA InitFlow == Init => Flow!FlowInit
<1> SUFFICES ASSUME Init PROVE Flow!FlowInit
    OBVIOUS
<1>1. Started = {} /\ Carried = {}
  BY DEF Init, Started, Carried
<1> QED
  BY <1>1 DEF Init, Flow!FlowInit, Flow!Incoming, Incoming

\* A step that touches no status, no start and nothing carried.
Quiet == UNCHANGED <<status, jobHost, slot, reports>>

LEMMA QuietFlow == Quiet => UNCHANGED Flow!flowVars
BY DEF Quiet, Flow!flowVars, Started, Carried

\* Every other step is one of JobFlow's.
LEMMA TickFlow ==
  ASSUME RInv, DependencyTick \/ FailAndRelease PROVE Flow!FlowNext
<1>1. DOMAIN status = Jobs
  BY DEF RInv, IInv, TypeOK
<1>2. UNCHANGED <<Started, Carried>>
  BY DEF DependencyTick, FailAndRelease, Started, Carried
<1>3. CASE DependencyTick
  BY <1>1, <1>2, <1>3, SameRules
     DEF DependencyTick, Flow!FlowNext, Flow!Decide, Flow!created
<1>4. CASE FailAndRelease
  <2>1. Doomed \in SUBSET Started
    BY DEF Doomed, Started, RInv, DoomedStarted
  <2>2. Flow!GiveUp(Doomed)
    BY <1>1, <1>2, <1>4, <2>1 DEF FailAndRelease, Flow!GiveUp, Flow!created
  <2> QED
    BY <2>1, <2>2 DEF Flow!FlowNext
<1> QED
  BY <1>3, <1>4

LEMMA CancelFlow ==
  ASSUME RInv, NEW j \in Jobs, CancelWrite(j) PROVE Flow!FlowNext
<1>1. UNCHANGED <<Started, Carried>> /\ j \in Flow!created
  BY DEF CancelWrite, Started, Carried, RInv, IInv, TypeOK, Flow!created
<1>2. Flow!Cancel(j)
  BY <1>1 DEF CancelWrite, Flow!Cancel
<1> QED
  BY <1>1, <1>2 DEF Flow!FlowNext

LEMMA NextJobFlow ==
  ASSUME RInv, NEW r \in Runners, NextJob(r) PROVE Flow!FlowNext
<1>1. PICK j \in Jobs :
        /\ status[j] = "ready"
        /\ status' = [status EXCEPT ![j] = "running"]
        /\ jobHost' = [jobHost EXCEPT ![j] = HostOf[r]]
        /\ slot' = [slot EXCEPT ![r] = j] \/ slot' = slot
  BY DEF NextJob, ReadyOn, Holders
<1>2. HostOf[r] # NoHost /\ slot[r] = NoJob /\ reports' = reports
  BY HostsAssumption DEF NextJob
<1>3. Started' = Started \cup {j}
  BY <1>1, <1>2 DEF Started, RInv, IInv, TypeOK
<1>4. CASE slot' = slot
  <2>1. Carried' = Carried
    BY <1>2, <1>4 DEF Carried
  <2> QED
    BY <1>1, <1>3, <2>1
       DEF Flow!FlowNext, Flow!Start, Flow!created, RInv, IInv, TypeOK
<1>5. CASE slot' = [slot EXCEPT ![r] = j]
  <2>1. slot'[r] = j /\ \A q \in Runners : q # r => slot'[q] = slot[q]
    BY <1>5 DEF RInv, IInv, TypeOK
  <2>2. {slot'[q] : q \in Runners} \ {NoJob}
          = ({slot[q] : q \in Runners} \ {NoJob}) \cup {j}
    BY <1>2, <2>1, JobsAssumption
  <2>3. Carried' = Carried \cup {j}
    BY <1>2, <2>2 DEF Carried
  <2> QED
    BY <1>1, <1>3, <2>3
       DEF Flow!FlowNext, Flow!Start, Flow!created, RInv, IInv, TypeOK
<1> QED
  BY <1>1, <1>4, <1>5

\* Who leaves Carried was carried once only.
LEMMA FinishRunFlow ==
  ASSUME RInv, NEW r \in Runners, FinishRun(r)
  PROVE  Flow!FlowNext \/ UNCHANGED Flow!flowVars
<1> DEFINE j == slot[r]
           rest == {slot[q] : q \in Runners \ {r}}
<1>1. /\ j \in Jobs /\ j # NoJob
      /\ slot' = [slot EXCEPT ![r] = NoJob]
      /\ UNCHANGED <<status, jobHost, Started>>
  BY DEF FinishRun, RInv, IInv, TypeOK, Started
<1>2. j \notin rest /\ \A m \in reports : m.job # j
  BY <1>1 DEF RInv, IInv, SingleExecutor
<1>3. {slot[q] : q \in Runners} = rest \cup {j}
  <2>1. \A x : (\E q \in Runners : x = slot[q])
                <=> (\E q \in Runners \ {r} : x = slot[q]) \/ x = slot[r]
    OBVIOUS
  <2> QED
    BY <2>1
<1>4. {slot'[q] : q \in Runners} = rest \cup {NoJob}
  BY <1>1 DEF RInv, IInv, TypeOK
<1>5. CASE reports' = reports
  <2>1. Carried' = Carried \ {j} /\ j \in Carried
    BY <1>1, <1>2, <1>3, <1>4, <1>5 DEF Carried
  <2>2. {j} \in SUBSET Started
    BY <1>1 DEF RInv, IInv, CarriedWasStarted, Started
  <2>3. Flow!Drop({j})
    BY <1>1, <2>1 DEF Flow!Drop
  <2> QED
    BY <2>2, <2>3 DEF Flow!FlowNext
<1>6. CASE \E res \in Result :
             reports' = reports \cup
                          {[job |-> j, host |-> HostOf[r], result |-> res]}
  <2>1. PICK res \in Result :
          reports' = reports \cup
                       {[job |-> j, host |-> HostOf[r], result |-> res]}
    BY <1>6
  <2>2. {m.job : m \in reports'} = {m.job : m \in reports} \cup {j}
    <3> DEFINE n == [job |-> j, host |-> HostOf[r], result |-> res]
    <3>1. n.job = j
      OBVIOUS
    <3> HIDE DEF n
    <3>2. \A x : (\E m \in reports \cup {n} : x = m.job)
                  <=> (\E m \in reports : x = m.job) \/ x = n.job
      OBVIOUS
    <3>3. {m.job : m \in reports \cup {n}} = {m.job : m \in reports} \cup {n.job}
      BY <3>2
    <3> QED
      BY <2>1, <3>1, <3>3 DEF n
  <2>3. Carried' = Carried
    BY <1>1, <1>3, <1>4, <2>2 DEF Carried
  <2> QED
    BY <1>1, <2>3 DEF Flow!flowVars
<1> QED
  BY <1>5, <1>6 DEF FinishRun

LEMMA ReportFlow ==
  ASSUME RInv, NEW m \in reports, ReportResult(m) PROVE Flow!FlowNext
<1> DEFINE j == m.job
<1>1. /\ reports' = reports \ {m}
      /\ UNCHANGED <<slot, jobHost, Started>>
      /\ j \in Jobs /\ m.result \in Result
  BY DEF ReportResult, RInv, IInv, TypeOK, Report, Started
<1>2. /\ \A n \in reports : n.job = j => n = m
      /\ \A r \in Runners : slot[r] # j
  BY DEF RInv, IInv, SingleExecutor
<1>3. Carried' = Carried \ {j} /\ j \in Carried
  BY <1>1, <1>2, JobsAssumption DEF Carried
<1>4. {j} \in SUBSET Started
  BY <1>1 DEF RInv, IInv, CarriedWasStarted, Started
<1>5. CASE allocHost[j] = m.host
  <2>1. Flow!Report(j, m.result)
    BY <1>1, <1>3, <1>5 DEF ReportResult, Flow!Report
  <2> QED
    BY <1>1, <1>3, <2>1 DEF Flow!FlowNext, Result
<1>6. CASE allocHost[j] # m.host
  <2>1. Flow!Drop({j})
    BY <1>1, <1>3, <1>6 DEF ReportResult, Flow!Drop
  <2> QED
    BY <1>4, <2>1 DEF Flow!FlowNext
<1> QED
  BY <1>5, <1>6

LEMMA StopWorkerFlow ==
  ASSUME RInv, NEW h \in Hosts, StopWorker(h) PROVE Flow!FlowNext
<1> DEFINE S == {slot[r] : r \in {q \in Runners : HostOf[q] = h}} \ {NoJob}
<1>1. /\ slot' = [r \in Runners |-> IF HostOf[r] = h THEN NoJob ELSE slot[r]]
      /\ UNCHANGED <<status, reports, Started>>
  BY DEF StopWorker, Started
<1>2. \A r \in Runners : HostOf[r] # h => slot[r] \notin S
  BY DEF RInv, IInv, SingleExecutor
<1>3. \A n \in reports : n.job \notin S
  BY DEF RInv, IInv, SingleExecutor
<1>4. {slot'[r] : r \in Runners} \ {NoJob}
        = ({slot[r] : r \in Runners} \ {NoJob}) \ S
  BY <1>1, <1>2
<1>5. Carried' = Carried \ S /\ S \subseteq Carried
  BY <1>1, <1>3, <1>4 DEF Carried
<1>6. S \in SUBSET Started
  BY DEF RInv, IInv, TypeOK, CarriedWasStarted, Started
<1>7. Flow!Drop(S)
  BY <1>1, <1>5 DEF Flow!Drop
<1> QED
  BY <1>6, <1>7 DEF Flow!FlowNext

LEMMA StepFlow == RInv /\ [Next]_vars => [Flow!FlowNext]_(Flow!flowVars)
<1> SUFFICES ASSUME RInv, [Next]_vars
             PROVE  Flow!FlowNext \/ UNCHANGED Flow!flowVars
    OBVIOUS
<1>1. \/ Quiet
      \/ DependencyTick \/ FailAndRelease
      \/ \E j \in Jobs : CancelWrite(j)
      \/ \E r \in Runners : NextJob(r) \/ FinishRun(r)
      \/ \E m \in reports : ReportResult(m)
      \/ \E h \in Hosts : StopWorker(h)
  BY DEF Next, DispatcherNext, WorkerNext, HostNext, OperatorNext, Quiet,
         DispatchTick, MonitorRead, RecoverRead, StartWorker, Heartbeat,
         Silence, MarkStaleOffline, CancelRead, PauseRead, PauseWrite,
         Resume, UpdateStatus, vars
<1> QED
  BY <1>1, QuietFlow, TickFlow, CancelFlow, NextJobFlow, FinishRunFlow,
     ReportFlow, StopWorkerFlow

\* Whatever ticks, threads, requests, cancels and faults do, what is seen of
\* the jobs is a behaviour of JobFlow: the roll-up of batches and tasks may
\* rely on nothing more than its steps.
THEOREM ImplementsFlow == Spec => FlowOfJobs
<1>1. RInv /\ [Next]_vars => [Flow!FlowNext]_(Flow!flowVars)
  BY StepFlow
<1> QED
  BY <1>1, InitFlow, RefinementInvariant, PTL
     DEF Spec, FlowOfJobs, Flow!FlowSpec
=============================================================================
