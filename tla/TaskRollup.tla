----------------------------- MODULE TaskRollup -----------------------------
(***************************************************************************)
(* How the jobs of a chain task roll up into the statuses of its batches   *)
(* and of the task: the API does so when a worker reports                  *)
(* (worker.service.ts), the dispatcher's finalizer for everything that no  *)
(* worker reports (finalizer.py), and a fan-out adds batches on the way    *)
(* (task.service.ts).  The jobs behave as JobFlow promises.  expand and    *)
(* expandFanOut create every batch with exactly one job, so a batch has    *)
(* the name of its job.                                                    *)
(***************************************************************************)
EXTENDS JobFlow

CONSTANTS
  FanOut,       \* the jobs that the fan-out of a batch creates, as rows of
                \* statuses; none for a node without a fan-out edge
  Cancellable,  \* bound: the jobs an operator may cancel
  MaxFaults     \* bound: messages and API calls lost, jobs given up

VARIABLES
  batch,      \* table batch: the status of each created job's batch
  task,       \* the status of the task
  rolling,    \* reportResult transactions between their first lock and commit
  fanning,    \* batches whose expandFanOut call is under way
  doomed,     \* jobs that monitor_tick has read and will fail
  seals,      \* what finalizer_tick has read: batches, and how they ended
  finalizer,  \* how far it is, and with which verdict on the task
  faults      \* faults that may still happen

tickVars == <<doomed, seals, finalizer>>
vars == <<flowVars, batch, task, rolling, fanning, tickVars, faults>>

BatchStatus == {"pending", "running", "success", "failed", "cancelled"}
TaskStatus  == {"queued", "running", "done", "error"}
Result      == {"success", "failed"}
Closed      == {"success", "failed", "cancelled"}
Verdict     == {"running", "done", "error"}

HasFanOut(j) == DOMAIN FanOut[j] # {}

\* expandFanOut makes the children of the fan-out edge ready, and the nodes
\* behind them waiting; none of these has a parent elsewhere.
ASSUME FanOutAssumption ==
  /\ \A p \in Jobs :
       /\ DOMAIN FanOut[p] \subseteq Jobs \ Initial
       /\ FanOut[p] \in [DOMAIN FanOut[p] -> {"ready", "waiting"}]
       /\ \A j \in DOMAIN FanOut[p] : \A e \in Incoming(j) :
            IF FanOut[p][j] = "ready" THEN e.parent = p
            ELSE e.parent \in DOMAIN FanOut[p]
  /\ \A p, q \in Jobs : DOMAIN FanOut[p] \cap DOMAIN FanOut[q] # {} => p = q
  /\ Cancellable \subseteq Jobs /\ MaxFaults \in Nat /\ Initial # {}

\* A report that has "none" yet has still to write its batch.
Call == [job : inHand, result : Result, moved : BOOLEAN,
         verdict : Verdict \cup {"none"}]

RollupTypeOK ==
  /\ FlowTypeOK
  /\ batch \in [created -> BatchStatus]
  /\ task \in TaskStatus
  /\ rolling \subseteq Call
  /\ fanning \subseteq created
  /\ doomed \subseteq started
  /\ DOMAIN seals \subseteq created
  /\ seals \in [DOMAIN seals -> Closed]
  /\ finalizer \in {"idle", "read"} \cup Verdict
  /\ faults \in 0 .. MaxFaults

\* The row locks of the table job, and those of the table batch.
Locked(j)   == \E t \in rolling : t.job = j
Rolled(j)   == \E t \in rolling : t.job = j /\ t.moved /\ t.verdict # "none"
Sealing(j)  == finalizer \in Verdict /\ j \in DOMAIN seals

\* The ticks of the dispatcher are one transaction at a time (Db.tx).
TickIdle == finalizer = "idle" /\ doomed = {}

NoSeals == [j \in {} |-> "failed"]

\* expand has created the batches; task_tick sets the task running after it.
Init ==
  /\ FlowInit
  /\ batch = [j \in Initial |-> "pending"]
  /\ task = "queued"
  /\ rolling = {}
  /\ fanning = {}
  /\ doomed = {}
  /\ seals = NoSeals
  /\ finalizer = "idle"
  /\ faults = MaxFaults
-----------------------------------------------------------------------------
(* The two rules of the roll-up.                                           *)

\* Mutant: batches that have not begun are not waited for.
TaskVerdictBegun(b) ==
  IF \E j \in DOMAIN b : b[j] = "running" THEN "running"
  ELSE IF \E j \in DOMAIN b : b[j] = "failed" THEN "error" ELSE "done"

\* Mutant: one batch that succeeded makes the task a success.
TaskVerdictAny(b) ==
  IF \E j \in DOMAIN b : b[j] \notin Closed THEN "running"
  ELSE IF \E j \in DOMAIN b : b[j] = "success" THEN "done" ELSE "error"

\* recomputeTaskStatus, and the second statement of finalizer_tick.
TaskVerdict(b) ==
  IF \E j \in DOMAIN b : b[j] \notin Closed THEN "running"
  ELSE IF \E j \in DOMAIN b : b[j] = "failed" THEN "error" ELSE "done"

\* The API's update is guarded: only a running task is closed.
Close(verdict) == task' = IF task = "running" THEN verdict ELSE task

\* The first statement of finalizer_tick, on a batch's one ended job.
Seal(s) == IF s = "skipped" THEN "cancelled" ELSE s
-----------------------------------------------------------------------------
\* The last write of task_tick.
SetRunning ==
  /\ TickIdle
  /\ task = "queued"
  /\ task' = "running"
  /\ UNCHANGED <<flowVars, batch, rolling, fanning, tickVars, faults>>

DependencyTick ==
  /\ TickIdle
  /\ Decide
  /\ UNCHANGED <<batch, task, rolling, fanning, tickVars, faults>>

\* nextJob with maybeStartBatch; the reply may be lost.
NextJob(j) ==
  /\ Start(j)
  /\ batch' = [batch EXCEPT ![j] = IF @ = "pending" THEN "running" ELSE @]
  /\ IF j \in inHand' THEN UNCHANGED faults
     ELSE faults > 0 /\ faults' = faults - 1
  /\ UNCHANGED <<task, rolling, fanning, tickVars>>

\* The transaction of reportResult.  It locks the job and reads its batch: a
\* report that does not move the batch has nothing more to write ...
ReportRead(j, result) ==
  /\ j \in inHand /\ ~Locked(j)
  /\ rolling' = rolling \cup
       {[job |-> j, result |-> result, moved |-> batch[j] # result,
         verdict |-> IF batch[j] # result THEN "none" ELSE "running"]}
  /\ UNCHANGED <<flowVars, batch, task, fanning, tickVars, faults>>

FansOut(t) == t.moved /\ t.result = "success" /\ HasFanOut(t.job)

\* ... any other writes the batch, once the finalizer has not locked it, and
\* unless a fan-out follows reads the other batches as they are committed
\* and decides about the task ...
ReportRoll(t) ==
  /\ t \in rolling /\ t.verdict = "none"
  /\ ~Sealing(t.job)
  /\ rolling' = (rolling \ {t}) \cup
       {[t EXCEPT !.verdict = IF FansOut(t) THEN "running"
                              ELSE TaskVerdict([batch EXCEPT ![t.job] = t.result])]}
  /\ UNCHANGED <<flowVars, batch, task, fanning, tickVars, faults>>

\* ... and it commits; a batch that became a success goes on to its fan-out.
ReportCommit(t) ==
  /\ t \in rolling /\ t.verdict # "none"
  /\ rolling' = rolling \ {t}
  /\ Report(t.job, t.result)
  /\ batch' = [batch EXCEPT ![t.job] = IF t.moved THEN t.result ELSE @]
  /\ Close(t.verdict)
  /\ fanning' = fanning \cup {j \in {t.job} : FansOut(t)}
  /\ UNCHANGED <<tickVars, faults>>

\* A report is lost, its worker stops, or the API does before the commit.
LoseReport(j) ==
  /\ faults > 0 /\ faults' = faults - 1
  /\ j \in inHand /\ Drop({j})
  /\ rolling' = {t \in rolling : t.job # j}
  /\ UNCHANGED <<batch, task, fanning, tickVars>>

\* Mutant: the call is repeated, as after a lost reply.
FanOutDoneAgain(j) ==
  /\ j \in fanning
  /\ Create(FanOut[j])
  /\ batch' = [i \in created' |-> IF i \in created THEN batch[i] ELSE "pending"]
  /\ UNCHANGED <<task, rolling, fanning, tickVars, faults>>

\* expandFanOut creates the batches and jobs in one transaction ...
FanOutDone(j) ==
  /\ j \in fanning
  /\ fanning' = fanning \ {j}
  /\ Create(FanOut[j])
  /\ batch' = [i \in created' |-> IF i \in created THEN batch[i] ELSE "pending"]
  /\ UNCHANGED <<task, rolling, tickVars, faults>>

\* ... or throws, then the batch is a failure after all ...
FanOutFails(j) ==
  /\ j \in fanning /\ ~Sealing(j)
  /\ fanning' = fanning \ {j}
  /\ batch' = [batch EXCEPT ![j] = "failed"]
  /\ Close(TaskVerdict(batch'))
  /\ UNCHANGED <<flowVars, rolling, tickVars, faults>>

\* ... or never returns, since the API stops.
FanOutLost(j) ==
  /\ faults > 0 /\ faults' = faults - 1
  /\ j \in fanning
  /\ fanning' = fanning \ {j}
  /\ UNCHANGED <<flowVars, batch, task, rolling, tickVars>>

\* monitor_tick reads running jobs, and fails them whatever happened since;
\* like a cancel it writes the table job only.
MonitorRead(S) ==
  /\ faults > 0 /\ faults' = faults - 1
  /\ TickIdle
  /\ S # {} /\ \A j \in S : status[j] = "running"
  /\ doomed' = S
  /\ UNCHANGED <<flowVars, batch, task, rolling, fanning, seals, finalizer>>

MonitorFail ==
  /\ doomed # {} /\ \A j \in doomed : ~Locked(j)
  /\ GiveUp(doomed)
  /\ doomed' = {}
  /\ UNCHANGED <<batch, task, rolling, fanning, seals, finalizer, faults>>

CancelJob(j) ==
  /\ j \in Cancellable /\ ~Locked(j)
  /\ Cancel(j)
  /\ UNCHANGED <<batch, task, rolling, fanning, tickVars, faults>>

Sealable == {j \in created : batch[j] \notin Closed /\ Over(j)}

SomethingToDo ==
  \/ Sealable # {}
  \/ task = "running" /\ TaskVerdict(batch) # "running"

\* Mutant: the siblings of a failed batch are cancelled with it.
FinalizerReadCascade ==
  LET failed == \E j \in created : batch[j] = "failed"
      rows   == Sealable \cup
                {j \in created : failed /\ batch[j] = "pending"}
  IN  /\ TickIdle
      /\ SomethingToDo
      /\ seals' = [j \in rows |-> IF j \in Sealable THEN Seal(status[j])
                                  ELSE "cancelled"]
      /\ finalizer' = "read"
      /\ UNCHANGED <<flowVars, batch, task, rolling, fanning, doomed, faults>>

\* Mutant: the task is looked at only when a batch is sealed.
FinalizerReadEager ==
  /\ TickIdle
  /\ Sealable # {}
  /\ seals' = [j \in Sealable |-> Seal(status[j])]
  /\ finalizer' = "read"
  /\ UNCHANGED <<flowVars, batch, task, rolling, fanning, doomed, faults>>

\* finalizer_tick: its first statement reads the batches whose jobs have
\* ended.  A tick that finds neither these nor a task to close is left out.
FinalizerRead ==
  /\ TickIdle
  /\ SomethingToDo
  /\ seals' = [j \in Sealable |-> Seal(status[j])]
  /\ finalizer' = "read"
  /\ UNCHANGED <<flowVars, batch, task, rolling, fanning, doomed, faults>>

\* The table batch as the finalizer's transaction leaves it: it writes what
\* its first statement read, over what a report has committed meanwhile.
SealedBatches == [j \in created |-> IF j \in DOMAIN seals THEN seals[j]
                                    ELSE batch[j]]

\* It waits for the reports that have written one of these rows, locks them
\* all, and reads the task and its batches for its second statement ...
FinalizerSeal ==
  /\ finalizer = "read"
  /\ \A j \in DOMAIN seals : ~Rolled(j)
  /\ finalizer' = IF task = "running" THEN TaskVerdict(SealedBatches)
                  ELSE "running"
  /\ UNCHANGED <<flowVars, batch, task, rolling, fanning, doomed, seals,
                 faults>>

\* ... and commits; the update of the task is not guarded by its status.
FinalizerCommit ==
  /\ finalizer \in Verdict
  /\ batch' = SealedBatches
  /\ task' = IF finalizer = "running" THEN task ELSE finalizer
  /\ seals' = NoSeals
  /\ finalizer' = "idle"
  /\ UNCHANGED <<flowVars, rolling, fanning, doomed, faults>>

Next ==
  \/ SetRunning \/ DependencyTick
  \/ FinalizerRead \/ FinalizerSeal \/ FinalizerCommit
  \/ MonitorFail \/ \E S \in SUBSET started : MonitorRead(S)
  \/ \E j \in created : NextJob(j) \/ CancelJob(j)
  \/ \E j \in inHand : LoseReport(j) \/ \E r \in Result : ReportRead(j, r)
  \/ \E t \in rolling : ReportRoll(t) \/ ReportCommit(t)
  \/ \E j \in fanning : FanOutDone(j) \/ FanOutFails(j) \/ FanOutLost(j)

Spec == Init /\ [][Next]_vars
-----------------------------------------------------------------------------
FannedOut(j)  == \E p \in Jobs : j \in DOMAIN FanOut[p]
TaskClosed    == task \in {"done", "error"}

\* A closed task has nothing left to do, but for what a fan-out added: not
\* when two reports overlap, a job is skipped, cancelled or given up, or the
\* first jobs end before the task is set running.
ClosedIsOver ==
  TaskClosed => \A j \in created : Over(j) \/ FannedOut(j)

\* A sealed batch speaks of an ended job and is never opened again.  How it
\* ended is rewritten only by the late report of its job, by the failure of
\* its fan-out, or by a finalizer that had read it before that report.
SealedStaysSealed ==
  [][\A j \in created : batch[j] \in Closed =>
       /\ Over(j)
       /\ batch'[j] \in Closed
       /\ batch'[j] # batch[j] => j \in inHand \cup fanning \cup DOMAIN seals
     ]_vars

\* A task becomes done only when no batch is failed, although the verdict is
\* reached before the transaction commits: what may fail a batch in between
\* is its fan-out, what the fan-out added, the late report of a job that had
\* been cancelled, or a finalizer that writes over the success of a job.
DoneIsEarned ==
  [][task' = "done" /\ task # "done"
       => \A j \in created : batch'[j] = "failed"
            => \/ HasFanOut(j) \/ FannedOut(j) \/ j \in Cancellable
               \/ status'[j] = "success"]_vars

\* A fan-out happens once: no second call finds its jobs created already,
\* whatever becomes of its batch while the call is under way.
FanOutOnce == \A j \in fanning : DOMAIN FanOut[j] \cap created = {}

-----------------------------------------------------------------------------
(* The ticks loop for ever, a transaction ends, a call returns or throws.  *)
Fairness ==
  /\ WF_vars(SetRunning) /\ WF_vars(MonitorFail)
  /\ WF_vars(FinalizerRead) /\ WF_vars(FinalizerSeal)
  /\ WF_vars(FinalizerCommit)
  /\ WF_vars(\E t \in rolling : ReportRoll(t) \/ ReportCommit(t))
  /\ WF_vars(\E j \in fanning : FanOutDone(j) \/ FanOutFails(j))

FairSpec == Spec /\ Fairness

AllOver == \A j \in created : Over(j)

\* When every job has ended the task is closed, whoever ended them, unless a
\* fan-out adds jobs.
TaskCloses == AllOver ~> TaskClosed \/ ~AllOver
=============================================================================
