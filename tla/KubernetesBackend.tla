-------------------------- MODULE KubernetesBackend --------------------------
(***************************************************************************)
(* The worker's Kubernetes backend (backends/kubernetes.py): it runs one   *)
(* DPMC job as the Kubernetes Job dpmc-job-<id>, supervises its pod and    *)
(* returns an exit code.  A worker that stops leaves the Job behind; when  *)
(* the DPMC job is dispatched again, the next run meets the leftover under *)
(* the same name.  The module follows one job id through several runs; the *)
(* cluster is modelled from how the backend uses it.                       *)
(***************************************************************************)
EXTENDS Naturals, FiniteSets

CONSTANTS
  MaxRuns,    \* bound: how often the job is dispatched
  Budget,     \* _POLL_ERROR_BUDGET
  MaxFaults   \* bound: broken connections and stops of the worker

ASSUME BackendAssumption ==
  MaxRuns \in Nat \ {0} /\ Budget \in Nat \ {0} /\ MaxFaults \in Nat

VARIABLES
  run,       \* the current run; 0 before the first
  at,        \* where the current run is in run(); "idle" when none is
  seen,      \* the pod that _wait_terminated looks at, named by its run
  errors,    \* consecutive errors of the poll
  result,    \* per run: what it reported
  job,       \* the run whose Job object exists, 0 if none
  leaving,   \* the Job object is being deleted in the foreground
  pod,       \* per run: the phase of its pod
  doomed,    \* runs whose pod is being deleted
  succeeded, \* history: runs whose pod exited with 0
  careless,  \* history: runs with a call that failed and was not repeated
  removed,   \* history: runs that called cancel with success
  faults

control == <<run, at, seen, errors, result>>
cluster == <<job, leaving, pod, doomed, succeeded>>
hist    == <<careless, removed>>
vars    == <<control, cluster, hist, faults>>

Runs  == 1 .. MaxRuns
Phase == {"none", "pending", "running", "succeeded", "failed", "gone"}
Begun == {"running", "succeeded", "failed"}
Here  == {r \in Runs : pod[r] \notin {"none", "gone"}}

BackendTypeOK ==
  /\ run \in 0 .. MaxRuns /\ seen \in 0 .. MaxRuns /\ job \in 0 .. MaxRuns
  /\ at \in {"idle", "create", "delete", "await", "recreate", "start", "watch"}
  /\ errors \in 0 .. Budget - 1
  /\ result \in [Runs -> {"none", "success", "failed"}]
  /\ leaving \in BOOLEAN /\ (leaving => job # 0)
  /\ pod \in [Runs -> Phase]
  /\ doomed \subseteq Here /\ succeeded \subseteq Runs
  /\ careless \subseteq Runs /\ removed \subseteq Runs
  /\ faults \in 0 .. MaxFaults

Init ==
  /\ run = 0 /\ at = "idle" /\ seen = 0 /\ errors = 0
  /\ result = [r \in Runs |-> "none"]
  /\ job = 0 /\ leaving = FALSE
  /\ pod = [r \in Runs |-> "none"] /\ doomed = {} /\ succeeded = {}
  /\ careless = {} /\ removed = {} /\ faults = MaxFaults
-----------------------------------------------------------------------------
(* The cluster.                                                            *)

\* The Job controller creates the pod of a Job, once (backoffLimit 0).
PodCreated ==
  /\ job # 0 /\ ~leaving /\ pod[job] = "none"
  /\ pod' = [pod EXCEPT ![job] = "pending"]
  /\ UNCHANGED <<control, job, leaving, doomed, succeeded, hist, faults>>

PodStarts(r) ==
  /\ pod[r] = "pending" /\ r \notin doomed
  /\ pod' = [pod EXCEPT ![r] = "running"]
  /\ UNCHANGED <<control, job, leaving, doomed, succeeded, hist, faults>>

\* The container exits, with 0 or not, or the pod is evicted.
PodEnds(r) ==
  /\ \/ /\ pod[r] = "running"
        /\ pod' = [pod EXCEPT ![r] = "succeeded"]
        /\ succeeded' = succeeded \cup {r}
     \/ /\ pod[r] \in {"pending", "running"}
        /\ pod' = [pod EXCEPT ![r] = "failed"]
        /\ UNCHANGED succeeded
  /\ UNCHANGED <<control, job, leaving, doomed, hist, faults>>

PodGone(r) ==
  /\ r \in doomed /\ doomed' = doomed \ {r}
  /\ pod' = [pod EXCEPT ![r] = "gone"]
  /\ UNCHANGED <<control, job, leaving, succeeded, hist, faults>>

\* A Job deleted in the foreground goes after its pods.
JobGone ==
  /\ leaving /\ job \notin Here
  /\ job' = 0 /\ leaving' = FALSE
  /\ UNCHANGED <<control, pod, doomed, succeeded, hist, faults>>

\* Deleting the Job that is there deletes its pod.
DoomPod == doomed' = doomed \cup ({job} \cap Here)

\* ttlSecondsAfterFinished: a finished Job is deleted like that.
Expire ==
  /\ job # 0 /\ pod[job] \in {"succeeded", "failed"}
  /\ leaving' = TRUE /\ DoomPod
  /\ UNCHANGED <<control, job, pod, succeeded, hist, faults>>
-----------------------------------------------------------------------------
(* run().  A call that breaks is not an ApiException: nothing catches it.  *)

Fault == faults > 0 /\ faults' = faults - 1

\* The run ends; the runner reports its result.
Return(res) ==
  /\ at' = "idle" /\ seen' = 0 /\ errors' = 0
  /\ result' = [result EXCEPT ![run] = res]
  /\ UNCHANGED run

Goto(place) == at' = place /\ errors' = 0 /\ UNCHANGED <<run, seen, result>>

\* The job is dispatched, for the first time or after the worker stopped.
Dispatch ==
  /\ at = "idle" /\ run < MaxRuns
  /\ run > 0 => result[run] = "none"
  /\ run' = run + 1 /\ at' = "create"
  /\ UNCHANGED <<seen, errors, result, cluster, hist, faults>>

Created == job' = run /\ UNCHANGED <<leaving, pod, doomed, succeeded>>

\* Mutant: the Job that is there is adopted.
CreateAdopts ==
  /\ at = "create"
  /\ IF job = 0 THEN Created ELSE UNCHANGED cluster
  /\ Goto("start")
  /\ UNCHANGED <<hist, faults>>

\* The name may be taken: a leftover is replaced, not adopted.
Create ==
  /\ at = "create"
  /\ IF job = 0 THEN Created /\ Goto("start")
     ELSE UNCHANGED cluster /\ Goto("delete")
  /\ UNCHANGED <<hist, faults>>

\* The second create does not expect the name to be taken.
Recreate ==
  /\ at = "recreate"
  /\ IF job = 0 THEN Created /\ Goto("start")
     ELSE UNCHANGED cluster /\ Return("failed")
  /\ UNCHANGED <<hist, faults>>

\* The connection breaks, or the API answers with another error: the Job may
\* have been created nevertheless.
CreateBreaks ==
  /\ at \in {"create", "recreate"} /\ Fault
  /\ \/ job = 0 /\ Created
     \/ UNCHANGED cluster
  /\ careless' = careless \cup {run}
  /\ Return("failed")
  /\ UNCHANGED removed

\* _delete_job_and_wait: deletes in the foreground ...
Delete ==
  /\ at = "delete"
  /\ leaving' = (job # 0) /\ DoomPod
  /\ Goto("await")
  /\ UNCHANGED <<job, pod, succeeded, hist, faults>>

\* ... until no pod and no Job is left, or the time is over.
Await ==
  /\ at = "await"
  /\ \/ Here = {} /\ job = 0 /\ Goto("recreate")
     \/ Return("failed")
  /\ UNCHANGED <<cluster, hist, faults>>

\* Any error while the leftover is deleted ends the run.
ReplaceBreaks ==
  /\ at \in {"delete", "await"} /\ Fault
  /\ Return("failed")
  /\ UNCHANGED <<cluster, hist>>

\* cancel deletes in the background: the Job goes at once, its pod later;
\* an error is logged.
Cancel ==
  \/ /\ job' = 0 /\ leaving' = FALSE /\ DoomPod
     /\ removed' = removed \cup {run} /\ UNCHANGED careless
  \/ /\ careless' = careless \cup {run}
     /\ UNCHANGED <<job, leaving, doomed, removed>>

\* _wait_for_pod_start takes the first pod that carries the job id.
FindPod(p) ==
  /\ at = "start" /\ p \in Here /\ pod[p] \in Begun
  /\ at' = "watch" /\ seen' = p /\ errors' = 0
  /\ UNCHANGED <<run, result, cluster, hist, faults>>

GiveUp ==
  /\ Cancel /\ Return("failed")
  /\ UNCHANGED <<pod, succeeded, faults>>

StartTimesOut == at = "start" /\ GiveUp

\* Mutant: the last error ends the run without a cancel.
PollFailsRaise ==
  /\ at \in {"start", "watch"}
  /\ IF errors + 1 < Budget
     THEN errors' = errors + 1 /\ UNCHANGED <<run, at, seen, result>>
     ELSE Return("failed")
  /\ UNCHANGED <<cluster, hist, faults>>

\* Mutant: the budget only resets the count.
PollFailsReset ==
  /\ at \in {"start", "watch"}
  /\ errors' = IF errors + 1 < Budget THEN errors + 1 ELSE 0
  /\ UNCHANGED <<run, at, seen, result, cluster, hist, faults>>

\* An ApiException in either poll is counted; the last one cancels the Job.
PollFails ==
  /\ at \in {"start", "watch"}
  /\ IF errors + 1 < Budget
     THEN /\ errors' = errors + 1
          /\ UNCHANGED <<run, at, seen, result, cluster, hist, faults>>
     ELSE GiveUp

\* A poll that shows no end, or no pod that has begun, resets the count.
PollAnswers ==
  /\ \/ at = "start" /\ (Here = {} \/ \E p \in Here : pod[p] = "pending")
     \/ at = "watch" /\ pod[seen] \in {"pending", "running"}
  /\ errors > 0 /\ errors' = 0
  /\ UNCHANGED <<run, at, seen, result, cluster, hist, faults>>

PollBreaks ==
  /\ at \in {"start", "watch"} /\ Fault
  /\ careless' = careless \cup {run}
  /\ Return("failed")
  /\ UNCHANGED <<cluster, removed>>

\* _wait_terminated: the exit code, or a failure for a pod that is gone.
Terminated ==
  /\ at = "watch"
  /\ \/ pod[seen] = "succeeded" /\ Return("success")
     \/ pod[seen] \in {"failed", "gone"} /\ Return("failed")
  /\ UNCHANGED <<cluster, hist, faults>>

\* The worker stops: no report, and the Job stays.
Crash ==
  /\ at # "idle" /\ Fault
  /\ at' = "idle" /\ seen' = 0 /\ errors' = 0
  /\ UNCHANGED <<run, result, cluster, hist>>

\* A GiveUp is one atomic step only while the worker does not stop in it.
CrashAfterCancel ==
  /\ at \in {"start", "watch"} /\ Fault
  /\ Cancel
  /\ at' = "idle" /\ seen' = 0 /\ errors' = 0
  /\ UNCHANGED <<run, result, pod, succeeded>>

Supervise ==
  \/ Create \/ Recreate \/ Delete \/ Await
  \/ (\E p \in Runs : FindPod(p)) \/ StartTimesOut
  \/ PollFails \/ PollAnswers \/ Terminated

Cluster ==
  \/ PodCreated \/ JobGone
  \/ \E r \in Runs : PodStarts(r) \/ PodEnds(r) \/ PodGone(r)

Next ==
  \/ Dispatch \/ Supervise \/ Cluster \/ Expire
  \/ CreateBreaks \/ ReplaceBreaks \/ PollBreaks \/ Crash \/ CrashAfterCancel

Spec == Init /\ [][Next]_vars
-----------------------------------------------------------------------------
\* A success is the run's own: never the exit code of a pod that an earlier
\* run left behind, unless that run was stopped right after its cancel,
\* whose pod lives on under the same label.
OwnExitCode ==
  \A r \in Runs :
    result[r] = "success" => r \in succeeded \/ \E q \in removed : q < r

Alive(r) ==
  \/ pod[r] \in {"pending", "running"} /\ r \notin doomed
  \/ job = r /\ ~leaving /\ pod[r] = "none"

\* When a run has reported, its pod is not at work any more nor comes to it
\* later, unless a call failed without being repeated.
ReportedIsOver ==
  \A r \in Runs :
    result[r] # "none" /\ Alive(r) => r \in careless \/ \E q \in removed : q < r
-----------------------------------------------------------------------------
(* A run goes on, its polls being answered or not, and time passes; the     *)
(* cluster works and containers end.                                       *)
Fairness == WF_vars(Supervise) /\ WF_vars(StartTimesOut) /\ WF_vars(Cluster)

FairSpec == Spec /\ Fairness

\* A run returns: also with a cluster that answers nothing, "a dead API must
\* not leave DPMC reporting "running" for a workload we can't observe".
RunReturns == at # "idle" ~> at = "idle"
=============================================================================
