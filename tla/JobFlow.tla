------------------------------ MODULE JobFlow ------------------------------
(***************************************************************************)
(* What the dispatcher, the API and the workers together promise about the *)
(* jobs of one task, without hosts, reservations, ticks and requests: which *)
(* status may follow which, on what occasion.  JobLifecycle implements it, *)
(* and TaskRollup builds the statuses of batches and task upon it.         *)
(***************************************************************************)
EXTENDS DependencyRules

CONSTANTS
  Jobs,     \* all jobs the task may ever have
  Initial   \* those that expand creates; others come from a fan-out

VARIABLES
  status,   \* of the jobs that have been created
  started,  \* jobs that were handed to a worker (job.hostId)
  inHand    \* jobs that a runner thread or its report will still speak for

flowVars == <<status, started, inHand>>

created == DOMAIN status
Over(j) == status[j] \in Ended

\* expand creates no job without the parents its edges lead to.
ASSUME InitialAssumption ==
  /\ IsFiniteSet(Jobs) /\ Initial \subseteq Jobs
  /\ Edges \subseteq [parent : Jobs, child : Jobs, mode : Mode]
  /\ \A e \in Edges : e.child \in Initial => e.parent \in Initial

FlowTypeOK ==
  /\ created \subseteq Jobs
  /\ status \in [created -> JobStatus]
  /\ started \subseteq created
  /\ inHand \subseteq started

FlowInit ==
  /\ status = [j \in Initial |->
                 IF Incoming(j) = {} THEN "ready" ELSE "waiting"]
  /\ started = {}
  /\ inHand = {}
-----------------------------------------------------------------------------
\* A fan-out creates the jobs of rows, none without its parents; those that
\* begin as ready are behind jobs that ran and ended.
Create(rows) ==
  /\ DOMAIN rows \cap created = {}
  /\ \A j \in DOMAIN rows : \A e \in Incoming(j) :
       /\ e.parent \in created \cup DOMAIN rows
       /\ rows[j] = "ready" => e.parent \in started /\ Over(e.parent)
  /\ status' = [j \in created \cup DOMAIN rows |->
                  IF j \in created THEN status[j] ELSE rows[j]]
  /\ UNCHANGED <<started, inHand>>

\* The dispatcher decides the waiting jobs.
Decide ==
  /\ \E new \in Decided(status) :
       status' = [j \in created |-> IF status[j] = "waiting" THEN new[j]
                                    ELSE status[j]]
  /\ UNCHANGED <<started, inHand>>

\* A worker is handed a ready job, or its reply is lost.
Start(j) ==
  /\ j \in created /\ status[j] = "ready"
  /\ status' = [status EXCEPT ![j] = "running"]
  /\ started' = started \cup {j}
  /\ inHand' \in {inHand, inHand \cup {j}}

\* The one report of a job that was handed out.
Report(j, result) ==
  /\ j \in inHand
  /\ inHand' = inHand \ {j}
  /\ status' = [status EXCEPT ![j] = result]
  /\ UNCHANGED started

\* Reports are lost, or workers stop before they make any.
Drop(S) ==
  /\ S \subseteq inHand
  /\ inHand' = inHand \ S
  /\ UNCHANGED <<status, started>>

\* The monitor gives jobs up that were running when it looked.
GiveUp(S) ==
  /\ S \subseteq started
  /\ status' = [j \in created |-> IF j \in S THEN "failed" ELSE status[j]]
  /\ UNCHANGED <<started, inHand>>

\* A cancel ends a job, whatever has become of it since it was read.
Cancel(j) ==
  /\ j \in created
  /\ status' = [status EXCEPT ![j] = "cancelled"]
  /\ UNCHANGED <<started, inHand>>

FlowNext ==
  \/ \E S \in SUBSET (Jobs \ created) :
       \E rows \in [S -> {"ready", "waiting"}] : Create(rows)
  \/ Decide
  \/ \E j \in created : Start(j) \/ Cancel(j)
  \/ \E j \in inHand, result \in {"success", "failed"} : Report(j, result)
  \/ \E S \in SUBSET started : Drop(S) \/ GiveUp(S)

FlowSpec == FlowInit /\ [][FlowNext]_flowVars
-----------------------------------------------------------------------------
\* A job runs only after the release, and is released only from waiting and
\* when each of its edges finds its parent as it asks, whatever else the same
\* tick does to the parents: a failed parent releases no on_success child.
\* The rows that a fan-out creates ready are behind parents that ran and ended.
Gated ==
  /\ \A j \in created :
       /\ status[j] # "ready" /\ status'[j] = "ready" =>
            /\ status[j] = "waiting"
            /\ \A e \in Wired(j) : Allows(e, status, status')
       /\ status[j] # "running" /\ status'[j] = "running" =>
            status[j] = "ready"
  /\ \A j \in DOMAIN status' \ created :
       /\ status'[j] \in {"ready", "waiting"}
       /\ status'[j] = "ready" => \A e \in Incoming(j) :
            e.parent \in started /\ Over(e.parent)

FlowGate == [][Gated]_flowVars

\* What has ended never opens again, and no row disappears.
FlowEnds == [][\A j \in created : /\ j \in DOMAIN status'
                                  /\ Over(j) => status'[j] \in Ended]_flowVars
=============================================================================
