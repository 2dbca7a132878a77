-------------------------- MODULE DependencyRules --------------------------
(***************************************************************************)
(* The pure dependency rules of the dispatcher                             *)
(* (apps/dispatcher/src/domain/dependencies.py and enums.py): what becomes *)
(* of a waiting job, given the statuses of the parents that reach it       *)
(* through each dependency mode.                                           *)
(***************************************************************************)

EXTENDS Naturals, FiniteSets

CONSTANT Edges   \* production_chain_x_edge, by jobs: [parent, child, mode]

JobStatus == {"waiting", "ready", "running",
              "success", "failed", "skipped", "cancelled"}

\* is_terminal_job_status.
Ended == {"success", "failed", "skipped", "cancelled"}

Mode == {"on_success", "on_failure", "on_completion",
         "on_data_available", "optional"}

(***************************************************************************)
(* parents maps every mode that reaches the child to the set of statuses   *)
(* of the parents that reach it that way.  A mode is contradicted when a   *)
(* parent ended in a way that rules the child out, and pending when it may *)
(* still be satisfied later.  An on_data_available edge stays pending: the *)
(* dispatcher passes no data_available predicate.                          *)
(***************************************************************************)
\* Mutant of Contradicted: a skipped parent is forgotten.
ContradictedNotSkipped(mode, statuses) ==
  \/ /\ mode = "on_success"
     /\ statuses \cap {"failed", "cancelled"} # {}
  \/ /\ mode = "on_failure"
     /\ "failed" \notin statuses
     /\ statuses \subseteq Ended

Contradicted(mode, statuses) ==
  \/ /\ mode = "on_success"
     /\ statuses \cap {"failed", "skipped", "cancelled"} # {}
  \/ /\ mode = "on_failure"
     /\ "failed" \notin statuses
     /\ statuses \subseteq Ended

\* Mutant of Pending: a parent that is running is not waited for.
PendingNotRunning(mode, statuses) ==
  \/ mode = "on_success"    /\ statuses \cap {"waiting", "ready"} # {}
  \/ mode = "on_failure"    /\ "failed" \notin statuses
  \/ mode = "on_completion" /\ ~(statuses \subseteq Ended)
  \/ mode = "on_data_available"

Pending(mode, statuses) ==
  \/ mode = "on_success"    /\ ~(statuses \subseteq {"success"})
  \/ mode = "on_failure"    /\ "failed" \notin statuses
  \/ mode = "on_completion" /\ ~(statuses \subseteq Ended)
  \/ mode = "on_data_available"

NextStateForChild(parents) ==
  IF \E m \in DOMAIN parents : Contradicted(m, parents[m]) THEN "skipped"
  ELSE IF \E m \in DOMAIN parents : Pending(m, parents[m]) THEN "waiting"
  ELSE "ready"

(***************************************************************************)
(* What _collect_parents returns for job j: the jobs of statusOf that the  *)
(* edges into j lead to, by mode.  A parent that has no row yet is not     *)
(* there, and on_data_available edges are dropped with a warning.          *)
(***************************************************************************)
Incoming(j) == {e \in Edges : e.child = j}
Wired(j)    == {e \in Incoming(j) : e.mode # "on_data_available"}

\* Mutant: of the parents of one mode only one is kept.
ParentsByModeOne(j, statusOf) ==
  LET found == {e \in Wired(j) : e.parent \in DOMAIN statusOf}
  IN  [m \in {e.mode : e \in found} |->
         {statusOf[(CHOOSE e \in found : e.mode = m).parent]}]

ParentsByMode(j, statusOf) ==
  LET found == {e \in Wired(j) : e.parent \in DOMAIN statusOf}
  IN  [m \in {e.mode : e \in found} |->
         {statusOf[e.parent] : e \in {f \in found : f.mode = m}}]

\* The order in which a tick goes through a set of rows.
Orders(S) == {rank \in [S -> 1 .. Cardinality(S)] :
                \A i, j \in S : rank[i] = rank[j] => i = j}

(***************************************************************************)
(* What one tick may make of the waiting jobs of the table status: it goes *)
(* through them in some order, and a job that it decided earlier is read   *)
(* as it left it.                                                          *)
(***************************************************************************)
Decided(status) ==
  LET rows == {j \in DOMAIN status : status[j] = "waiting"} IN
  {new \in [rows -> {"ready", "waiting", "skipped"}] :
     \E rank \in Orders(rows) : \A j \in rows :
       LET seen == [p \in DOMAIN status |->
                      IF p \in rows /\ rank[p] < rank[j] THEN new[p]
                      ELSE status[p]]
       IN  new[j] = NextStateForChild(ParentsByMode(j, seen))}
-----------------------------------------------------------------------------
\* The parent of edge e is as the edge asks, in a tick that finds the table
\* old and leaves it as new: a skip may be the work of the same tick.
Allows(e, old, new) ==
  CASE e.mode = "on_success"    -> old[e.parent] = "success"
    [] e.mode = "on_completion" -> new[e.parent] \in Ended
    [] e.mode = "on_failure"    -> \E f \in Incoming(e.child) :
                                     /\ f.mode = "on_failure"
                                     /\ old[f.parent] = "failed"
    [] OTHER                    -> TRUE
=============================================================================
