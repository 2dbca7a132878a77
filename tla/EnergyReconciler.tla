--------------------------- MODULE EnergyReconciler ---------------------------
(***************************************************************************)
(* The reconciler of the API (energy-reconciler.service.ts): every minute  *)
(* it reads some jobs that ended a while ago and were not measured, asks   *)
(* Prometheus about each (energy.service.ts), and writes energy and        *)
(* metrics.  Workers report meanwhile, also about jobs that a cancel or    *)
(* the monitor has ended before; such a report replaces the metrics.       *)
(***************************************************************************)
EXTENDS Naturals, FiniteSets

CONSTANTS
  Jobs,
  Replicas,   \* the replicas of the API, each with a reconciler
  Delay,      \* ENERGY_RECONCILE_DELAY_S, in units of the clock
  MaxAge,     \* ENERGY_RECONCILE_MAX_AGE_S, likewise
  BatchSize,  \* ENERGY_RECONCILE_BATCH_SIZE
  MaxFaults   \* bound: ticks that throw or stop

ASSUME ReconcilerAssumption ==
  /\ Delay \in Nat /\ MaxAge \in Nat /\ MaxFaults \in Nat
  /\ BatchSize \in Nat \ {0}

VARIABLES
  ended,      \* the jobs with an endedAt
  age,        \* the time since it, up to one more than MaxAge
  inHand,     \* jobs a worker has not reported yet
  ending,     \* running jobs that a cancel or the monitor is about to end
  metrics,    \* what column metrics of a job holds
  measured,   \* the jobs with an energyMeasuredAt ...
  basis,      \* ... and whether every source had answered
  todo,       \* per replica: what its tick has read and not treated yet
  seen,       \* per replica: the metrics it read of these
  expired,    \* per replica: those that were older than MaxAge
  again,      \* history: those whose endedAt was written since the reading
  faults      \* faults that may still happen

vars == <<ended, age, inHand, ending, metrics, measured, basis, todo, seen,
          expired, again, faults>>

row  == <<ended, age, metrics>>
tick == <<todo, seen, expired, again>>

\* The worker's figures, and the volumes with transferSource.
Part == {"report", "transfer"}

\* The types, and what is measured has ended.
EnergyTypeOK ==
  /\ ended \subseteq Jobs /\ inHand \subseteq Jobs /\ ending \subseteq Jobs
  /\ age \in [Jobs -> 0 .. MaxAge + 1]
  /\ metrics \in [Jobs -> SUBSET Part] /\ measured \subseteq ended
  /\ basis \in [Jobs -> {"none", "full", "partial"}]
  /\ todo \in [Replicas -> SUBSET ended]
  /\ seen \in [Replicas -> [Jobs -> SUBSET Part]]
  /\ expired \in [Replicas -> SUBSET Jobs]
  /\ again \in [Replicas -> SUBSET Jobs]
  /\ faults \in 0 .. MaxFaults

Init ==
  /\ ended = {} /\ inHand = Jobs /\ ending = {} /\ measured = {}
  /\ age = [j \in Jobs |-> 0] /\ metrics = [j \in Jobs |-> {}]
  /\ basis = [j \in Jobs |-> "none"]
  /\ todo = [r \in Replicas |-> {}] /\ expired = todo /\ again = todo
  /\ seen = [r \in Replicas |-> metrics]
  /\ faults = MaxFaults
-----------------------------------------------------------------------------
\* endedAt is now.
End(j) ==
  /\ ended' = ended \cup {j}
  /\ age' = [age EXCEPT ![j] = 0]
  /\ again' = [r \in Replicas |-> again[r] \cup ({j} \cap todo[r])]

\* reportResult: the metrics are replaced, by nothing when the run failed
\* before it had any.  It does not look at the status.
Report(j) ==
  /\ j \in inHand /\ inHand' = inHand \ {j}
  /\ End(j)
  /\ \E m \in {{"report"}, {}} : metrics' = [metrics EXCEPT ![j] = m]
  /\ UNCHANGED <<ending, measured, basis, todo, seen, expired, faults>>

\* cancel, or the monitor, reads a job that has not ended ...
EndRead(j) ==
  /\ j \notin ended \cup ending /\ ending' = ending \cup {j}
  /\ UNCHANGED <<row, inHand, measured, basis, tick, faults>>

\* ... and ends it, whatever it has become; the worker is not told.
EndWrite(j) ==
  /\ j \in ending /\ ending' = ending \ {j}
  /\ End(j)
  /\ UNCHANGED <<inHand, metrics, measured, basis, todo, seen, expired, faults>>

TimePasses ==
  /\ age' = [j \in Jobs |-> IF j \in ended /\ age[j] <= MaxAge
                            THEN age[j] + 1 ELSE age[j]]
  /\ UNCHANGED <<ended, inHand, ending, metrics, measured, basis, tick, faults>>
-----------------------------------------------------------------------------
\* The jobs whose last scrape must have happened.
Settled == {j \in ended \ measured : age[j] >= Delay}

\* The oldest of a set, as many as a tick takes: orderBy endedAt, take.
Oldest(S) ==
  {T \in SUBSET S :
     /\ Cardinality(T) = (IF Cardinality(S) < BatchSize THEN Cardinality(S)
                          ELSE BatchSize)
     /\ \A i \in T, o \in S \ T : age[i] >= age[o]}

\* A tick reads its jobs, with their metrics and their age; the next one of
\* the same replica waits for it.
TickRead(r) ==
  /\ todo[r] = {} /\ Settled # {}
  /\ \E T \in Oldest(Settled) :
       /\ todo' = [todo EXCEPT ![r] = T]
       /\ seen' = [seen EXCEPT ![r] = [j \in Jobs |-> IF j \in T THEN metrics[j]
                                                     ELSE {}]]
       /\ expired' = [expired EXCEPT ![r] = {j \in T : age[j] > MaxAge}]
  /\ UNCHANGED <<row, inHand, ending, measured, basis, again, faults>>

\* The tick of r is through with some of its jobs.
Drop(r, S) ==
  /\ todo' = [todo EXCEPT ![r] = @ \ S]
  /\ seen' = [seen EXCEPT ![r] = [j \in Jobs |-> IF j \in S THEN {} ELSE @[j]]]
  /\ expired' = [expired EXCEPT ![r] = @ \ S]
  /\ again' = [again EXCEPT ![r] = @ \ S]

\* Mutant: what is incomplete is deferred, however old it is.
DefersForEver(r, j, complete) == ~complete

\* Mutant: what is incomplete is written at once.
DefersNever(r, j, complete) == FALSE

\* A source that should have answered did not, and the job is not too old.
Defers(r, j, complete) == ~complete /\ j \notin expired[r]

\* Mutant: only the new keys are written.
MergedAnew(current) == {"transfer"}

\* mergeTransferMetrics, on what the tick has read.
Merged(current) == current \cup {"transfer"}

\* measure, and the update by id.
Measure(r, j, complete) ==
  /\ j \in todo[r] /\ Drop(r, {j})
  /\ IF Defers(r, j, complete) THEN UNCHANGED <<metrics, measured, basis>>
     ELSE /\ metrics' = [metrics EXCEPT ![j] = Merged(seen[r][j])]
          /\ measured' = measured \cup {j}
          /\ basis' = [basis EXCEPT ![j] = IF complete THEN "full" ELSE "partial"]
  /\ UNCHANGED <<ended, age, inHand, ending, faults>>

\* An update throws, or the replica stops: the rest of the tick is left.
TickFails(r) ==
  /\ faults > 0 /\ faults' = faults - 1
  /\ todo[r] # {} /\ Drop(r, todo[r])
  /\ UNCHANGED <<row, inHand, ending, measured, basis>>

Next ==
  \/ TimePasses
  \/ \E j \in Jobs : Report(j) \/ EndRead(j) \/ EndWrite(j)
  \/ \E r \in Replicas :
       \/ TickRead(r) \/ TickFails(r)
       \/ \E j \in Jobs, c \in BOOLEAN : Measure(r, j, c)

Spec == Init /\ [][Next]_vars

\* Cron starts the ticks, their awaits return, time goes on.  Nothing is
\* assumed of Prometheus, nor of workers and operators.
FairSpec ==
  /\ Spec /\ WF_vars(TimePasses)
  /\ \A r \in Replicas : /\ WF_vars(TickRead(r))
                         /\ WF_vars(\E j \in Jobs, c \in BOOLEAN : Measure(r, j, c))
-----------------------------------------------------------------------------
\* A tick of r that has the job has read it before its end was written last.
Outdated(r, j) == j \in again[r]

\* Every write replaces the column metrics as a whole.  Nevertheless the
\* worker's figures get lost only to a tick that had read the job before they
\* came, or to a report, and the volumes and their source only to a report.
MetricsKept ==
  [][\A j \in Jobs :
       /\ "report" \in metrics[j] \ metrics'[j] =>
            \/ inHand' # inHand
            \/ \E r \in Replicas : Outdated(r, j) /\ j \notin todo'[r]
       /\ "transfer" \in metrics[j] \ metrics'[j] => inHand' # inHand]_vars

\* "The job is left for the next tick rather than recorded as a measured
\* zero": a job is measured when its last scrape has happened, and without
\* all answers only when it is too old, with any overlap of replicas, unless
\* it ended again since the tick that measures it has read it.
MeasuredInTime ==
  [][\A j \in Jobs :
       basis'[j] # basis[j] =>
         \/ age[j] >= Delay /\ (basis'[j] = "partial" => age[j] > MaxAge)
         \/ \E r \in Replicas : Outdated(r, j) /\ j \notin todo'[r]]_vars

\* "An outage cannot build a backlog that never drains": even if Prometheus
\* never answers, and though the oldest jobs fill every tick, a job that
\* ended is measured.
BacklogDrains == \A j \in Jobs : j \in ended ~> j \in measured
=============================================================================
