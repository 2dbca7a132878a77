----------------------- MODULE EnergyReconcilerProofs -----------------------
(***************************************************************************)
(* Theorems about EnergyReconciler, for any jobs, replicas and times.      *)
(***************************************************************************)
EXTENDS EnergyReconciler, TLAPS

\* r has read j, and the job has not ended again since.
UpToDate(r, j) == j \in todo[r] /\ ~Outdated(r, j)

\* A job that is up to date was read in time; it only grows older.
ReadInTime ==
  \A r \in Replicas, j \in Jobs :
    UpToDate(r, j) => /\ age[j] >= Delay
                      /\ j \in expired[r] => age[j] > MaxAge

\* There is a report only of what no worker has any more.
ReportedOnce ==
  \A j \in inHand : /\ "report" \notin metrics[j]
                    /\ \A r \in Replicas : "report" \notin seen[r][j]

\* Until a job is measured, what any tick has seen of a report is there.
ReportStays ==
  \A r \in Replicas, j \in Jobs \ measured :
    "report" \in seen[r][j] => "report" \in metrics[j]

\* A tick that is up to date has seen a report that is there, or that any
\* other tick has seen and may write back.
ReportIsSeen ==
  \A r \in Replicas, j \in Jobs :
    /\ UpToDate(r, j)
    /\ \/ "report" \in metrics[j]
       \/ \E q \in Replicas : "report" \in seen[q][j]
    => "report" \in seen[r][j]

EnergyInv ==
  /\ EnergyTypeOK
  /\ ReadInTime /\ ReportedOnce /\ ReportStays /\ ReportIsSeen

LEMMA EnergyInit == Init => EnergyInv
  BY ReconcilerAssumption
  DEF Init, EnergyInv, EnergyTypeOK, ReadInTime, ReportedOnce, ReportStays,
      ReportIsSeen, UpToDate, Outdated, Part

\* A report, or a job that is ended for another reason.
LEMMA EndSteps ==
  ASSUME EnergyInv, NEW k \in Jobs, Report(k) \/ EndRead(k) \/ EndWrite(k)
  PROVE  EnergyInv'
<1> USE ReconcilerAssumption
    DEF EnergyInv, EnergyTypeOK, Report, EndRead, EndWrite, End, row, tick
<1>1. EnergyTypeOK'
  <2>1. CASE Report(k)
    <3>1. PICK m \in {{"report"}, {}} : metrics' = [metrics EXCEPT ![k] = m]
      BY <2>1
    <3>2. metrics' \in [Jobs -> SUBSET Part]
      BY <3>1 DEF Part
    <3> QED
      BY <2>1, <3>2
  <2> QED
    BY <2>1
<1>2. ReadInTime'
  BY DEF ReadInTime, UpToDate, Outdated
<1>3. ReportedOnce'
  BY DEF ReportedOnce
<1>4. ReportStays'
  BY DEF ReportStays, ReportedOnce
<1>5. ReportIsSeen'
  BY DEF ReportIsSeen, UpToDate, Outdated
<1> QED
  BY <1>1, <1>2, <1>3, <1>4, <1>5

LEMMA TimeStep == EnergyInv /\ TimePasses => EnergyInv'
<1> SUFFICES ASSUME EnergyInv, TimePasses
             PROVE  EnergyInv'
    OBVIOUS
<1> USE ReconcilerAssumption DEF EnergyInv, EnergyTypeOK, TimePasses, tick
<1>1. EnergyTypeOK'
  OBVIOUS
<1>2. ReadInTime'
  BY DEF ReadInTime, UpToDate, Outdated
<1>3. ReportedOnce' /\ ReportStays' /\ ReportIsSeen'
  BY DEF ReportedOnce, ReportStays, ReportIsSeen, UpToDate, Outdated
<1> QED
  BY <1>1, <1>2, <1>3

LEMMA ReadStep ==
  ASSUME EnergyInv, NEW r \in Replicas, TickRead(r)
  PROVE  EnergyInv'
<1> USE ReconcilerAssumption DEF EnergyInv, EnergyTypeOK, row
<1>1. PICK T \in SUBSET Settled :
        /\ todo' = [todo EXCEPT ![r] = T]
        /\ seen' = [seen EXCEPT ![r] = [j \in Jobs |-> IF j \in T THEN metrics[j]
                                                      ELSE {}]]
        /\ expired' = [expired EXCEPT ![r] = {j \in T : age[j] > MaxAge}]
  BY DEF TickRead, Oldest
<1>2. /\ T \subseteq ended \ measured
      /\ \A j \in T : age[j] >= Delay
  BY <1>1 DEF Settled
<1>3. UNCHANGED <<ended, age, metrics, inHand, ending, measured, basis, again,
                  faults>>
  BY DEF TickRead
<1>4. EnergyTypeOK'
  BY <1>1, <1>2, <1>3
<1>5. ReadInTime'
  BY <1>1, <1>2, <1>3 DEF ReadInTime, UpToDate, Outdated
<1>6. ReportedOnce'
  BY <1>1, <1>3 DEF ReportedOnce
<1>7. ReportStays'
  BY <1>1, <1>3 DEF ReportStays
<1>8. ReportIsSeen'
  BY <1>1, <1>2, <1>3 DEF ReportIsSeen, ReportStays, UpToDate, Outdated
<1> QED
  BY <1>4, <1>5, <1>6, <1>7, <1>8

LEMMA MeasureStep ==
  ASSUME EnergyInv, NEW r \in Replicas, NEW k \in Jobs, NEW c \in BOOLEAN,
         Measure(r, k, c)
  PROVE  EnergyInv'
<1> USE ReconcilerAssumption DEF EnergyInv, EnergyTypeOK, Measure, Drop
<1>1. CASE Defers(r, k, c)
  <2>1. EnergyTypeOK'
    BY <1>1
  <2>2. ReadInTime'
    BY <1>1 DEF ReadInTime, UpToDate, Outdated
  <2>3. ReportedOnce' /\ ReportStays'
    BY <1>1 DEF ReportedOnce, ReportStays
  <2>4. ReportIsSeen'
    BY <1>1 DEF ReportIsSeen, UpToDate, Outdated
  <2> QED
    BY <2>1, <2>2, <2>3, <2>4
<1>2. CASE ~Defers(r, k, c)
  <2>1. metrics' = [metrics EXCEPT ![k] = seen[r][k] \cup {"transfer"}]
    BY <1>2 DEF Merged
  <2>2. EnergyTypeOK'
    BY <1>2, <2>1 DEF Part
  <2>3. ReadInTime'
    BY <1>2 DEF ReadInTime, UpToDate, Outdated
  <2>4. ReportedOnce' /\ ReportStays'
    BY <1>2, <2>1 DEF ReportedOnce, ReportStays
  <2>5. ReportIsSeen'
    BY <1>2, <2>1 DEF ReportIsSeen, UpToDate, Outdated
  <2> QED
    BY <2>2, <2>3, <2>4, <2>5
<1> QED
  BY <1>1, <1>2

LEMMA FailStep ==
  ASSUME EnergyInv, NEW r \in Replicas, TickFails(r)
  PROVE  EnergyInv'
<1> USE ReconcilerAssumption DEF EnergyInv, EnergyTypeOK, TickFails, Drop, row
<1>1. EnergyTypeOK'
  OBVIOUS
<1>2. ReadInTime' /\ ReportedOnce' /\ ReportStays'
  BY DEF ReadInTime, ReportedOnce, ReportStays, UpToDate, Outdated
<1>3. ReportIsSeen'
  BY DEF ReportIsSeen, UpToDate, Outdated
<1> QED
  BY <1>1, <1>2, <1>3

LEMMA EnergyStep == EnergyInv /\ [Next]_vars => EnergyInv'
<1> SUFFICES ASSUME EnergyInv, [Next]_vars
             PROVE  EnergyInv'
    OBVIOUS
<1>1. CASE Next
  BY <1>1, EndSteps, TimeStep, ReadStep, MeasureStep, FailStep DEF Next
<1>2. CASE UNCHANGED vars
  BY <1>2 DEF vars, row, tick, EnergyInv, EnergyTypeOK, ReadInTime, ReportedOnce,
              ReportStays, ReportIsSeen, UpToDate, Outdated
<1> QED
  BY <1>1, <1>2

LEMMA EnergyInvariance == Spec => []EnergyInv
  BY EnergyInit, EnergyStep, PTL DEF Spec

\* The types, for any number of replicas.
THEOREM EnergyTypes == Spec => []EnergyTypeOK
  BY EnergyInvariance, PTL DEF EnergyInv

\* A tick is the only writer of a basis: it is up to date, and then in time,
\* or the job has ended again.
THEOREM MeasuresInTime == Spec => MeasuredInTime
<1> DEFINE InTime(j) ==
      basis'[j] # basis[j] =>
         \/ age[j] >= Delay /\ (basis'[j] = "partial" => age[j] > MaxAge)
         \/ \E r \in Replicas : Outdated(r, j) /\ j \notin todo'[r]
<1>1. ASSUME EnergyInv, [Next]_vars, NEW j \in Jobs, basis'[j] # basis[j]
      PROVE  InTime(j)
  <2>1. PICK r \in Replicas, k \in Jobs, c \in BOOLEAN : Measure(r, k, c)
    BY <1>1 DEF Next, vars, row, tick, TimePasses, Report, EndRead, EndWrite,
                TickRead, TickFails
  <2>2. /\ ~Defers(r, k, c) /\ k \in todo[r] /\ k \notin todo'[r]
        /\ basis' = [basis EXCEPT ![k] = IF c THEN "full" ELSE "partial"]
    BY <1>1, <2>1 DEF Measure, Drop, EnergyInv, EnergyTypeOK
  <2>3. j = k
    BY <1>1, <2>2 DEF EnergyInv, EnergyTypeOK
  <2>4. basis'[j] = "partial" => j \in expired[r]
    BY <2>2, <2>3, <1>1 DEF Defers, EnergyInv, EnergyTypeOK
  <2> QED
    BY <1>1, <2>2, <2>3, <2>4 DEF EnergyInv, ReadInTime, UpToDate
<1>2. EnergyInv /\ [Next]_vars => \A j \in Jobs : InTime(j)
  BY <1>1
<1>3. EnergyInv /\ [Next]_vars => [\A j \in Jobs : InTime(j)]_vars
  BY <1>2
<1> QED
  BY <1>3, EnergyInvariance, PTL DEF Spec, MeasuredInTime

\* Only ticks and reports write metrics.  A tick that is up to date has seen
\* what it overwrites, and every tick writes the volumes.
THEOREM FiguresAreKept == Spec => MetricsKept
<1> DEFINE Kept(j) ==
       /\ "report" \in metrics[j] \ metrics'[j] =>
            \/ inHand' # inHand
            \/ \E r \in Replicas : Outdated(r, j) /\ j \notin todo'[r]
       /\ "transfer" \in metrics[j] \ metrics'[j] => inHand' # inHand
<1>1. ASSUME EnergyInv, [Next]_vars, NEW j \in Jobs
      PROVE  Kept(j)
  <2>1. CASE metrics'[j] = metrics[j] \/ inHand' # inHand
    BY <2>1
  <2>2. CASE metrics'[j] # metrics[j] /\ inHand' = inHand
    <3>1. PICK r \in Replicas, k \in Jobs, c \in BOOLEAN : Measure(r, k, c)
      BY <1>1, <2>2 DEF Next, vars, row, tick, TimePasses, Report, EndRead,
                        EndWrite, TickRead, TickFails
    <3>2. /\ k \in todo[r] /\ k \notin todo'[r]
          /\ metrics' = [metrics EXCEPT ![k] = seen[r][k] \cup {"transfer"}]
      BY <1>1, <2>2, <3>1 DEF Measure, Merged, Drop, EnergyInv, EnergyTypeOK
    <3>3. j = k
      BY <1>1, <2>2, <3>2 DEF EnergyInv, EnergyTypeOK
    <3>4. metrics'[j] = seen[r][j] \cup {"transfer"}
      BY <1>1, <3>2, <3>3 DEF EnergyInv, EnergyTypeOK
    <3> QED
      BY <1>1, <3>2, <3>3, <3>4 DEF EnergyInv, ReportIsSeen, UpToDate
  <2> QED
    BY <2>1, <2>2
<1>2. EnergyInv /\ [Next]_vars => [\A j \in Jobs : Kept(j)]_vars
  BY <1>1
<1> QED
  BY <1>2, EnergyInvariance, PTL DEF Spec, MetricsKept
=============================================================================
