-------------------------- MODULE TaskRollupProofs --------------------------
(***************************************************************************)
(* Theorems about JobFlow, then about TaskRollup, whose jobs behave as     *)
(* JobFlow says: for every graph of edges and every fan-out.               *)
(***************************************************************************)
EXTENDS TaskRollup, TLAPS

(* The jobs alone.                                                         *)

\* No job is there without its parents.
ParentsCreated ==
  \A e \in Edges : e.child \in created => e.parent \in created

\* What waits was not started, what succeeded was.
StartedPast ==
  \A j \in created : /\ status[j] \in {"waiting", "ready"} => j \notin started
                     /\ status[j] = "success" => j \in started

FlowInv == FlowTypeOK /\ ParentsCreated /\ StartedPast

LEMMA EdgesTyped ==
  ASSUME NEW e \in Edges
  PROVE  /\ e.child \in Jobs /\ e.parent \in Jobs
         /\ e \in Incoming(e.child)
         /\ \A j, f : f \in Incoming(j) => f \in Edges /\ f.child = j
BY InitialAssumption DEF Incoming

LEMMA FlowInitInv == FlowInit => FlowInv
<1> SUFFICES ASSUME FlowInit PROVE FlowInv
    OBVIOUS
<1>1. created = Initial /\ started = {} /\ inHand = {}
  BY DEF FlowInit, created
<1>2. \A j \in created : status[j] \in {"ready", "waiting"}
                         /\ (status[j] = "ready" => Incoming(j) = {})
  BY <1>1 DEF FlowInit
<1>3. FlowTypeOK
  <2>1. status \in [Initial -> JobStatus]
    BY DEF FlowInit, JobStatus
  <2> QED
    BY <1>1, <2>1, InitialAssumption DEF FlowTypeOK
<1>4. ParentsCreated
  BY <1>1, InitialAssumption DEF ParentsCreated
<1>5. StartedPast
  BY <1>1, <1>2 DEF StartedPast
<1> QED
  BY <1>3, <1>4, <1>5 DEF FlowInv

-----------------------------------------------------------------------------
\* What a step may do to the jobs that are there.
FlowMay(j) ==
  \/ status'[j] = status[j]
  \/ Decide /\ status[j] = "waiting" /\ status'[j] \in {"ready", "skipped"}
  \/ status[j] = "ready" /\ status'[j] = "running" /\ j \in started'
  \/ status'[j] \in {"failed", "cancelled"}
  \/ status'[j] = "success" /\ j \in started

\* And to the rows: new ones come with their parents, ready or waiting.
RowsMay ==
  /\ created \subseteq created' /\ created' \subseteq Jobs
  /\ status' \in [created' -> JobStatus]
  /\ started \subseteq started' /\ started' \subseteq created
  /\ inHand' \subseteq started'
  /\ \A j \in started' \ started : status[j] = "ready"
                                   /\ status'[j] = "running"
  /\ \A j \in created' \ created :
       /\ status'[j] \in {"ready", "waiting"}
       /\ \A e \in Incoming(j) :
            /\ e.parent \in created'
            /\ status'[j] = "ready" => e.parent \in started /\ Over(e.parent)

LEMMA DecideLawful ==
  FlowTypeOK /\ Decide => RowsMay /\ \A j \in created : FlowMay(j)
<1> SUFFICES ASSUME FlowTypeOK, Decide
             PROVE  RowsMay /\ \A j \in created : FlowMay(j)
    OBVIOUS
<1> DEFINE rows == {j \in created : status[j] = "waiting"}
<1>1. Decided(status) \subseteq [rows -> {"ready", "waiting", "skipped"}]
  BY DEF Decided, created
<1>2. PICK new \in [rows -> {"ready", "waiting", "skipped"}] :
        status' = [j \in created |-> IF j \in rows THEN new[j] ELSE status[j]]
  BY <1>1 DEF Decide
<1>3. created' = created /\ status' \in [created -> JobStatus]
  BY <1>2 DEF FlowTypeOK, created, JobStatus
<1>4. \A j \in created : FlowMay(j)
  BY <1>2 DEF FlowMay
<1> QED
  BY <1>3, <1>4 DEF Decide, RowsMay, FlowTypeOK

LEMMA CreateLawful ==
  ASSUME FlowTypeOK, NEW S \in SUBSET (Jobs \ created),
         NEW rows \in [S -> {"ready", "waiting"}], Create(rows)
  PROVE  RowsMay /\ \A j \in created : FlowMay(j)
<1>1. status' = [j \in created \cup S |->
                   IF j \in created THEN status[j] ELSE rows[j]]
  BY DEF Create
<1>2. created' = created \cup S /\ status' \in [created \cup S -> JobStatus]
  BY <1>1 DEF FlowTypeOK, created, JobStatus
<1>3. \A j \in created : FlowMay(j)
  BY <1>1 DEF FlowMay
<1>4. \A j \in created' \ created : j \in S /\ status'[j] = rows[j]
  BY <1>1, <1>2
<1>5. UNCHANGED <<started, inHand>>
  BY DEF Create
<1> QED
  BY <1>2, <1>3, <1>4, <1>5 DEF Create, RowsMay, FlowTypeOK

LEMMA JobLawful ==
  ASSUME FlowTypeOK, NEW i \in created,
         \/ Start(i) \/ Cancel(i)
         \/ \E result \in {"success", "failed"} : Report(i, result)
  PROVE  RowsMay /\ \A j \in created : FlowMay(j)
<1>1. PICK s \in JobStatus : status' = [status EXCEPT ![i] = s]
  BY DEF Start, Cancel, Report, JobStatus
<1>2. created' = created /\ status' \in [created -> JobStatus]
  BY <1>1 DEF FlowTypeOK, created
<1>3. CASE Start(i)
  <2>1. status[i] = "ready" /\ status'[i] = "running"
        /\ started' = started \cup {i} /\ inHand' \subseteq inHand \cup {i}
    BY <1>3 DEF Start, FlowTypeOK
  <2> QED
    BY <1>1, <1>2, <2>1 DEF RowsMay, FlowMay, FlowTypeOK
<1>4. CASE Cancel(i)
  <2>1. status'[i] = "cancelled" /\ UNCHANGED <<started, inHand>>
    BY <1>4 DEF Cancel, FlowTypeOK
  <2> QED
    BY <1>1, <1>2, <2>1 DEF RowsMay, FlowMay, FlowTypeOK
<1>5. CASE \E result \in {"success", "failed"} : Report(i, result)
  <2>1. status'[i] \in {"success", "failed"} /\ i \in started
        /\ started' = started /\ inHand' \subseteq inHand
    BY <1>5 DEF Report, FlowTypeOK
  <2> QED
    BY <1>1, <1>2, <2>1 DEF RowsMay, FlowMay, FlowTypeOK
<1> QED
  BY <1>3, <1>4, <1>5

LEMMA FlowLawful ==
  FlowTypeOK /\ [FlowNext]_flowVars
    => RowsMay /\ \A j \in created : FlowMay(j)
<1> SUFFICES ASSUME FlowTypeOK, [FlowNext]_flowVars
             PROVE  RowsMay /\ \A j \in created : FlowMay(j)
    OBVIOUS
<1>1. CASE UNCHANGED status /\ UNCHANGED started /\ inHand' \subseteq inHand
  BY <1>1 DEF RowsMay, FlowMay, FlowTypeOK, created
<1>2. ASSUME NEW S \in SUBSET started, GiveUp(S)
      PROVE  RowsMay /\ \A j \in created : FlowMay(j)
  <2>1. status' = [j \in created |-> IF j \in S THEN "failed" ELSE status[j]]
        /\ UNCHANGED <<started, inHand>>
    BY <1>2 DEF GiveUp
  <2>2. created' = created /\ status' \in [created -> JobStatus]
    BY <2>1 DEF FlowTypeOK, created, JobStatus
  <2> QED
    BY <2>1, <2>2 DEF RowsMay, FlowMay, FlowTypeOK
<1>3. ASSUME NEW S \in SUBSET started, Drop(S)
      PROVE  RowsMay /\ \A j \in created : FlowMay(j)
  BY <1>1, <1>3 DEF Drop
<1>4. inHand \subseteq created
  BY DEF FlowTypeOK
<1> QED
  BY <1>1, <1>2, <1>3, <1>4, DecideLawful, CreateLawful, JobLawful
     DEF FlowNext, flowVars

-----------------------------------------------------------------------------
(* The gate.                                                               *)

LEMMA FlowEndedStep ==
  FlowTypeOK /\ [FlowNext]_flowVars
    => \A j \in created : j \in created' /\ (Over(j) => Over(j)')
BY FlowLawful DEF RowsMay, FlowMay, Over, Ended

\* The dispatcher's rules are strict enough, on whatever it has just read.
LEMMA FlowRulesAllow ==
  ASSUME NEW seen \in [created -> JobStatus],
         NEW j, NEW e \in Wired(j), e.parent \in created,
         NextStateForChild(ParentsByMode(j, seen)) = "ready"
  PROVE  /\ e.mode = "on_success" => seen[e.parent] = "success"
         /\ e.mode = "on_completion" => seen[e.parent] \in Ended
         /\ e.mode = "on_failure" =>
              \E f \in Incoming(j) : /\ f.mode = "on_failure"
                                     /\ f.parent \in created
                                     /\ seen[f.parent] = "failed"
<1> DEFINE P == ParentsByMode(j, seen)
           found == {f \in Wired(j) : f.parent \in DOMAIN seen}
           S == {seen[f.parent] : f \in {w \in found : w.mode = e.mode}}
<1>1. e \in found
  OBVIOUS
<1>2. e.mode \in DOMAIN P /\ P[e.mode] = S /\ seen[e.parent] \in S
  BY <1>1 DEF ParentsByMode
<1>3. ~Pending(e.mode, S)
  BY <1>2 DEF NextStateForChild
<1>4. e.mode = "on_failure" => "failed" \in S
  BY <1>3 DEF Pending
<1>5. "failed" \in S => \E f \in Incoming(j) : /\ f.mode = e.mode
                                               /\ f.parent \in created
                                               /\ seen[f.parent] = "failed"
  BY DEF Wired
<1> QED
  BY <1>2, <1>3, <1>4, <1>5 DEF Pending

\* A job that is released is allowed to by each of its edges.
LEMMA FlowReleaseStep ==
  ASSUME FlowInv, [FlowNext]_flowVars, NEW j \in created,
         status[j] # "ready", status'[j] = "ready"
  PROVE  /\ status[j] = "waiting"
         /\ \A e \in Wired(j) : Allows(e, status, status')
<1>1. Decide /\ status[j] = "waiting"
  BY FlowLawful DEF FlowInv, FlowMay
<1> DEFINE rows == {i \in created : status[i] = "waiting"}
<1>2. PICK new \in [rows -> {"ready", "waiting", "skipped"}],
           rank \in Orders(rows) :
        /\ \A i \in rows :
             LET seen == [q \in created |-> IF q \in rows /\ rank[q] < rank[i]
                                            THEN new[q] ELSE status[q]]
             IN  new[i] = NextStateForChild(ParentsByMode(i, seen))
        /\ status' = [i \in created |-> IF i \in rows THEN new[i]
                                        ELSE status[i]]
  BY <1>1 DEF Decide, Decided, created
<1> DEFINE seen == [q \in created |-> IF q \in rows /\ rank[q] < rank[j]
                                      THEN new[q] ELSE status[q]]
<1>3. seen \in [created -> JobStatus]
  BY <1>2 DEF FlowInv, FlowTypeOK, JobStatus
<1>4. NextStateForChild(ParentsByMode(j, seen)) = "ready"
  BY <1>1, <1>2
\* A skip that the tick reads is one that it leaves behind, and neither a
\* success nor a failure is of its making.
<1>5. \A q \in created : /\ seen[q] \in Ended => status'[q] \in Ended
                         /\ seen[q] = "success" => status[q] = "success"
                         /\ seen[q] = "failed" => status[q] = "failed"
  BY <1>2 DEF Ended
<1> HIDE DEF seen
<1>6. ASSUME NEW e \in Wired(j) PROVE Allows(e, status, status')
  <2>1. e.parent \in created /\ e.child = j
    BY EdgesTyped DEF Wired, Incoming, FlowInv, ParentsCreated
  <2>2. /\ e.mode = "on_success" => seen[e.parent] = "success"
        /\ e.mode = "on_completion" => seen[e.parent] \in Ended
        /\ e.mode = "on_failure" =>
             \E f \in Incoming(j) : /\ f.mode = "on_failure"
                                    /\ f.parent \in created
                                    /\ seen[f.parent] = "failed"
    BY <1>3, <1>4, <2>1, FlowRulesAllow
  <2>3. /\ e.mode = "on_success" => status[e.parent] = "success"
        /\ e.mode = "on_completion" => status'[e.parent] \in Ended
    BY <1>5, <2>1, <2>2
  <2>4. e.mode = "on_failure" =>
          \E f \in Incoming(j) : /\ f.mode = "on_failure"
                                 /\ status[f.parent] = "failed"
    BY <1>5, <2>2
  <2> QED
    BY <2>1, <2>3, <2>4 DEF Allows
<1> QED
  BY <1>1, <1>6

LEMMA FlowStepInv == FlowInv /\ [FlowNext]_flowVars => FlowInv'
<1> SUFFICES ASSUME FlowInv, [FlowNext]_flowVars PROVE FlowInv'
    OBVIOUS
<1> USE FlowLawful DEF FlowInv
<1>1. FlowTypeOK'
  BY DEF FlowTypeOK, RowsMay
<1>2. ParentsCreated'
  BY EdgesTyped DEF ParentsCreated, RowsMay
<1>3. StartedPast'
  BY DEF StartedPast, RowsMay, FlowMay
<1> QED
  BY <1>1, <1>2, <1>3

LEMMA FlowInvariance == FlowSpec => []FlowInv
BY FlowInitInv, FlowStepInv, PTL DEF FlowSpec

LEMMA FlowGateStep == FlowInv /\ [FlowNext]_flowVars => Gated
<1> SUFFICES ASSUME FlowInv, [FlowNext]_flowVars PROVE Gated
    OBVIOUS
<1>1. RowsMay /\ \A j \in created : FlowMay(j)
  BY FlowLawful DEF FlowInv
<1>2. \A j \in created : status[j] # "running" /\ status'[j] = "running" =>
                           status[j] = "ready"
  BY <1>1 DEF FlowMay
<1>3. \A j \in DOMAIN status' \ created :
        /\ status'[j] \in {"ready", "waiting"}
        /\ status'[j] = "ready" => \A e \in Incoming(j) :
             e.parent \in started /\ Over(e.parent)
  BY <1>1 DEF RowsMay, created
<1> QED
  BY <1>2, <1>3, FlowReleaseStep DEF Gated

\* On every graph and with every fan-out, a job runs only when released, and
\* is released only by parents that are as its edges ask.
THEOREM FlowGateHolds == FlowSpec => FlowGate
<1>1. FlowInv /\ [FlowNext]_flowVars => [Gated]_flowVars
  BY FlowGateStep
<1> QED
  BY <1>1, FlowInvariance, PTL DEF FlowSpec, FlowGate

\* No job that has ended opens again.
THEOREM FlowEndsForEver == FlowSpec => FlowEnds
<1>1. FlowInv /\ [FlowNext]_flowVars
        => [\A j \in created : /\ j \in DOMAIN status'
                               /\ Over(j) => status'[j] \in Ended]_flowVars
  BY FlowEndedStep DEF FlowInv, Over, created
<1> QED
  BY <1>1, FlowInvariance, PTL DEF FlowSpec, FlowEnds

-----------------------------------------------------------------------------
(* The tasks above them.                                                   *)

\* A job has one report, so one transaction.
RollingOnce == \A s, t \in rolling : s.job = t.job => s = t

\* What is closed, what the finalizer will close, and what fans out has ended.
SealedIsOver == \A j \in created : batch[j] \in Closed => Over(j)
SealsAreOver == \A j \in DOMAIN seals : Over(j)
FanningIsOver == \A j \in fanning : Over(j)

\* A verdict that closes the task is still true when it is committed: what
\* was over stays over, and only a fan-out adds jobs.
VerdictSound ==
  \A t \in rolling :
    t.verdict \in {"done", "error"} =>
      \A j \in created : j = t.job \/ Over(j) \/ FannedOut(j)

FinalizerSound ==
  finalizer \in {"done", "error"} =>
    \A j \in created : Over(j) \/ FannedOut(j)

\* Before its report a job has no fan-out behind it.
FanOutAfterReport ==
  \A j \in Jobs :
    j \in inHand \/ j \notin started =>
      j \notin fanning /\ DOMAIN FanOut[j] \cap created = {}

RollupInv ==
  /\ FlowInv /\ RollupTypeOK /\ RollingOnce
  /\ SealedIsOver /\ SealsAreOver /\ FanningIsOver
  /\ VerdictSound /\ FinalizerSound /\ ClosedIsOver
  /\ FanOutAfterReport /\ FanOutOnce

-----------------------------------------------------------------------------
(* Who writes what.                                                        *)

LEMMA FlowWriters ==
  [Next]_vars =>
    \/ UNCHANGED flowVars
    \/ DependencyTick \/ MonitorFail
    \/ \E j \in created : NextJob(j) \/ CancelJob(j)
    \/ \E j \in inHand : LoseReport(j)
    \/ \E t \in rolling : ReportCommit(t)
    \/ \E p \in fanning : FanOutDone(p)
BY DEF Next, SetRunning, FinalizerRead, FinalizerSeal, FinalizerCommit,
       MonitorRead, ReportRead, ReportRoll, FanOutFails, FanOutLost, vars

LEMMA BatchWriters ==
  [Next]_vars =>
    \/ UNCHANGED <<created, batch>>
    \/ \E j \in created : NextJob(j)
    \/ \E t \in rolling : ReportCommit(t)
    \/ \E p \in fanning : FanOutDone(p) \/ FanOutFails(p)
    \/ FinalizerCommit
BY DEF Next, SetRunning, DependencyTick, Decide, FinalizerRead,
       FinalizerSeal, MonitorRead, MonitorFail, GiveUp, CancelJob, Cancel,
       LoseReport, Drop, ReportRead, ReportRoll, FanOutLost, flowVars, vars,
       created

LEMMA RollingWriters ==
  [Next]_vars =>
    \/ UNCHANGED <<rolling, inHand>>
    \/ \E j \in created : NextJob(j)
    \/ \E j \in inHand : LoseReport(j) \/ \E r \in Result : ReportRead(j, r)
    \/ \E t \in rolling : ReportRoll(t) \/ ReportCommit(t)
BY DEF Next, SetRunning, DependencyTick, Decide, FinalizerRead,
       FinalizerSeal, FinalizerCommit, MonitorRead, MonitorFail, GiveUp,
       CancelJob, Cancel, FanOutDone, Create, FanOutFails, FanOutLost,
       flowVars, vars

LEMMA TickWriters ==
  [Next]_vars =>
    \/ UNCHANGED tickVars
    \/ FinalizerRead \/ FinalizerSeal \/ FinalizerCommit
    \/ MonitorFail \/ \E S \in SUBSET started : MonitorRead(S)
BY DEF Next, SetRunning, DependencyTick, NextJob, CancelJob, LoseReport,
       ReportRead, ReportRoll, ReportCommit, FanOutDone, FanOutFails,
       FanOutLost, vars

LEMMA TaskWriters ==
  [Next]_vars =>
    \/ UNCHANGED task
    \/ task' = "running"
    \/ \E t \in rolling : ReportCommit(t)
    \/ \E p \in fanning : FanOutFails(p)
    \/ FinalizerCommit
BY DEF Next, SetRunning, DependencyTick, FinalizerRead, FinalizerSeal,
       NextJob, CancelJob, LoseReport, ReportRead, ReportRoll, FanOutDone,
       FanOutLost, MonitorRead, MonitorFail, vars

\* A call begins with a commit and ends with its rows, a failure or a stop;
\* rows come from calls only.
LEMMA FanOutMay ==
  ASSUME [Next]_vars
  PROVE  \/ fanning' \subseteq fanning /\ created' = created
         \/ \E t \in rolling :
              /\ ReportCommit(t) /\ created' = created
              /\ fanning' \subseteq fanning \cup {t.job}
              /\ t.job \in fanning' \ fanning => FansOut(t)
         \/ \E p \in fanning : /\ FanOutDone(p) /\ fanning' = fanning \ {p}
                               /\ created' = created \cup DOMAIN FanOut[p]
<1>1. ASSUME NEW t \in rolling, ReportCommit(t)
      PROVE  /\ created' = created
             /\ fanning' \subseteq fanning \cup {t.job}
             /\ t.job \in fanning' \ fanning => FansOut(t)
  BY <1>1 DEF ReportCommit, Report, created
<1>2. ASSUME NEW p \in fanning, FanOutDone(p)
      PROVE  /\ fanning' = fanning \ {p}
             /\ created' = created \cup DOMAIN FanOut[p]
  BY <1>2 DEF FanOutDone, Create, created
<1> QED
  BY <1>1, <1>2
     DEF Next, SetRunning, DependencyTick, Decide, FinalizerRead,
         FinalizerSeal, FinalizerCommit, NextJob, Start, CancelJob, Cancel,
         LoseReport, Drop, ReportRead, ReportRoll, FanOutFails, FanOutLost,
         MonitorRead, MonitorFail, GiveUp, flowVars, vars, created

\* The jobs of TaskRollup behave as those of JobFlow.
LEMMA RollupFlowStep ==
  RollupTypeOK /\ [Next]_vars => [FlowNext]_flowVars
<1> SUFFICES ASSUME RollupTypeOK, [Next]_vars
             PROVE  FlowNext \/ UNCHANGED flowVars
    OBVIOUS
<1>1. ASSUME NEW j \in fanning, FanOutDone(j) PROVE FlowNext
  <2>1. j \in Jobs
    BY DEF RollupTypeOK, FlowTypeOK
  <2>2. Create(FanOut[j])
    BY <1>1 DEF FanOutDone
  <2>3. /\ DOMAIN FanOut[j] \in SUBSET (Jobs \ created)
        /\ FanOut[j] \in [DOMAIN FanOut[j] -> {"ready", "waiting"}]
    BY <2>1, <2>2, FanOutAssumption DEF Create
  <2> QED
    BY <2>2, <2>3 DEF FlowNext
<1>2. ASSUME NEW t \in rolling, ReportCommit(t) PROVE FlowNext
  BY <1>2 DEF ReportCommit, RollupTypeOK, Call, FlowNext, Result
<1>3. ASSUME NEW j \in inHand, LoseReport(j) PROVE FlowNext
  <2>1. {j} \in SUBSET started
    BY DEF RollupTypeOK, FlowTypeOK
  <2> QED
    BY <1>3, <2>1 DEF LoseReport, FlowNext
<1>4. CASE MonitorFail
  BY <1>4 DEF MonitorFail, RollupTypeOK, FlowNext
<1>5. ASSUME NEW j \in created, NextJob(j) \/ CancelJob(j) PROVE FlowNext
  BY <1>5 DEF NextJob, CancelJob, FlowNext
<1>6. CASE DependencyTick
  BY <1>6 DEF DependencyTick, FlowNext
<1> QED
  BY <1>1, <1>2, <1>3, <1>4, <1>5, <1>6, FlowWriters

LEMMA RollupLawful ==
  ASSUME RollupInv, [Next]_vars
  PROVE  /\ FlowInv' /\ RowsMay /\ \A j \in created : FlowMay(j)
         /\ \A j \in created : j \in created' /\ (Over(j) => Over(j)')
BY RollupFlowStep, FlowStepInv, FlowLawful, FlowEndedStep
   DEF RollupInv, FlowInv

LEMMA RollupInitInv == Init => RollupInv
<1> SUFFICES ASSUME Init PROVE RollupInv
    OBVIOUS
<1>1. FlowInv
  BY FlowInitInv DEF Init
<1>2. created = Initial /\ started = {} /\ inHand = {}
  BY DEF Init, FlowInit, created
<1>3. /\ batch = [j \in Initial |-> "pending"] /\ rolling = {} /\ fanning = {}
      /\ task = "queued" /\ faults = MaxFaults /\ MaxFaults \in Nat
      /\ doomed = {} /\ finalizer = "idle"
  BY FanOutAssumption DEF Init
<1>4. seals \in [{} -> Closed]
  BY DEF Init, NoSeals
<1>5. RollupTypeOK
  BY <1>1, <1>2, <1>3, <1>4
     DEF RollupTypeOK, FlowInv, BatchStatus, TaskStatus
<1>6. SealedIsOver /\ SealsAreOver /\ FanningIsOver
  BY <1>2, <1>3, <1>4 DEF SealedIsOver, SealsAreOver, FanningIsOver, Closed
<1>7. RollingOnce /\ VerdictSound /\ FinalizerSound /\ ClosedIsOver
  BY <1>3 DEF RollingOnce, VerdictSound, FinalizerSound, ClosedIsOver,
              TaskClosed
<1>8. FanOutAfterReport /\ FanOutOnce
  BY <1>2, <1>3, FanOutAssumption DEF FanOutAfterReport, FanOutOnce
<1> QED
  BY <1>1, <1>5, <1>6, <1>7, <1>8 DEF RollupInv

-----------------------------------------------------------------------------
(* Types.                                                                  *)

\* What the rules of the roll-up return.
LEMMA VerdictType ==
  ASSUME NEW b
  PROVE  /\ TaskVerdict(b) \in Verdict
         /\ TaskVerdict(b) # "running" => \A j \in DOMAIN b : b[j] \in Closed
         /\ TaskVerdict(b) = "done" => \A j \in DOMAIN b : b[j] # "failed"
BY DEF TaskVerdict, Verdict

LEMMA CloseType ==
  ASSUME task \in TaskStatus, NEW v \in Verdict, Close(v)
  PROVE  task' \in TaskStatus
BY DEF Close, TaskStatus, Verdict

\* A report that writes its batch keeps all but its verdict.
LEMMA RollMay ==
  ASSUME rolling \subseteq Call, NEW t \in rolling, ReportRoll(t)
  PROVE  \E v \in Verdict :
           /\ rolling' = (rolling \ {t}) \cup
                {[job |-> t.job, result |-> t.result, moved |-> t.moved,
                  verdict |-> v]}
           /\ v # "running" =>
                v = TaskVerdict([batch EXCEPT ![t.job] = t.result])
<1> DEFINE v == IF FansOut(t) THEN "running"
                ELSE TaskVerdict([batch EXCEPT ![t.job] = t.result])
<1>1. v \in Verdict
  BY VerdictType DEF Verdict
<1>2. t \in [job : inHand, result : Result, moved : BOOLEAN,
             verdict : Verdict \cup {"none"}]
  BY DEF Call
<1>3. [t EXCEPT !.verdict = v] = [job |-> t.job, result |-> t.result,
                                  moved |-> t.moved, verdict |-> v]
  BY <1>2
<1>4. rolling' = (rolling \ {t}) \cup {[t EXCEPT !.verdict = v]}
  BY DEF ReportRoll
<1>5. rolling' = (rolling \ {t}) \cup
                 {[job |-> t.job, result |-> t.result, moved |-> t.moved,
                   verdict |-> v]}
  BY <1>3, <1>4
<1>6. v # "running" => v = TaskVerdict([batch EXCEPT ![t.job] = t.result])
  OBVIOUS
<1> HIDE DEF v
<1> QED
  BY <1>1, <1>5, <1>6

\* What the finalizer leaves behind is a table of batches again.
LEMMA SealedType ==
  RollupTypeOK => SealedBatches \in [created -> BatchStatus]
BY DEF RollupTypeOK, SealedBatches, Closed, BatchStatus

LEMMA SealClosed ==
  ASSUME NEW j \in Sealable PROVE Seal(status[j]) \in Closed
BY DEF Sealable, Over, Ended, Seal, Closed

\* The batch table is only ever written with values of its type.
LEMMA BatchType ==
  RollupTypeOK /\ [Next]_vars => batch' \in [created' -> BatchStatus]
<1> SUFFICES ASSUME RollupTypeOK, [Next]_vars
             PROVE  batch' \in [created' -> BatchStatus]
    OBVIOUS
<1> USE DEF RollupTypeOK, FlowTypeOK
<1>1. ASSUME NEW j \in created, NextJob(j)
      PROVE  batch' \in [created' -> BatchStatus]
  <2>1. created' = created
    BY <1>1 DEF NextJob, Start, created
  <2> QED
    BY <1>1, <2>1 DEF NextJob, BatchStatus
<1>2. ASSUME NEW t \in rolling, ReportCommit(t)
      PROVE  batch' \in [created' -> BatchStatus]
  <2>1. created' = created
    BY <1>2 DEF ReportCommit, Report, created
  <2>2. t.result \in Result
    BY DEF Call
  <2>3. PICK s : batch' = [batch EXCEPT ![t.job] = s]
                 /\ s \in {t.result, batch[t.job]}
    BY <1>2 DEF ReportCommit
  <2>4. t.job \in created
    BY <1>2 DEF Call
  <2>5. s \in BatchStatus
    BY <2>2, <2>3, <2>4 DEF Result, BatchStatus
  <2> QED
    BY <2>1, <2>3, <2>5
<1>3. ASSUME NEW j \in fanning, FanOutDone(j)
      PROVE  batch' \in [created' -> BatchStatus]
  BY <1>3 DEF FanOutDone, BatchStatus
<1>4. ASSUME NEW j \in fanning, FanOutFails(j)
      PROVE  batch' \in [created' -> BatchStatus]
  BY <1>4 DEF FanOutFails, BatchStatus, flowVars, created
<1>5. CASE FinalizerCommit
  <2>1. created' = created /\ batch' = SealedBatches
    BY <1>5 DEF FinalizerCommit, flowVars, created
  <2> QED
    BY <2>1, SealedType
<1>6. CASE UNCHANGED <<created, batch>>
  BY <1>6
<1> QED
  BY <1>1, <1>2, <1>3, <1>4, <1>5, <1>6, BatchWriters
-----------------------------------------------------------------------------
(* Reports under way.                                                      *)

\* A verdict is about jobs that are over, but for the one that is reported.
LEMMA VerdictRead ==
  ASSUME RollupInv, NEW i \in created, NEW r \in Result,
         TaskVerdict([batch EXCEPT ![i] = r]) # "running", NEW j \in created
  PROVE  j = i \/ Over(j)
<1> DEFINE b == [batch EXCEPT ![i] = r]
<1>1. DOMAIN b = created /\ (j # i => b[j] = batch[j])
  BY DEF RollupInv, RollupTypeOK
<1>2. b[j] \in Closed
  BY <1>1, VerdictType
<1> QED
  BY <1>1, <1>2 DEF RollupInv, SealedIsOver

LEMMA RollingStep ==
  RollupInv /\ [Next]_vars => rolling' \subseteq Call' /\ RollingOnce'
<1> SUFFICES ASSUME RollupInv, [Next]_vars
             PROVE  rolling' \subseteq Call' /\ RollingOnce'
    OBVIOUS
<1>0. rolling \subseteq Call /\ RollingOnce
  BY DEF RollupInv, RollupTypeOK
<1>1. CASE UNCHANGED <<rolling, inHand>>
  BY <1>0, <1>1 DEF Call, RollingOnce
<1>2. ASSUME NEW j \in created, NextJob(j)
      PROVE  rolling' \subseteq Call' /\ RollingOnce'
  <2>1. inHand \subseteq inHand' /\ rolling' = rolling
    BY <1>2 DEF NextJob, Start
  <2> QED
    BY <1>0, <2>1 DEF Call, RollingOnce
<1>3. ASSUME NEW j \in inHand, LoseReport(j)
      PROVE  rolling' \subseteq Call' /\ RollingOnce'
  <2>1. rolling' = {t \in rolling : t.job # j} /\ inHand' = inHand \ {j}
    BY <1>3 DEF LoseReport, Drop
  <2> QED
    BY <1>0, <2>1 DEF Call, RollingOnce
<1>4. ASSUME NEW j \in inHand, NEW r \in Result, ReportRead(j, r)
      PROVE  rolling' \subseteq Call' /\ RollingOnce'
  <2>1. PICK v \in Verdict \cup {"none"}, m \in BOOLEAN :
          rolling' = rolling \cup {[job |-> j, result |-> r, moved |-> m,
                                    verdict |-> v]}
    <3>1. (IF batch[j] # r THEN "none" ELSE "running")
             \in Verdict \cup {"none"}
      BY DEF Verdict
    <3>2. (batch[j] # r) \in BOOLEAN
      OBVIOUS
    <3> QED
      BY <1>4, <3>1, <3>2, Zenon DEF ReportRead
  <2>2. inHand' = inHand /\ \A t \in rolling : t.job # j
    BY <1>4 DEF ReportRead, flowVars, Locked
  <2> QED
    BY <1>0, <2>1, <2>2 DEF Call, RollingOnce
<1>5. ASSUME NEW t \in rolling, ReportRoll(t)
      PROVE  rolling' \subseteq Call' /\ RollingOnce'
  <2>1. PICK v \in Verdict :
          rolling' = (rolling \ {t}) \cup
            {[job |-> t.job, result |-> t.result, moved |-> t.moved,
              verdict |-> v]}
    BY <1>0, <1>5, RollMay
  <2>2. inHand' = inHand
    BY <1>5 DEF ReportRoll, flowVars
  <2>3. t.job \in inHand /\ t.result \in Result /\ t.moved \in BOOLEAN
    BY <1>0 DEF Call
  <2>4. rolling' \subseteq Call'
    BY <1>0, <2>1, <2>2, <2>3 DEF Call
  <2>5. RollingOnce'
    BY <1>0, <2>1 DEF RollingOnce
  <2> QED
    BY <2>4, <2>5
<1>6. ASSUME NEW t \in rolling, ReportCommit(t)
      PROVE  rolling' \subseteq Call' /\ RollingOnce'
  <2>1. rolling' = rolling \ {t} /\ inHand' = inHand \ {t.job}
    BY <1>6 DEF ReportCommit, Report
  <2> QED
    BY <1>0, <2>1 DEF Call, RollingOnce
<1> QED
  BY <1>1, <1>2, <1>3, <1>4, <1>5, <1>6, RollingWriters

\* A job that was not there before is one of a fan-out.
LEMMA AddedIsFannedOut ==
  ASSUME RollupInv, [Next]_vars, NEW j \in created', j \notin created
  PROVE  FannedOut(j)
<1>1. PICK p \in fanning : created' = created \cup DOMAIN FanOut[p]
  BY FanOutMay
<1>2. p \in Jobs
  BY DEF RollupInv, RollupTypeOK, FlowTypeOK
<1> QED
  BY <1>1, <1>2 DEF FannedOut

\* A verdict was reached by a transaction that is under way still, or now.
LEMMA VerdictMay ==
  ASSUME RollupInv, [Next]_vars, NEW t \in rolling',
         t.verdict \in {"done", "error"}
  PROVE  \/ t \in rolling
         \/ \E s \in rolling :
              /\ ReportRoll(s) /\ s.job = t.job /\ s.result = t.result
              /\ s.moved = t.moved /\ s.verdict = "none"
              /\ t.verdict = TaskVerdict([batch EXCEPT ![s.job] = s.result])
<1>1. rolling \subseteq Call
  BY DEF RollupInv, RollupTypeOK
<1>2. CASE UNCHANGED <<rolling, inHand>>
  BY <1>2
<1>3. ASSUME NEW j \in created, NextJob(j) PROVE t \in rolling
  BY <1>3 DEF NextJob
<1>4. ASSUME NEW j \in inHand, LoseReport(j) PROVE t \in rolling
  BY <1>4 DEF LoseReport
<1>5. ASSUME NEW j \in inHand, NEW r \in Result, ReportRead(j, r)
      PROVE  t \in rolling
  BY <1>5 DEF ReportRead
<1>6. ASSUME NEW s \in rolling, ReportCommit(s) PROVE t \in rolling
  BY <1>6 DEF ReportCommit
<1>7. ASSUME NEW s \in rolling, ReportRoll(s), t \notin rolling
      PROVE  /\ s.job = t.job /\ s.result = t.result /\ s.moved = t.moved
             /\ t.verdict = TaskVerdict([batch EXCEPT ![s.job] = s.result])
             /\ s.verdict = "none"
  <2>1. PICK v \in Verdict :
          /\ rolling' = (rolling \ {s}) \cup
               {[job |-> s.job, result |-> s.result, moved |-> s.moved,
                 verdict |-> v]}
          /\ v # "running" =>
               v = TaskVerdict([batch EXCEPT ![s.job] = s.result])
    BY <1>1, <1>7, RollMay
  <2>2. t = [job |-> s.job, result |-> s.result, moved |-> s.moved,
             verdict |-> v]
    BY <1>7, <2>1
  <2>3. s.verdict = "none"
    BY <1>7 DEF ReportRoll
  <2> QED
    BY <2>1, <2>2, <2>3
<1> QED
  BY <1>2, <1>3, <1>4, <1>5, <1>6, <1>7, RollingWriters

LEMMA VerdictStep == RollupInv /\ [Next]_vars => VerdictSound'
<1> SUFFICES ASSUME RollupInv, [Next]_vars, NEW t \in rolling',
                    t.verdict \in {"done", "error"}, NEW j \in created'
             PROVE  j = t.job \/ Over(j)' \/ FannedOut(j)
    BY DEF VerdictSound, FannedOut
<1>1. CASE j \notin created
  BY <1>1, AddedIsFannedOut
<1>2. CASE j \in created /\ t \in rolling
  BY <1>2, RollupLawful DEF RollupInv, VerdictSound
<1>3. CASE j \in created /\ t \notin rolling
  <2>1. PICK s \in rolling :
          /\ s.job = t.job
          /\ t.verdict = TaskVerdict([batch EXCEPT ![s.job] = s.result])
    BY <1>3, VerdictMay
  <2>2. s.job \in created /\ s.result \in Result
    BY DEF RollupInv, RollupTypeOK, FlowTypeOK, Call
  <2> QED
    BY <1>3, <2>1, <2>2, VerdictRead, RollupLawful
<1> QED
  BY <1>1, <1>2, <1>3
-----------------------------------------------------------------------------
(* The finalizer.                                                          *)

\* The second statement sees the table as the first has left it.
LEMMA FinalizerMay ==
  ASSUME RollupInv, [Next]_vars, finalizer' \in {"done", "error"}
  PROVE  \/ UNCHANGED <<finalizer, seals>>
         \/ /\ FinalizerSeal /\ UNCHANGED <<flowVars, batch, seals>>
            /\ finalizer' = TaskVerdict(SealedBatches)
<1>1. CASE FinalizerSeal
  BY <1>1 DEF FinalizerSeal
<1> QED
  BY <1>1, TickWriters
     DEF tickVars, FinalizerRead, FinalizerCommit, MonitorFail, MonitorRead

LEMMA FinalizerStep == RollupInv /\ [Next]_vars => FinalizerSound'
<1> SUFFICES ASSUME RollupInv, [Next]_vars, finalizer' \in {"done", "error"},
                    NEW j \in created'
             PROVE  Over(j)' \/ FannedOut(j)
    BY DEF FinalizerSound, FannedOut
<1>1. CASE j \notin created
  BY <1>1, AddedIsFannedOut
<1>2. CASE j \in created /\ finalizer' = finalizer
  BY <1>2, RollupLawful DEF RollupInv, FinalizerSound
<1>3. CASE j \in created /\ finalizer' = TaskVerdict(SealedBatches)
  <2>1. SealedBatches[j] \in Closed
    <3>1. DOMAIN SealedBatches = created
      BY DEF SealedBatches
    <3> QED
      BY <1>3, <3>1, VerdictType
  <2>2. Over(j)
    BY <1>3, <2>1
       DEF SealedBatches, RollupInv, SealedIsOver, SealsAreOver
  <2> QED
    BY <1>3, <2>2, RollupLawful
<1> QED
  BY <1>1, <1>2, <1>3, FinalizerMay

LEMMA SealsStep ==
  RollupInv /\ [Next]_vars =>
    /\ SealsAreOver'
    /\ DOMAIN seals' \subseteq created' /\ seals' \in [DOMAIN seals' -> Closed]
<1> SUFFICES ASSUME RollupInv, [Next]_vars
             PROVE  /\ SealsAreOver'
                    /\ DOMAIN seals' \subseteq created'
                    /\ seals' \in [DOMAIN seals' -> Closed]
    OBVIOUS
<1>1. CASE seals' = seals
  BY <1>1, RollupLawful DEF RollupInv, RollupTypeOK, SealsAreOver, RowsMay
<1>2. CASE FinalizerRead
  <2>1. seals' = [j \in Sealable |-> Seal(status[j])] /\ UNCHANGED flowVars
    BY <1>2 DEF FinalizerRead
  <2>2. DOMAIN seals' = Sealable /\ created' = created
    BY <2>1 DEF flowVars, created
  <2>3. seals' \in [Sealable -> Closed]
    BY <2>1, SealClosed
  <2>4. \A j \in Sealable : j \in created /\ Over(j) /\ Over(j)'
    BY <2>1 DEF Sealable, Over, flowVars
  <2> QED
    BY <2>2, <2>3, <2>4 DEF SealsAreOver
<1>3. CASE FinalizerCommit
  <2>1. seals' \in [{} -> Closed]
    BY <1>3 DEF FinalizerCommit, NoSeals
  <2> QED
    BY <2>1 DEF SealsAreOver
<1> QED
  BY <1>1, <1>2, <1>3, TickWriters
     DEF tickVars, FinalizerSeal, MonitorFail, MonitorRead

LEMMA RollupTypeStep == RollupInv /\ [Next]_vars => RollupTypeOK'
<1> SUFFICES ASSUME RollupInv, [Next]_vars PROVE RollupTypeOK'
    OBVIOUS
<1>0. RollupTypeOK
  BY DEF RollupInv
<1>1. FlowTypeOK' /\ created \subseteq created' /\ started \subseteq started'
  BY RollupLawful DEF FlowInv, RowsMay
<1>2. batch' \in [created' -> BatchStatus]
  BY <1>0, BatchType
<1>3. task' \in TaskStatus
  <2>1. task \in TaskStatus
    BY <1>0 DEF RollupTypeOK
  <2>2. ASSUME NEW t \in rolling, ReportCommit(t) PROVE task' \in TaskStatus
    <3>1. t.verdict \in Verdict
      BY <1>0, <2>2 DEF RollupTypeOK, Call, ReportCommit
    <3> QED
      BY <2>1, <2>2, <3>1, CloseType DEF ReportCommit
  <2>3. ASSUME NEW p \in fanning, FanOutFails(p) PROVE task' \in TaskStatus
    BY <2>1, <2>3, VerdictType, CloseType DEF FanOutFails
  <2>4. CASE FinalizerCommit
    BY <2>1, <2>4 DEF FinalizerCommit, Verdict, TaskStatus
  <2> QED
    BY <2>1, <2>2, <2>3, <2>4, TaskWriters DEF TaskStatus
<1>4. rolling' \subseteq Call'
  BY RollingStep
<1>5. fanning' \subseteq created'
  <2>1. fanning \subseteq created /\ \A t \in rolling : t.job \in created
    BY <1>0 DEF RollupTypeOK, FlowTypeOK, Call
  <2> QED
    BY <1>1, <2>1, FanOutMay
<1>6. doomed' \subseteq started'
  <2>1. doomed \subseteq started
    BY <1>0 DEF RollupTypeOK
  <2>2. doomed' \in {doomed, {}} \/ doomed' \subseteq started
    BY TickWriters DEF tickVars, FinalizerRead, FinalizerSeal,
                       FinalizerCommit, MonitorFail, MonitorRead
  <2> QED
    BY <1>1, <2>1, <2>2
<1>7. finalizer' \in {"idle", "read"} \cup Verdict
  <2>1. finalizer \in {"idle", "read"} \cup Verdict
    BY <1>0 DEF RollupTypeOK
  <2>2. CASE FinalizerSeal
    BY <2>2, VerdictType DEF FinalizerSeal, Verdict
  <2> QED
    BY <2>1, <2>2, TickWriters
       DEF tickVars, FinalizerRead, FinalizerCommit, MonitorFail, MonitorRead
<1>8. faults' \in 0 .. MaxFaults
  <2>1. MaxFaults \in Nat /\ faults \in 0 .. MaxFaults
    BY <1>0, FanOutAssumption DEF RollupTypeOK
  <2>2. faults' = faults \/ (faults > 0 /\ faults' = faults - 1)
    BY DEF Next, SetRunning, DependencyTick, FinalizerRead, FinalizerSeal,
           FinalizerCommit, NextJob, CancelJob, LoseReport, ReportRead,
           ReportRoll, ReportCommit, FanOutDone, FanOutFails, FanOutLost,
           MonitorRead, MonitorFail, vars
  <2> QED
    BY <2>1, <2>2
<1> QED
  BY <1>1, <1>2, <1>3, <1>4, <1>5, <1>6, <1>7, <1>8, SealsStep
     DEF RollupTypeOK
-----------------------------------------------------------------------------
(* Batches.                                                                *)

\* A closed batch: it was closed before, its job had ended, or ends now.
LEMMA SealedStep == RollupInv /\ [Next]_vars => SealedIsOver'
<1> SUFFICES ASSUME RollupInv, [Next]_vars,
                    NEW j \in created', batch'[j] \in Closed
             PROVE  Over(j)'
    BY DEF SealedIsOver
<1>0. /\ created \subseteq created' /\ batch \in [created -> BatchStatus]
      /\ \A i \in created : Over(i) => Over(i)'
      /\ \A i \in created : batch[i] \in Closed => Over(i)
  BY RollupLawful DEF RowsMay, RollupInv, RollupTypeOK, SealedIsOver
<1>1. ASSUME NEW i \in created, NextJob(i) PROVE Over(j)'
  <2>1. j \in created /\ batch[j] \in Closed
    BY <1>0, <1>1 DEF NextJob, Start, Closed, created
  <2> QED
    BY <1>0, <2>1
<1>2. ASSUME NEW t \in rolling, ReportCommit(t) PROVE Over(j)'
  <2>1. t.job \in created /\ t.result \in Result
    BY DEF RollupInv, RollupTypeOK, FlowTypeOK, Call
  <2>2. status' = [status EXCEPT ![t.job] = t.result] /\ created' = created
    BY <1>2 DEF ReportCommit, Report, created
  <2>3. CASE j = t.job
    BY <2>1, <2>2, <2>3
       DEF Result, Over, Ended, RollupInv, RollupTypeOK, FlowTypeOK
  <2>4. CASE j # t.job
    BY <1>0, <1>2, <2>2, <2>4 DEF ReportCommit
  <2> QED
    BY <2>3, <2>4
<1>3. ASSUME NEW p \in fanning, FanOutDone(p) PROVE Over(j)'
  <2>1. j \in created /\ batch[j] \in Closed
    BY <1>3 DEF FanOutDone, Closed
  <2> QED
    BY <1>0, <2>1
<1>4. ASSUME NEW p \in fanning, FanOutFails(p) PROVE Over(j)'
  <2>1. created' = created /\ batch' = [batch EXCEPT ![p] = "failed"]
    BY <1>4 DEF FanOutFails, flowVars, created
  <2>2. Over(p)
    BY DEF RollupInv, FanningIsOver
  <2> QED
    BY <1>0, <2>1, <2>2
<1>5. CASE FinalizerCommit
  <2>1. created' = created /\ batch' = SealedBatches
    BY <1>5 DEF FinalizerCommit, flowVars, created
  <2> QED
    BY <1>0, <2>1 DEF SealedBatches, RollupInv, SealsAreOver
<1>6. CASE UNCHANGED <<created, batch>>
  BY <1>0, <1>6
<1> QED
  BY <1>1, <1>2, <1>3, <1>4, <1>5, <1>6, BatchWriters
-----------------------------------------------------------------------------
(* The task.                                                               *)

LEMMA ClosedStep == RollupInv /\ [Next]_vars => ClosedIsOver'
<1> SUFFICES ASSUME RollupInv, [Next]_vars, TaskClosed', NEW j \in created'
             PROVE  Over(j)' \/ FannedOut(j)
    BY DEF ClosedIsOver, FannedOut
<1>1. CASE j \notin created
  BY <1>1, AddedIsFannedOut
<1>2. CASE j \in created /\ TaskClosed
  BY <1>2, RollupLawful DEF RollupInv, ClosedIsOver
<1>3. CASE j \in created /\ ~TaskClosed
  <2>1. ASSUME NEW t \in rolling, ReportCommit(t)
        PROVE  Over(j)' \/ FannedOut(j)
    <3>1. t.verdict \in {"done", "error"}
      BY <1>3, <2>1 DEF ReportCommit, Close, TaskClosed
    <3>2. t.job \in created /\ t.result \in Result
      BY DEF RollupInv, RollupTypeOK, FlowTypeOK, Call
    <3>3. status' = [status EXCEPT ![t.job] = t.result]
      BY <2>1 DEF ReportCommit, Report
    <3>4. Over(t.job)'
      BY <3>2, <3>3 DEF RollupInv, RollupTypeOK, FlowTypeOK, Result, Over,
                        Ended
    <3> QED
      BY <1>3, <3>1, <3>4, RollupLawful DEF RollupInv, VerdictSound
  <2>2. ASSUME NEW p \in fanning, FanOutFails(p)
        PROVE  Over(j)' \/ FannedOut(j)
    <3>1. TaskVerdict(batch') # "running"
      BY <1>3, <2>2 DEF FanOutFails, Close, TaskClosed
    <3>2. DOMAIN batch' = created'
      BY BatchType DEF RollupInv
    <3>3. batch'[j] \in Closed
      BY <3>1, <3>2, VerdictType
    <3> QED
      BY <3>3, SealedStep DEF SealedIsOver
  <2>3. CASE FinalizerCommit
    <3>1. finalizer \in {"done", "error"}
      BY <1>3, <2>3 DEF FinalizerCommit, Verdict, TaskClosed
    <3> QED
      BY <1>3, <3>1, RollupLawful DEF RollupInv, FinalizerSound
  <2> QED
    BY <1>3, <2>1, <2>2, <2>3, TaskWriters DEF TaskClosed
<1> QED
  BY <1>1, <1>2, <1>3
-----------------------------------------------------------------------------
(* Fan-outs.                                                               *)

LEMMA AfterReportStep == RollupInv /\ [Next]_vars => FanOutAfterReport'
<1> SUFFICES ASSUME RollupInv, [Next]_vars, NEW j \in Jobs,
                    j \in inHand' \/ j \notin started'
             PROVE  j \notin fanning' /\ DOMAIN FanOut[j] \cap created' = {}
    BY DEF FanOutAfterReport
<1>1. j \in inHand \/ j \notin started
  <2>1. started \subseteq started'
    BY RollupLawful DEF RowsMay
  <2>2. CASE j \notin started'
    BY <2>1, <2>2
  <2>3. CASE j \in inHand' /\ j \notin inHand
    <3>1. PICK i \in created : NextJob(i)
      BY <2>3, RollingWriters
         DEF LoseReport, Drop, ReportRead, ReportRoll, ReportCommit, Report,
             flowVars
    <3>2. j = i /\ status[i] = "ready"
      BY <2>3, <3>1 DEF NextJob, Start
    <3> QED
      BY <3>1, <3>2 DEF RollupInv, FlowInv, StartedPast
  <2> QED
    BY <2>2, <2>3
<1>2. j \notin fanning /\ DOMAIN FanOut[j] \cap created = {}
  BY <1>1 DEF RollupInv, FanOutAfterReport
<1>3. ASSUME NEW t \in rolling, ReportCommit(t) PROVE j # t.job
  <2>1. t.job \in inHand /\ t.job \notin inHand' /\ t.job \in started'
    BY <1>3 DEF ReportCommit, Report, RollupInv, RollupTypeOK, FlowTypeOK
  <2> QED
    BY <2>1
<1>4. ASSUME NEW p \in fanning
      PROVE  DOMAIN FanOut[j] \cap DOMAIN FanOut[p] = {}
  <2>1. p \in Jobs /\ p # j
    BY <1>2 DEF RollupInv, RollupTypeOK, FlowTypeOK
  <2> QED
    BY <2>1, FanOutAssumption
<1> QED
  BY <1>2, <1>3, <1>4, FanOutMay

LEMMA FanOutOnceStep == RollupInv /\ [Next]_vars => FanOutOnce'
<1> SUFFICES ASSUME RollupInv, [Next]_vars, NEW j \in fanning'
             PROVE  DOMAIN FanOut[j] \cap created' = {}
    BY DEF FanOutOnce
<1>1. fanning \subseteq Jobs
      /\ \A t \in rolling : t.job \in inHand /\ t.job \in Jobs
  BY DEF RollupInv, RollupTypeOK, FlowTypeOK, Call
<1>2. CASE j \notin fanning
  <2>1. PICK t \in rolling : j = t.job /\ created' = created
    BY <1>2, FanOutMay
  <2> QED
    BY <1>1, <2>1 DEF RollupInv, FanOutAfterReport
<1>3. CASE j \in fanning
  <2>1. DOMAIN FanOut[j] \cap created = {}
    BY <1>3 DEF RollupInv, FanOutOnce
  <2>2. ASSUME NEW p \in fanning, fanning' = fanning \ {p}
        PROVE  DOMAIN FanOut[j] \cap DOMAIN FanOut[p] = {}
    BY <1>1, <1>3, <2>2, FanOutAssumption
  <2> QED
    BY <2>1, <2>2, FanOutMay
<1> QED
  BY <1>2, <1>3

LEMMA FanningStep == RollupInv /\ [Next]_vars => FanningIsOver'
<1> SUFFICES ASSUME RollupInv, [Next]_vars, NEW j \in fanning' PROVE Over(j)'
    BY DEF FanningIsOver
<1>1. CASE j \in fanning
  <2>1. j \in created /\ Over(j)
    BY <1>1 DEF RollupInv, RollupTypeOK, FanningIsOver
  <2> QED
    BY <2>1, RollupLawful
<1>2. CASE j \notin fanning
  <2>1. PICK t \in rolling : j = t.job /\ ReportCommit(t)
    BY <1>2, FanOutMay
  <2>2. j \in created /\ t.result \in Result
        /\ status \in [created -> JobStatus]
    BY <2>1 DEF RollupInv, RollupTypeOK, FlowTypeOK, Call
  <2>3. status'[j] = t.result
    BY <2>1, <2>2 DEF ReportCommit, Report
  <2> QED
    BY <2>2, <2>3 DEF Over, Result, Ended
<1> QED
  BY <1>1, <1>2
-----------------------------------------------------------------------------
(* The invariant, and what follows from it.                                *)

LEMMA RollupStepInv == RollupInv /\ [Next]_vars => RollupInv'
BY RollupLawful, RollupTypeStep, RollingStep, SealedStep, SealsStep,
   FanningStep, VerdictStep, FinalizerStep, ClosedStep, AfterReportStep,
   FanOutOnceStep
   DEF RollupInv

LEMMA RollupInvariant == Spec => []RollupInv
BY RollupInitInv, RollupStepInv, PTL DEF Spec

\* The tables, calls and transactions keep their types.
THEOREM RollupTypeCorrect == Spec => []RollupTypeOK
<1>1. RollupInv => RollupTypeOK
  BY DEF RollupInv
<1> QED
  BY <1>1, RollupInvariant, PTL

\* Whoever closes a task (a report whose verdict others have overtaken, a
\* failed fan-out, the finalizer), every job that expand created has ended.
THEOREM ClosedTasksAreOver == Spec => []ClosedIsOver
<1>1. RollupInv => ClosedIsOver
  BY DEF RollupInv
<1> QED
  BY <1>1, RollupInvariant, PTL

\* A batch in a final status has an ended job and never opens again; only
\* its job's late report, its fan-out's failure or a finalizer that had read
\* it before can rewrite how it ended.
THEOREM SealedForEver == Spec => SealedStaysSealed
<1> DEFINE Stays ==
      \A j \in created : batch[j] \in Closed =>
        /\ Over(j)
        /\ batch'[j] \in Closed
        /\ batch'[j] # batch[j] => j \in inHand \cup fanning \cup DOMAIN seals
<1>1. ASSUME RollupInv, [Next]_vars, NEW j \in created, batch[j] \in Closed
      PROVE  /\ Over(j)
             /\ batch'[j] \in Closed
             /\ batch'[j] # batch[j]
                  => j \in inHand \cup fanning \cup DOMAIN seals
  <2> DEFINE Kept == /\ batch'[j] \in Closed
                     /\ batch'[j] # batch[j]
                          => j \in inHand \cup fanning \cup DOMAIN seals
  <2>1. Over(j)
    BY <1>1 DEF RollupInv, SealedIsOver
  <2>2. /\ batch \in [created -> BatchStatus]
        /\ seals \in [DOMAIN seals -> Closed]
        /\ \A t \in rolling : t.job \in inHand /\ t.result \in Result
    BY <1>1 DEF RollupInv, RollupTypeOK, Call
  <2>3. ASSUME NEW i \in created, NextJob(i) PROVE Kept
    BY <1>1, <2>2, <2>3 DEF NextJob, Closed
  <2>4. ASSUME NEW t \in rolling, ReportCommit(t) PROVE Kept
    BY <1>1, <2>2, <2>4 DEF ReportCommit, Closed, Result
  <2>5. ASSUME NEW p \in fanning, FanOutDone(p) PROVE Kept
    <3>1. j \in created'
      BY <1>1, RollupLawful
    <3> QED
      BY <1>1, <2>5, <3>1 DEF FanOutDone
  <2>6. ASSUME NEW p \in fanning, FanOutFails(p) PROVE Kept
    BY <1>1, <2>2, <2>6 DEF FanOutFails, Closed
  <2>7. CASE FinalizerCommit
    BY <1>1, <2>1, <2>2, <2>7 DEF FinalizerCommit, SealedBatches
  <2>8. CASE UNCHANGED <<created, batch>>
    BY <1>1, <2>1, <2>8
  <2>9. Kept
    BY <1>1, <2>3, <2>4, <2>5, <2>6, <2>7, <2>8, BatchWriters
  <2> QED
    BY <2>1, <2>9
<1>2. RollupInv /\ [Next]_vars => [Stays]_vars
  BY <1>1
<1> QED
  BY <1>2, RollupInvariant, PTL DEF Spec, SealedStaysSealed

\* No call to expandFanOut meets rows of an earlier one for the same batch.
THEOREM FanOutHappensOnce == Spec => []FanOutOnce
<1>1. RollupInv => FanOutOnce
  BY DEF RollupInv
<1> QED
  BY <1>1, RollupInvariant, PTL

\* The jobs of a task with fan-outs and overlapping reports implement the
\* abstract specification of jobs, so what was shown of it holds here.
THEOREM RollupImplementsFlow == Spec => FlowSpec
<1>1. Init => FlowInit
  BY DEF Init
<1>2. RollupInv /\ [Next]_vars => [FlowNext]_flowVars
  BY RollupFlowStep DEF RollupInv
<1> QED
  BY <1>1, <1>2, RollupInvariant, PTL DEF Spec, FlowSpec

\* The dependency gate holds in a task whose jobs fan out: each release finds
\* the parents as the edges ask, the added ones among them.
THEOREM FannedOutGateHolds == Spec => FlowGate
BY RollupImplementsFlow, FlowGateHolds
-----------------------------------------------------------------------------
(* What a done task has earned.                                            *)

Exempt(j) == HasFanOut(j) \/ FannedOut(j) \/ j \in Cancellable

\* The monitor and the finalizer are never open together.
TicksApart ==
  /\ finalizer # "idle" => doomed = {}
  /\ finalizer = "idle" => DOMAIN seals = {}

\* A job in hand runs or was given up, unless an operator cancelled it.
HandedStatus ==
  \A j \in inHand : status[j] \in {"running", "failed"} \/ j \in Cancellable

\* So a batch that is closed well gets no report any more, nor does one that
\* the finalizer will close well, and a success always moves its batch.
ClosedWell ==
  \A j \in created :
    batch[j] \in {"success", "cancelled"} /\ j \in inHand => j \in Cancellable

SealsWell ==
  \A j \in DOMAIN seals :
    seals[j] \in {"success", "cancelled"} /\ j \in inHand => j \in Cancellable

SuccessMoves ==
  \A t \in rolling : t.result = "success" => t.moved \/ t.job \in Cancellable

NoneMoves == \A t \in rolling : t.verdict = "none" => t.moved

\* A batch that was closed well after the finalizer read it is the success of
\* its job, and a success that the monitor will write over moved its batch.
SealsOvertaken ==
  \A j \in DOMAIN seals :
    batch[j] \in {"success", "cancelled"} =>
      status[j] = "success" \/ j \in Cancellable

DoomedWell ==
  \A j \in doomed : status[j] = "success" => batch[j] = "success" \/ Exempt(j)

\* A verdict that is done is still earned when it is committed: no report of
\* another batch can turn it into a failure, and the finalizer only where a
\* job was a success all the same.
VerdictEarned ==
  \A t \in rolling :
    t.verdict = "done" =>
      /\ t.result # "failed" /\ t.moved
      /\ \A j \in created :
           \/ j = t.job \/ Exempt(j)
           \/ /\ j \notin inHand
              /\ batch[j] \in {"success", "cancelled"} \/ status[j] = "success"

FinalizerEarned ==
  finalizer = "done" =>
    \A j \in created :
      \/ Exempt(j)
      \/ SealedBatches[j] \in {"success", "cancelled"} /\ j \notin inHand

FanningHas == \A j \in fanning : HasFanOut(j)

EarnedInv ==
  /\ RollupInv /\ TicksApart /\ HandedStatus
  /\ ClosedWell /\ SealsWell /\ SuccessMoves /\ NoneMoves
  /\ SealsOvertaken /\ DoomedWell
  /\ VerdictEarned /\ FinalizerEarned /\ FanningHas

LEMMA EarnedInit == Init => EarnedInv
<1> SUFFICES ASSUME Init PROVE EarnedInv
    OBVIOUS
<1>1. inHand = {} /\ rolling = {} /\ fanning = {} /\ doomed = {}
      /\ finalizer = "idle" /\ DOMAIN seals = {}
  BY DEF Init, FlowInit, NoSeals
<1>2. TicksApart /\ HandedStatus /\ ClosedWell /\ SealsWell
  BY <1>1 DEF TicksApart, HandedStatus, ClosedWell, SealsWell
<1>3. SuccessMoves /\ NoneMoves /\ SealsOvertaken /\ DoomedWell
  BY <1>1 DEF SuccessMoves, NoneMoves, SealsOvertaken, DoomedWell
<1>4. VerdictEarned /\ FinalizerEarned /\ FanningHas
  BY <1>1 DEF VerdictEarned, FinalizerEarned, FanningHas
<1> QED
  BY <1>2, <1>3, <1>4, RollupInitInv DEF EarnedInv

LEMMA TicksApartStep == EarnedInv /\ [Next]_vars => TicksApart'
<1> SUFFICES ASSUME EarnedInv, [Next]_vars PROVE TicksApart'
    OBVIOUS
<1>1. TicksApart /\ DOMAIN NoSeals = {}
  BY DEF EarnedInv, NoSeals
<1>2. CASE UNCHANGED tickVars
  BY <1>1, <1>2 DEF TicksApart, tickVars
<1>3. CASE FinalizerRead
  BY <1>3 DEF TicksApart, FinalizerRead, TickIdle
<1>4. CASE FinalizerSeal
  <2>1. finalizer' # "idle"
    BY <1>4, VerdictType DEF FinalizerSeal, Verdict
  <2> QED
    BY <1>1, <1>4, <2>1 DEF TicksApart, FinalizerSeal
<1>5. CASE FinalizerCommit
  BY <1>1, <1>5 DEF TicksApart, FinalizerCommit
<1>6. CASE MonitorFail
  BY <1>1, <1>6 DEF TicksApart, MonitorFail
<1>7. ASSUME NEW S \in SUBSET started, MonitorRead(S) PROVE TicksApart'
  BY <1>1, <1>7 DEF TicksApart, MonitorRead, TickIdle
<1> QED
  BY <1>2, <1>3, <1>4, <1>5, <1>6, <1>7, TickWriters

LEMMA HandedStep == EarnedInv /\ [Next]_vars => HandedStatus'
<1> SUFFICES ASSUME EarnedInv, [Next]_vars, NEW j \in inHand',
                    j \notin Cancellable
             PROVE  status'[j] \in {"running", "failed"}
    BY DEF HandedStatus
<1> USE DEF EarnedInv, RollupInv, RollupTypeOK, FlowInv, FlowTypeOK, HandedStatus
<1>1. ASSUME NEW i \in created, NextJob(i)
      PROVE  status'[j] \in {"running", "failed"}
  BY <1>1 DEF NextJob, Start
<1>2. ASSUME NEW t \in rolling, ReportCommit(t)
      PROVE  status'[j] \in {"running", "failed"}
  BY <1>2 DEF ReportCommit, Report
<1>3. CASE DependencyTick
  <2>1. j \in inHand /\ status[j] # "waiting"
    BY <1>3 DEF DependencyTick, Decide, StartedPast
  <2> QED
    BY <1>3, <2>1 DEF DependencyTick, Decide
<1>4. ASSUME NEW i \in created, CancelJob(i)
      PROVE  status'[j] \in {"running", "failed"}
  BY <1>4 DEF CancelJob, Cancel
<1>5. ASSUME NEW i \in inHand, LoseReport(i)
      PROVE  status'[j] \in {"running", "failed"}
  BY <1>5 DEF LoseReport, Drop
<1>6. ASSUME NEW p \in fanning, FanOutDone(p)
      PROVE  status'[j] \in {"running", "failed"}
  BY <1>6 DEF FanOutDone, Create
<1>7. CASE MonitorFail
  BY <1>7 DEF MonitorFail, GiveUp
<1>8. CASE UNCHANGED flowVars
  BY <1>8 DEF flowVars
<1> QED
  BY <1>1, <1>2, <1>3, <1>4, <1>5, <1>6, <1>7, <1>8, FlowWriters

-----------------------------------------------------------------------------
\* What has ended is handed out to nobody.
LEMMA NotHanded ==
  ASSUME EarnedInv, [Next]_vars, NEW j \in created, Over(j), j \notin inHand
  PROVE  j \notin inHand'
<1>1. ASSUME NEW i \in created, NextJob(i) PROVE j \notin inHand'
  <2>1. status[i] = "ready" /\ inHand' \in {inHand, inHand \cup {i}}
    BY <1>1 DEF NextJob, Start
  <2>2. i # j
    BY <2>1 DEF Over, Ended
  <2> QED
    BY <2>1, <2>2
<1> QED
  BY <1>1, RollingWriters
     DEF LoseReport, Drop, ReportRead, ReportRoll, ReportCommit, Report,
         flowVars

\* The batch of a job that ended and was reported, and its status if that is
\* success: the finalizer and the monitor alone write over them.
LEMMA QuietBatch ==
  ASSUME EarnedInv, [Next]_vars, NEW j \in created, Over(j), j \notin inHand,
         ~HasFanOut(j)
  PROVE  \/ batch'[j] = batch[j]
         \/ FinalizerCommit /\ batch'[j] = SealedBatches[j]
<1>1. batch \in [created -> BatchStatus]
  BY DEF EarnedInv, RollupInv, RollupTypeOK
<1>2. ASSUME NEW i \in created, NextJob(i) PROVE batch'[j] = batch[j]
  <2>1. i # j
    BY <1>2 DEF NextJob, Start, Over, Ended
  <2> QED
    BY <1>1, <1>2, <2>1 DEF NextJob
<1>3. ASSUME NEW t \in rolling, ReportCommit(t) PROVE batch'[j] = batch[j]
  BY <1>1, <1>3 DEF ReportCommit, Report
<1>4. ASSUME NEW p \in fanning, FanOutDone(p) PROVE batch'[j] = batch[j]
  <2>1. j \in created'
    BY RollupLawful DEF EarnedInv
  <2> QED
    BY <1>4, <2>1 DEF FanOutDone
<1>5. ASSUME NEW p \in fanning, FanOutFails(p) PROVE batch'[j] = batch[j]
  <2>1. p # j
    BY DEF EarnedInv, FanningHas
  <2> QED
    BY <1>1, <1>5, <2>1 DEF FanOutFails
<1>6. CASE FinalizerCommit
  BY <1>6 DEF FinalizerCommit
<1>7. CASE UNCHANGED <<created, batch>>
  BY <1>7
<1> QED
  BY <1>2, <1>3, <1>4, <1>5, <1>6, <1>7, BatchWriters

LEMMA QuietSuccess ==
  ASSUME EarnedInv, [Next]_vars, NEW j \in created, status[j] = "success",
         j \notin Cancellable, j \notin doomed \/ ~MonitorFail
  PROVE  status'[j] = "success" /\ j \notin inHand
<1>1. j \notin inHand
  BY DEF EarnedInv, HandedStatus
<1>2. status \in [created -> JobStatus]
  BY DEF EarnedInv, RollupInv, RollupTypeOK, FlowTypeOK
<1>3. CASE UNCHANGED flowVars
  BY <1>1, <1>3 DEF flowVars
<1>4. CASE DependencyTick
  BY <1>1, <1>4 DEF DependencyTick, Decide
<1>5. CASE MonitorFail
  BY <1>1, <1>5 DEF MonitorFail, GiveUp
<1>6. ASSUME NEW i \in created, NextJob(i) \/ CancelJob(i)
      PROVE  status'[j] = "success"
  BY <1>2, <1>6 DEF NextJob, Start, CancelJob, Cancel
<1>7. ASSUME NEW i \in inHand, LoseReport(i) PROVE status'[j] = "success"
  BY <1>7 DEF LoseReport, Drop
<1>8. ASSUME NEW t \in rolling, ReportCommit(t) PROVE status'[j] = "success"
  BY <1>1, <1>2, <1>8 DEF ReportCommit, Report
<1>9. ASSUME NEW p \in fanning, FanOutDone(p) PROVE status'[j] = "success"
  BY <1>9 DEF FanOutDone, Create
<1>10. status'[j] = "success"
  BY <1>1, <1>3, <1>4, <1>5, <1>6, <1>7, <1>8, <1>9, FlowWriters
<1> QED
  BY <1>1, <1>10

LEMMA ClosedWellStep == EarnedInv /\ [Next]_vars => ClosedWell'
<1> SUFFICES ASSUME EarnedInv, [Next]_vars, NEW j \in created',
                    batch'[j] \in {"success", "cancelled"}, j \in inHand',
                    j \notin Cancellable
             PROVE  FALSE
    BY DEF ClosedWell
<1>1. /\ batch \in [created -> BatchStatus] /\ inHand \subseteq created
      /\ \A i \in created : batch[i] \in Closed => Over(i)
      /\ ClosedWell /\ SealsWell
  BY DEF EarnedInv, RollupInv, RollupTypeOK, FlowTypeOK, SealedIsOver
<1>2. CASE created' = created /\ batch' = batch /\ inHand' \subseteq inHand
  BY <1>1, <1>2 DEF ClosedWell
<1>3. ASSUME NEW i \in created, NextJob(i) PROVE FALSE
  <2>1. /\ status[i] = "ready" /\ inHand' \subseteq inHand \cup {i}
        /\ batch' = [batch EXCEPT ![i] = IF @ = "pending" THEN "running" ELSE @]
    BY <1>3 DEF NextJob, Start
  <2>2. batch[i] \notin Closed
    BY <1>1, <2>1 DEF Over, Ended
  <2>3. j \in created
    BY <1>1, <2>1
  <2>4. j # i
    BY <1>1, <2>1, <2>2 DEF Closed
  <2> QED
    BY <1>1, <2>1, <2>3, <2>4 DEF ClosedWell
<1>4. ASSUME NEW t \in rolling, ReportCommit(t) PROVE FALSE
  <2>1. inHand' = inHand \ {t.job}
    BY <1>4 DEF ReportCommit, Report
  <2>2. batch'[j] = batch[j] /\ j \in created
    BY <1>1, <1>4, <2>1 DEF ReportCommit
  <2> QED
    BY <1>1, <2>1, <2>2 DEF ClosedWell
<1>5. ASSUME NEW p \in fanning, FanOutDone(p) PROVE FALSE
  <2>1. inHand' = inHand /\ j \in created /\ batch'[j] = batch[j]
    BY <1>5 DEF FanOutDone, Create
  <2> QED
    BY <1>1, <2>1 DEF ClosedWell
<1>6. ASSUME NEW p \in fanning, FanOutFails(p) PROVE FALSE
  <2>1. inHand' = inHand /\ created' = created
    BY <1>6 DEF FanOutFails, flowVars, created
  <2>2. batch'[j] = batch[j]
    BY <1>1, <1>6, <2>1 DEF FanOutFails
  <2> QED
    BY <1>1, <2>1, <2>2 DEF ClosedWell
<1>7. CASE FinalizerCommit
  <2>1. inHand' = inHand /\ created' = created /\ batch' = SealedBatches
    BY <1>7 DEF FinalizerCommit, flowVars, created
  <2> QED
    BY <1>1, <2>1 DEF SealedBatches, ClosedWell, SealsWell
<1>8. CASE UNCHANGED <<created, batch>>
  <2>1. \/ inHand' \subseteq inHand
        \/ \E i \in created : NextJob(i)
    BY RollingWriters DEF LoseReport, Drop, ReportRead, ReportRoll,
                          ReportCommit, Report, flowVars
  <2> QED
    BY <1>2, <1>3, <1>8, <2>1
<1> QED
  BY <1>3, <1>4, <1>5, <1>6, <1>7, <1>8, BatchWriters

LEMMA SealsWellStep == EarnedInv /\ [Next]_vars => SealsWell'
<1> SUFFICES ASSUME EarnedInv, [Next]_vars, NEW j \in DOMAIN seals',
                    seals'[j] \in {"success", "cancelled"},
                    j \notin Cancellable
             PROVE  j \notin inHand'
    BY DEF SealsWell
<1>1. CASE seals' = seals
  <2>1. j \in created /\ Over(j) /\ j \notin inHand
    BY <1>1 DEF EarnedInv, RollupInv, RollupTypeOK, SealsAreOver, SealsWell
  <2> QED
    BY <2>1, NotHanded
<1>2. CASE FinalizerRead
  <2>1. j \in Sealable /\ seals'[j] = Seal(status[j]) /\ inHand' = inHand
    BY <1>2 DEF FinalizerRead, flowVars
  <2>2. status[j] \notin {"running", "failed"}
    BY <2>1 DEF Seal
  <2> QED
    BY <2>1, <2>2 DEF EarnedInv, HandedStatus
<1>3. CASE FinalizerCommit
  BY <1>3 DEF FinalizerCommit, NoSeals
<1> QED
  BY <1>1, <1>2, <1>3, TickWriters
     DEF tickVars, FinalizerSeal, MonitorFail, MonitorRead

LEMMA SuccessMovesStep == EarnedInv /\ [Next]_vars => SuccessMoves'
<1> SUFFICES ASSUME EarnedInv, [Next]_vars, NEW t \in rolling',
                    t.result = "success", t.job \notin Cancellable
             PROVE  t.moved
    BY DEF SuccessMoves
<1>1. rolling \subseteq Call /\ SuccessMoves
  BY DEF EarnedInv, RollupInv, RollupTypeOK
<1>2. CASE t \in rolling
  BY <1>1, <1>2 DEF SuccessMoves
<1>3. ASSUME NEW j \in inHand, NEW r \in Result, ReportRead(j, r),
             t \notin rolling
      PROVE  t.moved
  <2>1. t.job = j /\ t.result = r /\ t.moved = (batch[j] # r)
    BY <1>3 DEF ReportRead
  <2>2. batch[j] # "success"
    BY <2>1 DEF EarnedInv, ClosedWell, RollupInv, RollupTypeOK, FlowTypeOK
  <2> QED
    BY <2>1, <2>2
<1>4. ASSUME NEW s \in rolling, ReportRoll(s), t \notin rolling PROVE t.moved
  <2>1. PICK v : rolling' = (rolling \ {s}) \cup
               {[job |-> s.job, result |-> s.result, moved |-> s.moved,
                 verdict |-> v]}
    BY <1>1, <1>4, RollMay
  <2>2. t = [job |-> s.job, result |-> s.result, moved |-> s.moved,
             verdict |-> v]
    BY <1>4, <2>1
  <2>3. t.job = s.job /\ t.result = s.result /\ t.moved = s.moved
    BY <2>2
  <2> QED
    BY <1>1, <2>3 DEF SuccessMoves
<1>5. \/ t \in rolling
      \/ \E j \in inHand, r \in Result : ReportRead(j, r)
      \/ \E s \in rolling : ReportRoll(s)
  BY RollingWriters DEF NextJob, LoseReport, ReportCommit
<1> QED
  BY <1>2, <1>3, <1>4, <1>5

LEMMA NoneMovesStep == EarnedInv /\ [Next]_vars => NoneMoves'
<1> SUFFICES ASSUME EarnedInv, [Next]_vars, NEW t \in rolling',
                    t.verdict = "none"
             PROVE  t.moved
    BY DEF NoneMoves
<1>1. rolling \subseteq Call /\ NoneMoves
  BY DEF EarnedInv, RollupInv, RollupTypeOK
<1>2. CASE t \in rolling
  BY <1>1, <1>2 DEF NoneMoves
<1>3. ASSUME NEW j \in inHand, NEW r \in Result, ReportRead(j, r),
             t \notin rolling
      PROVE  t.moved
  <2>1. t = [job |-> j, result |-> r, moved |-> batch[j] # r,
             verdict |-> IF batch[j] # r THEN "none" ELSE "running"]
    BY <1>3 DEF ReportRead
  <2>2. batch[j] # r
    BY <2>1
  <2>3. t.moved = (batch[j] # r)
    BY <2>1
  <2> QED
    BY <2>2, <2>3
<1>4. ASSUME NEW s \in rolling, ReportRoll(s), t \notin rolling PROVE FALSE
  <2>1. PICK v \in Verdict : rolling' = (rolling \ {s}) \cup
               {[job |-> s.job, result |-> s.result, moved |-> s.moved,
                 verdict |-> v]}
    BY <1>1, <1>4, RollMay
  <2>2. t.verdict = v
    BY <1>4, <2>1
  <2> QED
    BY <2>2 DEF Verdict
<1> QED
  BY <1>2, <1>3, <1>4, RollingWriters DEF NextJob, LoseReport, ReportCommit

LEMMA OvertakenStep == EarnedInv /\ [Next]_vars => SealsOvertaken'
<1> SUFFICES ASSUME EarnedInv, [Next]_vars, NEW j \in DOMAIN seals',
                    batch'[j] \in {"success", "cancelled"},
                    j \notin Cancellable
             PROVE  status'[j] = "success"
    BY DEF SealsOvertaken
<1>1. CASE FinalizerRead
  <2>1. j \in Sealable /\ batch' = batch
    BY <1>1 DEF FinalizerRead
  <2> QED
    BY <2>1 DEF Sealable, Closed
<1>2. CASE FinalizerCommit
  BY <1>2 DEF FinalizerCommit, NoSeals
<1>3. CASE seals' = seals /\ ~FinalizerCommit
  <2>1. j \in DOMAIN seals /\ j \in created /\ Over(j)
    BY <1>3 DEF EarnedInv, RollupInv, RollupTypeOK, SealsAreOver
  <2>2. doomed = {}
    BY <2>1 DEF EarnedInv, TicksApart
  <2>3. CASE batch[j] \in {"success", "cancelled"}
    BY <2>1, <2>2, <2>3, QuietSuccess DEF EarnedInv, SealsOvertaken
  <2>4. CASE batch[j] \notin {"success", "cancelled"}
    <3>1. batch \in [created -> BatchStatus]
          /\ status \in [created -> JobStatus]
      BY DEF EarnedInv, RollupInv, RollupTypeOK, FlowTypeOK
    <3>2. ASSUME NEW i \in created, NextJob(i) PROVE FALSE
      BY <2>1, <2>4, <3>1, <3>2 DEF NextJob
    <3>3. ASSUME NEW t \in rolling, ReportCommit(t)
          PROVE  status'[j] = "success"
      <4>1. t.job = j /\ batch'[j] = t.result
        BY <2>1, <2>4, <3>1, <3>3 DEF ReportCommit
      <4>2. t.result = "success"
        BY <4>1 DEF EarnedInv, RollupInv, RollupTypeOK, Call, Result
      <4> QED
        BY <2>1, <3>1, <3>3, <4>1, <4>2 DEF ReportCommit, Report
    <3>4. ASSUME NEW p \in fanning, FanOutDone(p) PROVE FALSE
      <4>1. j \in created'
        BY <2>1, RollupLawful DEF EarnedInv
      <4> QED
        BY <2>1, <2>4, <3>4, <4>1 DEF FanOutDone
    <3>5. ASSUME NEW p \in fanning, FanOutFails(p) PROVE FALSE
      BY <2>1, <2>4, <3>1, <3>5 DEF FanOutFails
    <3> QED
      BY <1>3, <2>4, <3>2, <3>3, <3>4, <3>5, BatchWriters
  <2> QED
    BY <2>3, <2>4
<1> QED
  BY <1>1, <1>2, <1>3, TickWriters
     DEF tickVars, FinalizerSeal, MonitorFail, MonitorRead

LEMMA DoomedWellStep == EarnedInv /\ [Next]_vars => DoomedWell'
<1> SUFFICES ASSUME EarnedInv, [Next]_vars, NEW j \in doomed',
                    status'[j] = "success", ~Exempt(j)
             PROVE  batch'[j] = "success"
    BY DEF DoomedWell, Exempt, HasFanOut, FannedOut
<1>1. ASSUME NEW S \in SUBSET started, MonitorRead(S) PROVE FALSE
  <2>1. j \in S /\ status' = status /\ status[j] = "running"
    BY <1>1 DEF MonitorRead, flowVars
  <2> QED
    BY <2>1
<1>2. CASE doomed' = {}
  BY <1>2
<1>3. CASE doomed' = doomed /\ doomed # {}
  <2>1. j \in doomed /\ j \in created /\ ~FinalizerCommit /\ ~MonitorFail
    BY <1>3 DEF EarnedInv, TicksApart, RollupInv, RollupTypeOK, FlowTypeOK,
                FinalizerCommit, Verdict, MonitorFail
  <2>2. CASE status[j] = "success"
    <3>1. batch[j] = "success" /\ Over(j) /\ j \notin inHand
      BY <2>1, <2>2
         DEF EarnedInv, DoomedWell, HandedStatus, Over, Ended, Exempt
    <3> QED
      BY <2>1, <3>1, QuietBatch DEF Exempt
  <2>3. CASE status[j] # "success"
    <3>1. status \in [created -> JobStatus]
          /\ batch \in [created -> BatchStatus]
      BY DEF EarnedInv, RollupInv, RollupTypeOK, FlowTypeOK
    <3>2. PICK t \in rolling : ReportCommit(t) /\ t.job = j
                               /\ t.result = "success"
      <4>1. ASSUME NEW t \in rolling, ReportCommit(t)
            PROVE  t.job = j /\ t.result = "success"
        BY <2>1, <2>3, <3>1, <4>1 DEF ReportCommit, Report
      <4>2. ~DependencyTick
        BY <2>1, <2>3 DEF DependencyTick, Decide, Decided, created
      <4>3. ASSUME NEW i \in created, NextJob(i) \/ CancelJob(i) PROVE FALSE
        BY <2>1, <2>3, <3>1, <4>3 DEF NextJob, Start, CancelJob, Cancel
      <4>4. ASSUME NEW i \in inHand, LoseReport(i) PROVE FALSE
        BY <2>3, <4>4 DEF LoseReport, Drop
      <4>5. ASSUME NEW p \in fanning, FanOutDone(p) PROVE FALSE
        BY <2>1, <2>3, <4>5 DEF FanOutDone, Create
      <4>6. ~UNCHANGED flowVars
        BY <2>3 DEF flowVars
      <4> QED
        BY <2>1, <4>1, <4>2, <4>3, <4>4, <4>5, <4>6, FlowWriters
    <3>3. t.moved
      BY <3>2 DEF EarnedInv, SuccessMoves, Exempt
    <3> QED
      BY <2>1, <3>1, <3>2, <3>3 DEF ReportCommit
  <2> QED
    BY <2>2, <2>3
<1>4. \/ doomed' = {}
      \/ doomed' = doomed
      \/ \E S \in SUBSET started : MonitorRead(S)
  BY TickWriters
     DEF tickVars, FinalizerRead, FinalizerSeal, FinalizerCommit, MonitorFail
<1> QED
  BY <1>1, <1>2, <1>3, <1>4

LEMMA FanningHasStep == EarnedInv /\ [Next]_vars => FanningHas'
<1> SUFFICES ASSUME EarnedInv, [Next]_vars, NEW j \in fanning'
             PROVE  HasFanOut(j)
    BY DEF FanningHas, HasFanOut
<1>1. CASE j \in fanning
  BY <1>1 DEF EarnedInv, FanningHas
<1>2. CASE j \notin fanning
  BY <1>2, FanOutMay DEF FansOut
<1> QED
  BY <1>1, <1>2

-----------------------------------------------------------------------------
LEMMA VerdictEarnedStep == EarnedInv /\ [Next]_vars => VerdictEarned'
<1> SUFFICES ASSUME EarnedInv, [Next]_vars, NEW t \in rolling',
                    t.verdict = "done"
             PROVE  /\ t.result # "failed" /\ t.moved
                    /\ \A j \in created' :
                         \/ j = t.job \/ Exempt(j)
                         \/ /\ j \notin inHand'
                            /\ \/ batch'[j] \in {"success", "cancelled"}
                               \/ status'[j] = "success"
    BY DEF VerdictEarned, Exempt, HasFanOut, FannedOut
<1>1. ASSUME NEW j \in created', j \notin created PROVE Exempt(j)
  BY <1>1, AddedIsFannedOut DEF Exempt, EarnedInv
<1>2. CASE t \in rolling
  <2>1. t.result # "failed" /\ t.moved
    BY <1>2 DEF EarnedInv, VerdictEarned
  <2>2. ASSUME NEW j \in created, j # t.job, ~Exempt(j)
        PROVE  /\ j \notin inHand'
               /\ \/ batch'[j] \in {"success", "cancelled"}
                  \/ status'[j] = "success"
    <3>1. /\ j \notin inHand
          /\ batch[j] \in {"success", "cancelled"} \/ status[j] = "success"
      BY <1>2, <2>2 DEF EarnedInv, VerdictEarned
    <3>2. Over(j)
      BY <3>1 DEF EarnedInv, RollupInv, SealedIsOver, Closed, Over, Ended
    <3>3. j \notin inHand'
      BY <3>1, <3>2, NotHanded
    <3>4. j \notin Cancellable /\ ~HasFanOut(j)
      BY <2>2 DEF Exempt
    <3>5. \/ batch'[j] = batch[j]
          \/ FinalizerCommit /\ batch'[j] = SealedBatches[j]
      BY <3>1, <3>2, <3>4, QuietBatch
    <3>6. CASE batch[j] \in {"success", "cancelled"}
      <4>1. CASE FinalizerCommit /\ j \in DOMAIN seals
        <5>1. status[j] = "success"
          BY <3>4, <3>6, <4>1 DEF EarnedInv, SealsOvertaken
        <5>2. status' = status
          BY <4>1 DEF FinalizerCommit, flowVars
        <5> QED
          BY <3>3, <5>1, <5>2
      <4>2. CASE j \notin DOMAIN seals
        BY <3>3, <3>5, <3>6, <4>2 DEF SealedBatches
      <4> QED
        BY <3>3, <3>5, <3>6, <4>1, <4>2
    <3>7. CASE batch[j] \notin {"success", "cancelled"}
      <4>1. status[j] = "success" /\ j \notin doomed
        BY <2>2, <3>1, <3>7 DEF EarnedInv, DoomedWell
      <4> QED
        BY <3>3, <3>4, <4>1, QuietSuccess
    <3> QED
      BY <3>6, <3>7
  <2> QED
    BY <1>1, <2>1, <2>2
<1>3. CASE t \notin rolling
  <2>1. PICK s \in rolling :
          /\ ReportRoll(s) /\ s.job = t.job /\ s.result = t.result
          /\ s.moved = t.moved /\ s.verdict = "none"
          /\ TaskVerdict([batch EXCEPT ![s.job] = s.result]) = "done"
    BY <1>3, VerdictMay DEF EarnedInv
  <2>2. /\ created' = created /\ batch' = batch /\ inHand' = inHand
        /\ batch \in [created -> BatchStatus] /\ s.job \in created
    BY <2>1 DEF ReportRoll, flowVars, created, EarnedInv, RollupInv,
                RollupTypeOK, FlowTypeOK, Call
  <2> DEFINE b == [batch EXCEPT ![s.job] = s.result]
  <2>3. DOMAIN b = created /\ b[s.job] = s.result
        /\ \A j \in created : j # s.job => b[j] = batch[j]
    BY <2>2
  <2>4. \A j \in created : b[j] \in Closed /\ b[j] # "failed"
    <3> HIDE DEF b
    <3>1. TaskVerdict(b) = "done"
      BY <2>1 DEF b
    <3> QED
      BY <2>3, <3>1, VerdictType
  <2>5. s.result # "failed"
    BY <2>2, <2>3, <2>4
  <2>6. \A j \in created : j # s.job => batch[j] \in {"success", "cancelled"}
    BY <2>3, <2>4 DEF Closed
  <2>7. s.moved
    BY <2>1 DEF EarnedInv, NoneMoves
  <2> QED
    BY <2>1, <2>2, <2>5, <2>6, <2>7 DEF EarnedInv, ClosedWell, Exempt
<1> QED
  BY <1>2, <1>3

LEMMA FinalizerEarnedStep == EarnedInv /\ [Next]_vars => FinalizerEarned'
<1> SUFFICES ASSUME EarnedInv, [Next]_vars, finalizer' = "done",
                    NEW j \in created', ~Exempt(j)
             PROVE  /\ SealedBatches'[j] \in {"success", "cancelled"}
                    /\ j \notin inHand'
    BY DEF FinalizerEarned, Exempt, HasFanOut, FannedOut
<1>1. j \in created
  BY AddedIsFannedOut DEF Exempt, EarnedInv
<1>2. /\ SealedBatches[j] = IF j \in DOMAIN seals THEN seals[j] ELSE batch[j]
      /\ SealedBatches'[j] = IF j \in DOMAIN seals' THEN seals'[j]
                             ELSE batch'[j]
  BY <1>1 DEF SealedBatches
<1>3. SealedBatches[j] \in {"success", "cancelled"} => Over(j)
  BY <1>1, <1>2
     DEF Closed, EarnedInv, RollupInv, SealedIsOver, SealsAreOver
<1>4. CASE UNCHANGED <<finalizer, seals>>
  <2>1. SealedBatches[j] \in {"success", "cancelled"} /\ j \notin inHand
    BY <1>1, <1>4 DEF EarnedInv, FinalizerEarned
  <2>2. ~FinalizerCommit
    BY <1>4 DEF FinalizerCommit
  <2>3. batch'[j] = batch[j]
    BY <1>1, <1>3, <2>1, <2>2, QuietBatch DEF Exempt
  <2> QED
    BY <1>1, <1>2, <1>3, <1>4, <2>1, <2>3, NotHanded
<1>5. CASE /\ FinalizerSeal /\ UNCHANGED <<flowVars, batch, seals>>
           /\ finalizer' = TaskVerdict(SealedBatches)
  <2>1. DOMAIN SealedBatches = created
    BY DEF SealedBatches
  <2>2. SealedBatches[j] \in Closed /\ SealedBatches[j] # "failed"
    BY <1>1, <1>5, <2>1, VerdictType
  <2>3. SealedBatches[j] \in {"success", "cancelled"}
    BY <2>2 DEF Closed
  <2>4. j \notin inHand
    BY <1>1, <1>2, <2>3 DEF EarnedInv, ClosedWell, SealsWell, Exempt
  <2> QED
    BY <1>2, <1>5, <2>3, <2>4 DEF flowVars
<1> QED
  BY <1>4, <1>5, FinalizerMay DEF EarnedInv

LEMMA EarnedInvariant == Spec => []EarnedInv
<1>1. EarnedInv /\ [Next]_vars => EarnedInv'
  BY RollupStepInv, TicksApartStep, HandedStep, ClosedWellStep,
     SealsWellStep, SuccessMovesStep, OvertakenStep, DoomedWellStep,
     VerdictEarnedStep, FinalizerEarnedStep, FanningHasStep, NoneMovesStep
     DEF EarnedInv
<1> QED
  BY <1>1, EarnedInit, PTL DEF Spec

\* A task that becomes done has no failed batch, though reports that overlap
\* decide about it before they commit, but for the failures of fan-outs, of
\* what these added, of jobs that an operator cancelled, and those that a
\* finalizer writes over a success.
THEOREM DoneTasksEarnedIt == Spec => DoneIsEarned
<1> DEFINE Earned ==
      task' = "done" /\ task # "done" =>
        \A j \in created : batch'[j] = "failed"
          => \/ HasFanOut(j) \/ FannedOut(j) \/ j \in Cancellable
             \/ status'[j] = "success"
<1>1. ASSUME EarnedInv, [Next]_vars, task' = "done", task # "done",
             NEW j \in created, batch'[j] = "failed", ~Exempt(j)
      PROVE  status'[j] = "success"
  <2>1. batch \in [created -> BatchStatus] /\ status \in [created -> JobStatus]
    BY <1>1 DEF EarnedInv, RollupInv, RollupTypeOK, FlowTypeOK
  <2>2. ASSUME NEW t \in rolling, ReportCommit(t)
        PROVE  status'[j] = "success"
    <3>1. t.verdict = "done"
      BY <1>1, <2>2 DEF ReportCommit, Close
    <3>2. /\ t.result # "failed" /\ t.moved
          /\ \/ j = t.job
             \/ batch[j] \in {"success", "cancelled"}
             \/ status[j] = "success"
      BY <1>1, <3>1 DEF EarnedInv, VerdictEarned
    <3>3. batch' = [batch EXCEPT ![t.job] = t.result]
      BY <2>2, <3>2 DEF ReportCommit
    <3>4. j # t.job
      BY <1>1, <2>1, <3>2, <3>3
    <3>5. status[j] = "success"
      BY <1>1, <2>1, <3>2, <3>3, <3>4
    <3> QED
      BY <2>1, <2>2, <3>4, <3>5 DEF ReportCommit, Report
  <2>3. ASSUME NEW p \in fanning, FanOutFails(p) PROVE FALSE
    <3>1. TaskVerdict(batch') = "done"
      BY <1>1, <2>3 DEF FanOutFails, Close
    <3>2. j \in DOMAIN batch'
      BY <1>1, BatchType, RollupLawful DEF EarnedInv, RollupInv
    <3> QED
      BY <1>1, <3>1, <3>2, VerdictType
  <2>4. CASE FinalizerCommit
    <3>1. finalizer = "done" /\ batch' = SealedBatches
      BY <1>1, <2>4 DEF FinalizerCommit
    <3> QED
      BY <1>1, <3>1 DEF EarnedInv, FinalizerEarned
  <2> QED
    BY <1>1, <2>2, <2>3, <2>4, TaskWriters
<1>2. EarnedInv /\ [Next]_vars => [Earned]_vars
  BY <1>1 DEF Exempt
<1> QED
  BY <1>2, EarnedInvariant, PTL DEF Spec, DoneIsEarned
=============================================================================
