---------------------- MODULE KubernetesBackendProofs ----------------------
(***************************************************************************)
(* Proofs about KubernetesBackend, for any number of dispatches and of     *)
(* faults and any error budget: a success is the run's own exit code, and  *)
(* what was reported is over.                                              *)
(***************************************************************************)
EXTENDS KubernetesBackend, TLAPS

\* Places of run() before its own Job exists, and those at which it may.
Before == {"create", "delete", "await", "recreate"}
After  == {"start", "watch"}

\* Runs that have not begun have left nothing; the current one no result.
NothingAhead ==
  /\ job <= run
  /\ \A r \in Runs : r > run => result[r] = "none" /\ pod[r] = "none"
  /\ at # "idle" => run # 0 /\ result[run] = "none"

\* The Job is a leftover until the run has created its own, and never after.
OneJob ==
  /\ at \in Before => job # run /\ pod[run] = "none"
  /\ at \in After => job \in {0, run}

\* A pod that is there belongs to the Job that is there, unless a cancel has
\* deleted a Job and not yet its pod; only an earlier run can have done so.
PodsOwned ==
  /\ \A p \in Here : p = job \/ removed # {}
  /\ \A q \in removed : q <= run /\ (at # "idle" => q < run)

\* The pod that is watched is the run's own, with the same exception.
OwnPod == at = "watch" => seen # 0 /\ (seen = run \/ removed # {})

ExitsKnown == \A r \in Runs : pod[r] = "succeeded" => r \in succeeded

IInv ==
  /\ BackendTypeOK /\ NothingAhead /\ OneJob /\ PodsOwned /\ OwnPod /\ ExitsKnown
  /\ OwnExitCode /\ ReportedIsOver
-----------------------------------------------------------------------------
LEMMA InitInv == Init => IInv
<1> SUFFICES ASSUME Init
             PROVE  IInv
  OBVIOUS
<1>1. BackendTypeOK
  <2>1. /\ run \in 0 .. MaxRuns /\ seen \in 0 .. MaxRuns /\ job \in 0 .. MaxRuns
        /\ errors \in 0 .. Budget - 1 /\ faults \in 0 .. MaxFaults
    BY BackendAssumption DEF Init
  <2>2. /\ result \in [Runs -> {"none", "success", "failed"}]
        /\ pod \in [Runs -> Phase]
    BY DEF Init, Phase
  <2>3. leaving \in BOOLEAN /\ ~leaving
    BY DEF Init
  <2> QED BY <2>1, <2>2, <2>3 DEF Init, BackendTypeOK
<1>2. Here = {}
  BY DEF Init, Here
<1>3. NothingAhead /\ OneJob /\ OwnPod /\ ExitsKnown
  BY DEF Init, NothingAhead, OneJob, OwnPod, ExitsKnown, Before, After
<1>4. PodsOwned /\ OwnExitCode /\ ReportedIsOver
  BY <1>2 DEF Init, PodsOwned, OwnExitCode, ReportedIsOver
<1> QED
  BY <1>1, <1>3, <1>4 DEF IInv

LEMMA RunsAreNat ==
  /\ Runs \subseteq Nat /\ 0 \notin Runs /\ MaxRuns \in Nat
  /\ BackendTypeOK => run \in Nat /\ job \in Nat /\ (run # 0 => run \in Runs)
  BY BackendAssumption DEF Runs, BackendTypeOK
-----------------------------------------------------------------------------
(* The cluster.                                                            *)

\* Whatever the cluster does, no pod appears but that of the Job, none that
\* was over comes to life, and exits of 0 are known.
LEMMA ClusterSteps ==
  ASSUME BackendTypeOK, ExitsKnown,
         \/ PodCreated \/ JobGone \/ Expire
         \/ \E r \in Runs : PodStarts(r) \/ PodEnds(r) \/ PodGone(r)
  PROVE  /\ BackendTypeOK' /\ ExitsKnown'
         /\ \A r \in Runs : pod'[r] # "none" => pod[r] # "none" \/ r = job
         /\ \A r \in Here' : r \in Here \/ r = job
         /\ job' = job \/ (job' = 0 /\ job \notin Here')
         /\ \A r \in Runs : Alive(r)' => Alive(r)
         /\ succeeded \subseteq succeeded'
         /\ UNCHANGED <<control, hist>>
<1>1. CASE PodCreated
  <2>1. job \in Runs
    BY <1>1 DEF PodCreated, BackendTypeOK, Runs
  <2>2. \A r \in Runs : pod'[r] = IF r = job THEN "pending" ELSE pod[r]
    BY <1>1 DEF PodCreated, BackendTypeOK
  <2>3. pod' \in [Runs -> Phase]
    BY <1>1 DEF PodCreated, BackendTypeOK, Phase
  <2>4. Here' = Here \cup {job}
    BY <2>1, <2>2 DEF Here
  <2>5. BackendTypeOK'
    BY <1>1, <2>3, <2>4 DEF PodCreated, BackendTypeOK, control, hist
  <2>6. \A r \in Runs : Alive(r)' => Alive(r)
    BY <1>1, <2>2 DEF PodCreated, Alive, BackendTypeOK
  <2>7. ExitsKnown'
    BY <1>1, <2>2 DEF PodCreated, ExitsKnown
  <2> QED
    BY <1>1, <2>2, <2>4, <2>5, <2>6, <2>7 DEF PodCreated
<1>2. CASE JobGone
  <2>1. Here' = Here
    BY <1>2 DEF JobGone, Here
  <2>2. job' \in 0 .. MaxRuns /\ leaving' \in BOOLEAN /\ ~leaving'
    <3>1. job' = 0 /\ leaving' = FALSE
      BY <1>2 DEF JobGone
    <3>2. job' \in 0 .. MaxRuns
      BY <3>1, RunsAreNat
    <3>3. leaving' \in BOOLEAN /\ ~leaving'
      BY <3>1
    <3> QED BY <3>2, <3>3
  <2>3. BackendTypeOK'
    BY <1>2, <2>1, <2>2 DEF JobGone, BackendTypeOK, control, hist
  <2>4. \A r \in Runs : Alive(r)' => Alive(r)
    BY <1>2, RunsAreNat DEF JobGone, Alive
  <2> QED
    BY <1>2, <2>1, <2>3, <2>4 DEF JobGone, ExitsKnown
<1>3. CASE Expire
  <2>1. Here' = Here
    BY <1>3 DEF Expire, Here
  <2>2. doomed \subseteq doomed' /\ doomed' \subseteq Here
    BY <1>3 DEF Expire, DoomPod, BackendTypeOK
  <2>3. BackendTypeOK'
    BY <1>3, <2>1, <2>2 DEF Expire, BackendTypeOK, control, hist
  <2>4. \A r \in Runs : Alive(r)' => Alive(r)
    BY <1>3, <2>2 DEF Expire, Alive
  <2> QED
    BY <1>3, <2>1, <2>3, <2>4 DEF Expire, ExitsKnown
<1>4. ASSUME NEW r \in Runs, PodStarts(r) \/ PodEnds(r) \/ PodGone(r)
      PROVE  /\ BackendTypeOK' /\ ExitsKnown'
             /\ \A q \in Runs : pod'[q] # "none" => pod[q] # "none"
             /\ Here' \subseteq Here /\ job' = job
             /\ \A q \in Runs : Alive(q)' => Alive(q)
             /\ succeeded \subseteq succeeded'
             /\ UNCHANGED <<control, hist>>
  <2>1. PICK ph \in {"running", "succeeded", "failed", "gone"} :
          pod' = [pod EXCEPT ![r] = ph]
    BY <1>4 DEF PodStarts, PodEnds, PodGone
  <2>2. /\ \A q \in Runs : pod'[q] = IF q = r THEN ph ELSE pod[q]
        /\ pod' \in [Runs -> Phase]
    BY <2>1 DEF BackendTypeOK, Phase
  <2>3. pod[r] # "none" /\ r \in Here
    BY <1>4 DEF PodStarts, PodEnds, PodGone, BackendTypeOK, Here
  <2>4. /\ Here' = IF ph = "gone" THEN Here \ {r} ELSE Here
        /\ ph = "gone" <=> r \in doomed /\ doomed' = doomed \ {r}
    <3>1. \A q : q \in Here' <=> q \in Here /\ (q = r => ph # "gone")
      BY <2>2, <2>3 DEF Here
    <3>2. ph = "gone" <=> r \in doomed /\ doomed' = doomed \ {r}
      BY <1>4, <2>1, <2>2 DEF PodStarts, PodEnds, PodGone, BackendTypeOK
    <3> QED BY <3>1, <3>2
  <2>5. UNCHANGED <<job, leaving, control, hist, faults>>
    BY <1>4 DEF PodStarts, PodEnds, PodGone
  <2>6. /\ ph # "gone" => doomed' = doomed
        /\ ph = "gone" => doomed' = doomed \ {r}
        /\ succeeded' = IF ph = "succeeded" THEN succeeded \cup {r} ELSE succeeded
        /\ ph = "running" => pod[r] = "pending" /\ r \notin doomed
    BY <1>4, <2>2 DEF PodStarts, PodEnds, PodGone
  <2>7. BackendTypeOK'
    BY <2>2, <2>4, <2>5, <2>6 DEF BackendTypeOK, control, hist
  <2>8. ExitsKnown'
    BY <2>2, <2>6 DEF ExitsKnown
  <2>9. \A q \in Runs : Alive(q)' => Alive(q)
    BY <2>2, <2>3, <2>5, <2>6 DEF Alive
  <2> QED
    BY <2>2, <2>3, <2>4, <2>5, <2>6, <2>7, <2>8, <2>9
<1> QED
  BY <1>1, <1>2, <1>3, <1>4

LEMMA ClusterInv ==
  ASSUME IInv,
         \/ PodCreated \/ JobGone \/ Expire
         \/ \E r \in Runs : PodStarts(r) \/ PodEnds(r) \/ PodGone(r)
  PROVE  IInv'
<1> USE DEF IInv
<1>1. /\ BackendTypeOK' /\ ExitsKnown'
      /\ \A r \in Runs : pod'[r] # "none" => pod[r] # "none" \/ r = job
      /\ \A r \in Here' : r \in Here \/ r = job
      /\ job' = job \/ (job' = 0 /\ job \notin Here')
      /\ \A r \in Runs : Alive(r)' => Alive(r)
      /\ succeeded \subseteq succeeded'
      /\ UNCHANGED <<run, at, seen, errors, result, careless, removed>>
  BY ClusterSteps DEF control, hist
<1>2. run \in Nat /\ job \in Nat /\ (at # "idle" => run \in Runs)
  BY RunsAreNat DEF NothingAhead
<1>3. NothingAhead'
  BY <1>1, <1>2, RunsAreNat DEF NothingAhead
<1>4. OneJob'
  <2>1. at \in Before => pod'[run] = "none" /\ job' # run
    BY <1>1, <1>2, RunsAreNat DEF OneJob, NothingAhead, Before
  <2> QED BY <1>1, <2>1 DEF OneJob
<1>5. PodsOwned'
  BY <1>1 DEF PodsOwned
<1>6. OwnPod' /\ OwnExitCode' /\ ReportedIsOver'
  BY <1>1 DEF OwnPod, OwnExitCode, ReportedIsOver
<1> QED
  BY <1>1, <1>3, <1>4, <1>5, <1>6
-----------------------------------------------------------------------------
(* run().                                                                  *)

\* A run that goes on touches nothing of the cluster and reports nothing.
LEMMA GoesOn ==
  ASSUME IInv,
         UNCHANGED <<result, cluster, hist, faults>>,
         run' = run, at # "idle", errors' \in 0 .. Budget - 1,
         (at \in Before /\ at' \in Before) \/ (at \in After /\ at' \in After),
         seen' = seen \/ (at = "start" /\ seen' \in Here),
         at' = "watch" => at = "watch" \/ seen' \in Here
  PROVE  IInv'
<1> USE DEF IInv
<1>1. UNCHANGED <<job, leaving, pod, doomed, succeeded, careless, removed, run>>
  BY DEF cluster, hist
<1>2. Here' = Here /\ Here \subseteq Runs /\ \A r \in Runs : Alive(r)' <=> Alive(r)
  BY <1>1 DEF Here, Alive
<1>3. BackendTypeOK'
  <2>1. seen' \in 0 .. MaxRuns
    <3>1. seen' \in Runs \/ seen' = seen
      BY <1>2
    <3> QED BY <3>1, BackendAssumption DEF BackendTypeOK, Runs
  <2> QED
    BY <1>1, <1>2, <2>1 DEF BackendTypeOK, Before, After
<1>4. NothingAhead' /\ OneJob' /\ ExitsKnown'
  BY <1>1 DEF NothingAhead, OneJob, ExitsKnown, Before, After
<1>5. PodsOwned'
  BY <1>1, <1>2 DEF PodsOwned
<1>6. OwnPod'
  <2>1. at = "start" => \A p \in Here : p # 0 /\ (p = run \/ removed # {})
    BY <1>2, RunsAreNat DEF PodsOwned, OneJob, After
  <2> QED
    BY <1>1, <2>1 DEF OwnPod, Before, After
<1>7. OwnExitCode' /\ ReportedIsOver'
  BY <1>1, <1>2 DEF OwnExitCode, ReportedIsOver
<1> QED
  BY <1>3, <1>4, <1>5, <1>6, <1>7

\* A run ends: with a result, or without one when the worker stops.
LEMMA Ends ==
  ASSUME IInv, BackendTypeOK', at # "idle", at' = "idle", run' = run,
         UNCHANGED <<pod, succeeded>>,
         NEW res \in {"none", "success", "failed"},
         result' = [result EXCEPT ![run] = res],
         job' = job \/ (job = 0 /\ job' = run) \/ (job' = 0 /\ removed' # {}),
         removed \subseteq removed', removed' \subseteq removed \cup {run},
         careless \subseteq careless',
         \A r \in Runs : r # run /\ Alive(r)' => Alive(r),
         res = "success" => run \in succeeded \/ removed # {},
         res # "none" /\ Alive(run)' => run \in careless' \/ removed # {}
  PROVE  IInv'
<1> USE DEF IInv
<1>1. run \in Runs /\ run \in Nat /\ job \in Nat /\ result[run] = "none"
  BY RunsAreNat DEF NothingAhead
<1>2. \A r \in Runs : result'[r] = IF r = run THEN res ELSE result[r]
  BY <1>1 DEF BackendTypeOK
<1>3. removed # {} => \E q \in removed : q < run
  BY DEF PodsOwned
<1>4. NothingAhead'
  BY <1>1, <1>2, RunsAreNat DEF NothingAhead
<1>5. OneJob' /\ OwnPod' /\ ExitsKnown'
  BY DEF OneJob, OwnPod, ExitsKnown, Before, After
<1>6. PodsOwned'
  <2>1. \A q \in removed' : q <= run
    BY <1>1, RunsAreNat DEF PodsOwned
  <2>2. Here' = Here
    BY DEF Here
  <2>3. \A p \in Here : p = job' \/ removed' # {}
    BY RunsAreNat DEF PodsOwned, Here
  <2> QED BY <2>1, <2>2, <2>3 DEF PodsOwned
<1>7. OwnExitCode'
  BY <1>2, <1>3 DEF OwnExitCode
<1>8. ReportedIsOver'
  BY <1>2, <1>3 DEF ReportedIsOver
<1> QED
  BY <1>4, <1>5, <1>6, <1>7, <1>8

\* The job is dispatched: its own Job and pod are still to come.
LEMMA DispatchInv == IInv /\ Dispatch => IInv'
<1> SUFFICES ASSUME IInv, Dispatch
             PROVE  IInv'
  OBVIOUS
<1> USE DEF IInv
<1>1. /\ run \in Nat /\ job \in Nat /\ run' = run + 1 /\ run' \in 0 .. MaxRuns
      /\ run' \in Runs /\ at' = "create"
      /\ UNCHANGED <<seen, errors, result, job, leaving, pod, doomed, succeeded,
                     careless, removed, faults>>
  BY RunsAreNat DEF Dispatch, BackendTypeOK, Runs, cluster, hist
<1>2. Here' = Here /\ \A r \in Runs : Alive(r)' <=> Alive(r)
  BY <1>1 DEF Here, Alive
<1>3. BackendTypeOK'
  BY <1>1, <1>2 DEF BackendTypeOK
<1>4. NothingAhead'
  BY <1>1, RunsAreNat DEF NothingAhead
<1>5. OneJob' /\ OwnPod' /\ ExitsKnown'
  BY <1>1 DEF OneJob, NothingAhead, OwnPod, ExitsKnown, After
<1>6. PodsOwned'
  <2>1. \A q \in removed : q < run' /\ q <= run'
    BY <1>1, RunsAreNat DEF PodsOwned, BackendTypeOK
  <2> QED BY <1>1, <1>2, <2>1 DEF PodsOwned
<1>7. OwnExitCode' /\ ReportedIsOver'
  BY <1>1, <1>2 DEF OwnExitCode, ReportedIsOver
<1> QED
  BY <1>3, <1>4, <1>5, <1>6, <1>7

\* The run creates its Job: nothing of an earlier one is there, unless an
\* earlier run has cancelled.
LEMMA CreatedFacts ==
  ASSUME IInv, at \in Before, job = 0, Created
  PROVE  /\ job' = run /\ run \in Runs /\ run \in Nat /\ Here' = Here
         /\ job' \in 0 .. MaxRuns /\ leaving' = leaving /\ ~leaving
         /\ \A r \in Runs : r # run /\ Alive(r)' => Alive(r)
         /\ \A p \in Here : removed # {}
  BY RunsAreNat
  DEF IInv, BackendTypeOK, NothingAhead, PodsOwned, Created, Alive, Here, Runs,
      Before

LEMMA CreatesInv ==
  ASSUME IInv, at \in Before, job = 0, Created, Goto("start"),
         UNCHANGED <<hist, faults>>
  PROVE  IInv'
<1> USE DEF IInv
<1>1. /\ job' = run /\ run \in Runs /\ run \in Nat /\ Here' = Here
      /\ job' \in 0 .. MaxRuns /\ leaving' = leaving /\ ~leaving
      /\ \A r \in Runs : r # run /\ Alive(r)' => Alive(r)
      /\ \A p \in Here : removed # {}
  BY CreatedFacts
<1>2. /\ at' = "start" /\ errors' = 0
      /\ UNCHANGED <<run, seen, result, pod, doomed, succeeded, careless,
                     removed, faults>>
  BY DEF Goto, Created, hist
<1>3. BackendTypeOK'
  BY <1>1, <1>2, BackendAssumption DEF BackendTypeOK
<1>4. NothingAhead' /\ OneJob' /\ OwnPod' /\ ExitsKnown'
  BY <1>1, <1>2 DEF NothingAhead, OneJob, OwnPod, ExitsKnown, Before, After
<1>5. PodsOwned'
  BY <1>1, <1>2 DEF PodsOwned, Before
<1>6. OwnExitCode'
  BY <1>2 DEF OwnExitCode
<1>7. ReportedIsOver'
  BY <1>1, <1>2 DEF ReportedIsOver, NothingAhead, Before
<1> QED
  BY <1>3, <1>4, <1>5, <1>6, <1>7

\* What a run that ends leaves unchanged keeps the types.
LEMMA ReturnTypes ==
  ASSUME IInv, at # "idle", NEW res \in {"none", "success", "failed"},
         at' = "idle", seen' = 0, errors' = 0, run' = run,
         result' = [result EXCEPT ![run] = res],
         pod' = pod, succeeded' = succeeded, doomed \subseteq doomed',
         doomed' \subseteq Here, job' \in 0 .. MaxRuns, leaving' \in BOOLEAN,
         leaving' => job' # 0,
         removed' \subseteq removed \cup {run},
         careless' \subseteq careless \cup {run}, faults' \in 0 .. MaxFaults
  PROVE  BackendTypeOK'
<1>1. run \in Runs
  BY RunsAreNat DEF IInv, NothingAhead
<1>2. Here' = Here
  BY DEF Here
<1>3. result' \in [Runs -> {"none", "success", "failed"}]
  BY DEF IInv, BackendTypeOK
<1>4. errors' \in 0 .. Budget - 1 /\ seen' \in 0 .. MaxRuns
  BY BackendAssumption
<1> QED
  BY <1>1, <1>2, <1>3, <1>4 DEF IInv, BackendTypeOK

\* A run ends that has touched nothing of the cluster.
LEMMA EndsQuietly ==
  ASSUME IInv, at # "idle", NEW res \in {"none", "success", "failed"},
         at' = "idle", seen' = 0, errors' = 0, run' = run,
         result' = [result EXCEPT ![run] = res],
         UNCHANGED <<cluster, removed>>, faults' \in 0 .. MaxFaults,
         careless' \in {careless, careless \cup {run}},
         res = "success" => run \in succeeded \/ removed # {},
         res # "none" /\ Alive(run) => run \in careless' \/ removed # {}
  PROVE  IInv'
<1>1. UNCHANGED <<job, leaving, pod, doomed, succeeded>>
  BY DEF cluster
<1>2. \A r \in Runs : Alive(r)' <=> Alive(r)
  BY <1>1 DEF Alive
<1>3. BackendTypeOK'
  <2>1. /\ doomed' \subseteq Here /\ doomed \subseteq doomed'
        /\ job' \in 0 .. MaxRuns
    BY <1>1 DEF IInv, BackendTypeOK
  <2>2. leaving' \in BOOLEAN /\ (leaving' => job' # 0)
    BY <1>1 DEF IInv, BackendTypeOK
  <2> QED
    BY <1>1, <2>1, <2>2, ReturnTypes
<1>4. Alive(run)' <=> Alive(run)
  BY <1>2, RunsAreNat DEF IInv, NothingAhead
<1> QED
  BY <1>1, <1>2, <1>3, <1>4, Ends

\* A run without a Job of its own has nothing alive.
LEMMA NotYetAlive ==
  ASSUME IInv, at \in Before
  PROVE  ~Alive(run)
  BY DEF IInv, OneJob, Alive

\* create, and the replacement of a leftover.
LEMMA CreateInv ==
  ASSUME IInv, Create \/ Recreate \/ CreateBreaks
  PROVE  IInv'
<1>1. /\ at \in Before /\ at # "idle" /\ BackendTypeOK
      /\ run \in Runs /\ run \in Nat
      /\ result' = [result EXCEPT ![run] = "failed"] \/ ~CreateBreaks
  BY RunsAreNat
  DEF IInv, NothingAhead, Create, Recreate, CreateBreaks, Before, Return
<1>2. CASE Create
  <2>1. CASE job = 0
    BY <1>1, <1>2, <2>1, CreatesInv DEF Create
  <2>2. CASE job # 0
    BY <1>1, <1>2, <2>2, GoesOn, BackendAssumption DEF Create, Goto, Before
  <2> QED BY <2>1, <2>2
<1>3. CASE Recreate
  <2>1. CASE job = 0
    BY <1>1, <1>3, <2>1, CreatesInv DEF Recreate
  <2>2. CASE job # 0
    BY <1>1, <1>3, <2>2, EndsQuietly, NotYetAlive
    DEF Recreate, Return, hist, BackendTypeOK
  <2> QED BY <2>1, <2>2
<1>4. CASE CreateBreaks
  <2>1. /\ at' = "idle" /\ seen' = 0 /\ errors' = 0 /\ run' = run
        /\ result' = [result EXCEPT ![run] = "failed"]
        /\ careless' = careless \cup {run} /\ removed' = removed
    BY <1>4 DEF CreateBreaks, Return
  <2>2. faults' \in 0 .. MaxFaults
    BY <1>1, <1>4, BackendAssumption DEF CreateBreaks, Fault, BackendTypeOK
  <2>3. CASE job = 0 /\ Created
    <3>1. /\ job' = run /\ job' \in 0 .. MaxRuns /\ leaving' = leaving
          /\ ~leaving
          /\ \A r \in Runs : r # run /\ Alive(r)' => Alive(r)
      BY <1>1, <2>3, CreatedFacts
    <3>2. pod' = pod /\ succeeded' = succeeded /\ doomed' = doomed
      BY <2>3 DEF Created
    <3>3. BackendTypeOK'
      <4>1. leaving' \in BOOLEAN /\ ~leaving' /\ doomed \subseteq Here
        BY <1>1, <3>1 DEF BackendTypeOK
      <4> QED
        BY <1>1, <2>1, <2>2, <3>1, <3>2, <4>1, ReturnTypes
    <3> QED
      BY <1>1, <2>1, <2>3, <3>1, <3>2, <3>3, Ends
  <2>4. CASE UNCHANGED cluster
    BY <1>1, <2>1, <2>2, <2>4, EndsQuietly
  <2> QED BY <1>4, <2>3, <2>4 DEF CreateBreaks
<1> QED
  BY <1>2, <1>3, <1>4

LEMMA ReplaceInv ==
  ASSUME IInv, Delete \/ Await \/ ReplaceBreaks
  PROVE  IInv'
<1>1. /\ at \in Before /\ at # "idle" /\ BackendTypeOK /\ run \in Runs
      /\ ~Alive(run)
  BY RunsAreNat, NotYetAlive
  DEF IInv, NothingAhead, Delete, Await, ReplaceBreaks, Before
<1>2. CASE Await
  <2>1. CASE Here = {} /\ job = 0 /\ Goto("recreate")
    BY <1>1, <1>2, <2>1, GoesOn, BackendAssumption DEF Await, Goto, Before
  <2>2. CASE Return("failed")
    BY <1>1, <1>2, <2>2, EndsQuietly DEF Await, Return, hist, BackendTypeOK
  <2> QED BY <1>2, <2>1, <2>2 DEF Await
<1>3. CASE ReplaceBreaks
  <2>1. faults' \in 0 .. MaxFaults
    BY <1>1, <1>3, BackendAssumption DEF ReplaceBreaks, Fault, BackendTypeOK
  <2> QED
    BY <1>1, <1>3, <2>1, EndsQuietly DEF ReplaceBreaks, Return, hist
<1>4. CASE Delete
  <2>1. /\ at' = "await" /\ errors' = 0 /\ doomed \subseteq doomed'
        /\ doomed' \subseteq Here
        /\ UNCHANGED <<run, seen, result, job, pod, succeeded, careless,
                       removed, faults>>
    BY <1>1, <1>4 DEF Delete, Goto, DoomPod, hist, BackendTypeOK
  <2>2. leaving' \in BOOLEAN /\ (leaving' <=> job # 0)
    BY <1>4 DEF Delete
  <2>3. Here' = Here
    BY <2>1 DEF Here
  <2>4. \A r \in Runs : Alive(r)' => Alive(r)
    BY <2>1, <2>2, RunsAreNat DEF Alive
  <2>5. BackendTypeOK'
    BY <1>1, <2>1, <2>2, <2>3, BackendAssumption DEF BackendTypeOK
  <2>6. NothingAhead' /\ OneJob' /\ OwnPod' /\ ExitsKnown'
    BY <1>1, <1>4, <2>1
    DEF IInv, NothingAhead, OneJob, OwnPod, ExitsKnown, Before, After
  <2>7. PodsOwned' /\ OwnExitCode' /\ ReportedIsOver'
    BY <1>1, <2>1, <2>3, <2>4
    DEF IInv, PodsOwned, OwnExitCode, ReportedIsOver
  <2> QED BY <2>5, <2>6, <2>7 DEF IInv
<1> QED
  BY <1>2, <1>3, <1>4

\* cancel leaves no pod of the run at work, or it has failed.
LEMMA CancelEnds ==
  ASSUME IInv, at \in After, Cancel,
         at' = "idle", seen' = 0, errors' = 0, run' = run,
         NEW res \in {"none", "failed"},
         result' = [result EXCEPT ![run] = res],
         UNCHANGED <<pod, succeeded>>, faults' \in 0 .. MaxFaults
  PROVE  IInv'
<1>1. BackendTypeOK /\ at # "idle" /\ run \in Runs
  BY RunsAreNat DEF IInv, NothingAhead, After
<1>2. CASE /\ job' = 0 /\ leaving' = FALSE /\ DoomPod
           /\ removed' = removed \cup {run} /\ UNCHANGED careless
  <2>1. leaving' \in BOOLEAN /\ ~leaving'
    BY <1>2
  <2>2. job' = 0 /\ job' \in 0 .. MaxRuns
    BY <1>2, RunsAreNat
  <2>3. doomed \subseteq doomed' /\ doomed' \subseteq Here
    BY <1>1, <1>2 DEF DoomPod, BackendTypeOK
  <2>4. BackendTypeOK'
    BY <1>1, <1>2, <2>1, <2>2, <2>3, ReturnTypes
  <2>5. \A r \in Runs : Alive(r)' => Alive(r)
    BY <2>2, <2>3, RunsAreNat DEF Alive
  <2>6. Alive(run)' => removed # {}
    BY <1>1, <1>2, <2>2, RunsAreNat
    DEF IInv, PodsOwned, Alive, DoomPod, Here
  <2> QED
    BY <1>1, <1>2, <2>2, <2>4, <2>5, <2>6, Ends
<1>3. CASE /\ careless' = careless \cup {run}
           /\ UNCHANGED <<job, leaving, doomed, removed>>
  BY <1>1, <1>3, EndsQuietly DEF cluster
<1> QED
  BY <1>2, <1>3 DEF Cancel

LEMMA GiveUpInv ==
  ASSUME IInv, at \in After, GiveUp
  PROVE  IInv'
  BY CancelEnds DEF GiveUp, Return, IInv, BackendTypeOK

\* Supervision of the pod, and stops of the worker.
LEMMA SuperviseInv ==
  ASSUME IInv,
         \/ \E p \in Runs : FindPod(p)
         \/ StartTimesOut \/ PollFails \/ PollAnswers \/ PollBreaks
         \/ Terminated \/ Crash \/ CrashAfterCancel
  PROVE  IInv'
<1>1. BackendTypeOK /\ (at # "idle" => run \in Runs) /\ 0 \in 0 .. Budget - 1
  BY RunsAreNat, BackendAssumption DEF IInv, NothingAhead
<1>2. ASSUME NEW p \in Runs, FindPod(p)
      PROVE  IInv'
  BY <1>1, <1>2, GoesOn DEF FindPod, After
<1>3. CASE StartTimesOut
  BY <1>3, GiveUpInv DEF StartTimesOut, After
<1>4. CASE PollFails
  <2>1. CASE errors + 1 < Budget
    <3>1. errors' \in 0 .. Budget - 1
      BY <1>1, <1>4, <2>1, BackendAssumption DEF PollFails, BackendTypeOK
    <3> QED
      BY <1>4, <2>1, <3>1, GoesOn DEF PollFails, After
  <2>2. CASE ~(errors + 1 < Budget)
    BY <1>4, <2>2, GiveUpInv DEF PollFails, After
  <2> QED BY <2>1, <2>2
<1>5. CASE PollAnswers
  BY <1>1, <1>5, GoesOn DEF PollAnswers, After
<1>6. CASE PollBreaks
  <2>1. faults' \in 0 .. MaxFaults
    BY <1>1, <1>6, BackendAssumption DEF PollBreaks, Fault, BackendTypeOK
  <2> QED
    BY <1>1, <1>6, <2>1, EndsQuietly DEF PollBreaks, Return
<1>7. CASE Terminated
  <2>1. at = "watch" /\ seen \in Runs /\ (seen = run \/ removed # {})
    BY <1>1, <1>7 DEF Terminated, IInv, OwnPod, BackendTypeOK, Runs
  <2>2. CASE pod[seen] = "succeeded" /\ Return("success")
    <3>1. seen \in succeeded
      BY <2>1, <2>2 DEF IInv, ExitsKnown
    <3>2. Alive(run) => removed # {}
      BY <2>1, <2>2 DEF Alive
    <3> QED
      BY <1>1, <1>7, <2>1, <2>2, <3>1, <3>2, EndsQuietly
      DEF Terminated, Return, hist, BackendTypeOK
  <2>3. CASE pod[seen] \in {"failed", "gone"} /\ Return("failed")
    <3>1. Alive(run) => removed # {}
      BY <2>1, <2>3 DEF Alive
    <3> QED
      BY <1>1, <1>7, <2>1, <2>3, <3>1, EndsQuietly
      DEF Terminated, Return, hist, BackendTypeOK
  <2> QED BY <1>7, <2>2, <2>3 DEF Terminated
<1>8. at # "idle" => result = [result EXCEPT ![run] = "none"]
  BY <1>1 DEF IInv, NothingAhead, BackendTypeOK
<1>9. CASE Crash
  <2>1. faults' \in 0 .. MaxFaults
    BY <1>1, <1>9, BackendAssumption DEF Crash, Fault, BackendTypeOK
  <2> QED
    BY <1>8, <1>9, <2>1, EndsQuietly DEF Crash, hist
<1>10. CASE CrashAfterCancel
  <2>1. faults' \in 0 .. MaxFaults
    BY <1>1, <1>10, BackendAssumption DEF CrashAfterCancel, Fault, BackendTypeOK
  <2> QED
    BY <1>8, <1>10, <2>1, CancelEnds DEF CrashAfterCancel, After
<1> QED
  BY <1>2, <1>3, <1>4, <1>5, <1>6, <1>7, <1>9, <1>10

LEMMA NextInv == IInv /\ [Next]_vars => IInv'
<1>1. ASSUME IInv, Next
      PROVE  IInv'
  BY <1>1, ClusterInv, DispatchInv, CreateInv, ReplaceInv, SuperviseInv
  DEF Next, Supervise, Cluster
<1>2. ASSUME IInv, UNCHANGED vars
      PROVE  IInv'
  BY <1>2
  DEF IInv, BackendTypeOK, NothingAhead, OneJob, PodsOwned, OwnPod, ExitsKnown,
      OwnExitCode, ReportedIsOver, Alive, Here, vars, control, cluster, hist
<1> QED
  BY <1>1, <1>2

LEMMA Inductive == Spec => []IInv
  BY InitInv, NextInv, PTL DEF Spec
-----------------------------------------------------------------------------
\* The backend's variables stay in their types: the budget of errors is never
\* exceeded, and a Job that is being deleted exists.
THEOREM BackendTypes == Spec => []BackendTypeOK
<1>1. IInv => BackendTypeOK
  BY DEF IInv
<1> QED
  BY <1>1, Inductive, PTL

\* A run that reports success has run to an exit code of 0 in a pod of its
\* own, unless an earlier run was stopped right after its cancel.
THEOREM SuccessIsOwn == Spec => []OwnExitCode
<1>1. IInv => OwnExitCode
  BY DEF IInv
<1> QED
  BY <1>1, Inductive, PTL

\* When a run has reported, its workload is over for good, unless a call of
\* its failed and was not repeated, or an earlier run's cancel interfered.
THEOREM ReportsAreFinal == Spec => []ReportedIsOver
<1>1. IInv => ReportedIsOver
  BY DEF IInv
<1> QED
  BY <1>1, Inductive, PTL
=============================================================================
