------------------------- MODULE OutputHandoffProofs -------------------------
(***************************************************************************)
(* Proofs about OutputHandoff, for any outputs.                            *)
(***************************************************************************)
EXTENDS OutputHandoff, TLAPS

\* An output has all that recordOutputs writes for it.
Recorded(o) == (o \in Typed => o \in listed) /\ (o \in readable => o \in merged)

\* What recordOutputs has in hand is in the object store.
InStore ==
  /\ left \subseteq objects /\ objects \subseteq produced
  /\ step \in {"link", "list", "content"} => current \in objects
  /\ products \subseteq objects /\ products \subseteq Typed

\* The rows of an output are written in the order in which readers follow them.
InOrder ==
  /\ listed \subseteq linked /\ linked \subseteq products
  /\ step \in {"link", "list"} => current \in products
  /\ step = "list" => current \in linked

\* What a call that has not broken is through with is recorded.
CallIsThorough ==
  phase = "posting" /\ ~broken =>
    /\ step # "none"
    /\ \A o \in produced \ left :
         \/ Recorded(o)
         \/ /\ o = current /\ step \in {"link", "list", "content"}
            /\ step = "content" => (o \in Typed => o \in listed)

\* After the call everything is recorded, if there was one.
ReportedIsRecorded ==
  phase \in {"reporting", "gone"} /\ ~broken /\ store =>
    step = "none" /\ \A o \in produced : Recorded(o)

\* Nothing is posted early, and nothing follows before the report.
Sequenced ==
  /\ phase \in {"running", "uploading"} => step = "none"
  /\ phase = "running" => produced = {} /\ readable = {} /\ objects = {}
  /\ phase # "gone" => job = "running" /\ fan = "none" /\ next = "waiting"

\* A worker without a client for the store uploads and posts nothing.
NothingPublished ==
  ~store => /\ phase \notin {"uploading", "posting"} /\ step = "none"
            /\ objects = {}

HandoffInv ==
  /\ HandoffTypeOK /\ InStore /\ InOrder /\ CallIsThorough
  /\ ReportedIsRecorded /\ Sequenced /\ NothingPublished
  /\ InputsComplete /\ FanOutFindsBlocks

LEMMA HandoffInit == Init => HandoffInv
  BY HandoffAssumption
  DEF Init, HandoffInv, HandoffTypeOK, InStore, InOrder, CallIsThorough,
      ReportedIsRecorded, Sequenced, NothingPublished, InputsComplete,
      FanOutFindsBlocks, Recorded

\* The runner's steps.
LEMMA RunnerSteps ==
  ASSUME HandoffInv,
         \/ RunEnds \/ UploadBreaks \/ Post \/ GiveUp \/ Report \/ Stop
         \/ \E o \in Outputs : Upload(o)
  PROVE  HandoffInv'
<1> USE HandoffAssumption
    DEF HandoffInv, HandoffTypeOK, InStore, InOrder, CallIsThorough,
        ReportedIsRecorded, Sequenced, NothingPublished, InputsComplete,
        FanOutFindsBlocks, Recorded, file, rows, call, behind
<1>1. CASE RunEnds
  BY <1>1 DEF RunEnds
<1>2. CASE UploadBreaks
  BY <1>2 DEF UploadBreaks
<1>3. CASE Post
  BY <1>3 DEF Post
<1>4. CASE GiveUp
  BY <1>4 DEF GiveUp
<1>5. CASE Report
  BY <1>5 DEF Report
<1>6. CASE Stop
  BY <1>6 DEF Stop
<1>7. ASSUME NEW o \in Outputs, Upload(o) PROVE HandoffInv'
  BY <1>7 DEF Upload
<1> QED
  BY <1>1, <1>2, <1>3, <1>4, <1>5, <1>6, <1>7

\* The steps of recordOutputs.
LEMMA CallSteps ==
  ASSUME HandoffInv,
         Link \/ List \/ Merge \/ Answer \/ CallBreaks \/ \E o \in Outputs : Begin(o)
  PROVE  HandoffInv'
<1> USE HandoffAssumption
    DEF HandoffInv, HandoffTypeOK, InStore, InOrder, CallIsThorough,
        ReportedIsRecorded, Sequenced, NothingPublished, InputsComplete,
        FanOutFindsBlocks, Recorded, file, rows, call, behind, Answered
<1>1. CASE Link
  BY <1>1 DEF Link
<1>2. CASE List
  BY <1>2 DEF List
<1>3. CASE Merge
  BY <1>3 DEF Merge
<1>4. CASE Answer
  BY <1>4 DEF Answer
<1>5. CASE CallBreaks
  BY <1>5 DEF CallBreaks
<1>6. ASSUME NEW o \in Outputs, Begin(o) PROVE HandoffInv'
  BY <1>6 DEF Begin
<1> QED
  BY <1>1, <1>2, <1>3, <1>4, <1>5, <1>6

\* The steps of the work behind the job.
LEMMA StepsBehind ==
  ASSUME HandoffInv, FanOut \/ Release \/ Start \/ UNCHANGED vars
  PROVE  HandoffInv'
<1> USE HandoffAssumption
    DEF HandoffInv, HandoffTypeOK, InStore, InOrder, CallIsThorough,
        ReportedIsRecorded, Sequenced, NothingPublished, InputsComplete,
        FanOutFindsBlocks, Recorded, file, rows, call, behind
<1>1. CASE FanOut
  BY <1>1 DEF FanOut
<1>2. CASE Release
  BY <1>2 DEF Release
<1>3. CASE Start
  BY <1>3 DEF Start
<1>4. CASE UNCHANGED vars
  BY <1>4 DEF vars
<1> QED
  BY <1>1, <1>2, <1>3, <1>4

LEMMA HandoffInvariant == Spec => []HandoffInv
<1>1. HandoffInv /\ [Next]_vars => HandoffInv'
  BY RunnerSteps, CallSteps, StepsBehind DEF Next
<1> QED
  BY HandoffInit, <1>1, PTL DEF Spec

\* Whatever stops between outputs and result: unless something broke, a job that
\* starts behind a success gets every typed file the run wrote, or none at all
\* behind a worker without a client for the store.
THEOREM InputsArrive == Spec => []InputsComplete
  BY HandoffInvariant, PTL DEF HandoffInv

\* A reader of the dataset never finds a product without a path or an object,
\* though recordOutputs commits its writes one by one and may break anywhere.
THEOREM ReadersFindObjects == Spec => []ListedIsThere
<1>1. HandoffInv => ListedIsThere
  BY DEF HandoffInv, InStore, InOrder, ListedIsThere
<1> QED
  BY HandoffInvariant, <1>1, PTL

\* The fan-out fails only if CALC wrote no blocks that can be read, something
\* broke, or the worker has no client for the store.
THEOREM BlocksAreFound == Spec => []FanOutFindsBlocks
  BY HandoffInvariant, PTL DEF HandoffInv
=============================================================================
