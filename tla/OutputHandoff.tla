---------------------------- MODULE OutputHandoff ----------------------------
(***************************************************************************)
(* How the files of one job come to the jobs behind it: the worker uploads *)
(* them (staging.py), posts their list to the API, which records them one  *)
(* by one without a transaction (recordOutputs), and only then reports the *)
(* result (runner.py).  The job behind it stages in what it finds recorded *)
(* (nextJob), a fan-out reads the blocks of CALC (expandFanOut).  The      *)
(* batch has one job, and the job one run.                                 *)
(***************************************************************************)
CONSTANTS
  Outputs,  \* the declared outputs
  Typed,    \* those with a product type: only they become products
  Json,     \* those whose content is posted along; no two share a key
  Calc,     \* the one that holds the blocks of a fan-out
  None      \* no output

ASSUME HandoffAssumption ==
  /\ Typed \subseteq Outputs /\ Json \subseteq Outputs
  /\ Calc \in Json /\ None \notin Outputs

VARIABLES
  store,     \* the worker has a client for the object store
  phase,     \* where the runner thread is in _execute
  exit,      \* what the run ended as
  produced,  \* the files the run has written
  readable,  \* those of Json whose content is an object that can be read
  objects,   \* the files in the object store
  left,      \* the outputs recordOutputs has not begun with
  current,   \* the output it records
  step,      \* its next write for that output; "none" without a call
  products,  \* outputs with a row in product, of this batch
  linked,    \* those with the path of their object
  listed,    \* those in the output dataset of the batch
  merged,    \* those whose content is in parametersOut
  job,       \* the job's status
  fan,       \* the fan-out behind the batch
  next,      \* the job behind it
  staged,    \* what that job was told to download
  broken     \* history: an upload, the call or the worker broke

vars == <<store, phase, exit, produced, readable, objects, left, current, step,
          products, linked, listed, merged, job, fan, next, staged, broken>>

file   == <<store, exit, produced, readable, objects>>
rows   == <<products, linked, listed, merged>>
call   == <<left, current, step>>
behind == <<fan, next, staged>>

HandoffTypeOK ==
  /\ store \in BOOLEAN /\ readable \subseteq produced \cap Json
  /\ phase \in {"running", "uploading", "posting", "reporting", "gone"}
  /\ exit \in {"success", "failed"} /\ job \in {"running", "success", "failed"}
  /\ produced \subseteq Outputs /\ objects \subseteq Outputs
  /\ left \subseteq Outputs /\ current \in Outputs \cup {None}
  /\ step \in {"none", "begin", "link", "list", "content"}
  /\ step \in {"link", "list", "content"} => current \in Outputs
  /\ products \subseteq Outputs /\ linked \subseteq Outputs
  /\ listed \subseteq Outputs /\ merged \subseteq Outputs
  /\ fan \in {"none", "due", "done", "failed"}
  /\ next \in {"waiting", "ready", "running"} /\ staged \subseteq Outputs
  /\ broken \in BOOLEAN

Init ==
  /\ store \in BOOLEAN
  /\ phase = "running" /\ exit = "failed" /\ job = "running"
  /\ produced = {} /\ readable = {} /\ objects = {}
  /\ left = {} /\ current = None /\ step = "none"
  /\ products = {} /\ linked = {} /\ listed = {} /\ merged = {}
  /\ fan = "none" /\ next = "waiting" /\ staged = {} /\ broken = FALSE
-----------------------------------------------------------------------------
(* The runner thread.                                                      *)

\* backend.run returns.  Only a success is staged out, and only by a worker that
\* can: without a client for the store it goes on to the report, silently.
RunEnds ==
  /\ phase = "running"
  /\ \/ /\ exit' = "success"
        /\ phase' = IF store THEN "uploading" ELSE "reporting"
        /\ produced' \in SUBSET Outputs
        /\ readable' \in SUBSET (produced' \cap Json)
     \/ /\ exit' = "failed" /\ phase' = "reporting"
        /\ UNCHANGED <<produced, readable>>
  /\ UNCHANGED <<store, objects, call, rows, job, behind, broken>>

\* stage_out uploads one file.
Upload(o) ==
  /\ phase = "uploading" /\ o \in produced \ objects
  /\ objects' = objects \cup {o}
  /\ UNCHANGED <<store, phase, exit, produced, readable, call, rows, job,
                 behind, broken>>

\* An upload throws: what was uploaded stays, nothing is published, and the
\* job stays a success.
UploadBreaks ==
  /\ phase = "uploading" /\ ~(produced \subseteq objects)
  /\ phase' = "reporting" /\ broken' = TRUE
  /\ UNCHANGED <<file, call, rows, job, behind>>

\* Mutant: the worker does not wait for the answer of report_outputs.
PostAndGo ==
  /\ phase = "uploading" /\ produced \subseteq objects
  /\ phase' = "reporting"
  /\ left' = produced /\ step' = (IF produced = {} THEN "none" ELSE "begin")
  /\ UNCHANGED <<current, file, rows, job, behind, broken>>

\* stage_out is through: what it published is posted, if there is anything.
Post ==
  /\ phase = "uploading" /\ produced \subseteq objects
  /\ left' = produced
  /\ IF produced = {} THEN phase' = "reporting" /\ UNCHANGED step
     ELSE phase' = "posting" /\ step' = "begin"
  /\ UNCHANGED <<current, file, rows, job, behind, broken>>

\* report_outputs has no answer in time: the worker goes on, and so does the
\* call.
GiveUp ==
  /\ phase = "posting" /\ phase' = "reporting" /\ broken' = TRUE
  /\ UNCHANGED <<file, call, rows, job, behind>>

\* report_result, and the transaction of reportResult.
Report ==
  /\ phase = "reporting" /\ phase' = "gone"
  /\ job' = exit
  /\ fan' = IF exit = "success" THEN "due" ELSE fan
  /\ UNCHANGED <<file, call, rows, next, staged, broken>>

\* The worker stops, or its report does not arrive: the job is failed by the
\* monitor.
Stop ==
  /\ phase # "gone" /\ phase' = "gone"
  /\ job' = "failed" /\ broken' = TRUE
  /\ UNCHANGED <<file, call, rows, behind>>
-----------------------------------------------------------------------------
(* recordOutputs: each write is committed by itself.                       *)

\* The next output; one without a type leaves no product.
Begin(o) ==
  /\ step = "begin" /\ o \in left
  /\ left' = left \ {o} /\ current' = o
  /\ IF o \in Typed THEN products' = products \cup {o} /\ step' = "link"
     ELSE step' = "content" /\ UNCHANGED products
  /\ UNCHANGED <<phase, file, linked, listed, merged, job, behind, broken>>

\* The path of the object is recorded and tied to the product ...
Link ==
  /\ step = "link" /\ step' = "list"
  /\ linked' = linked \cup {current}
  /\ UNCHANGED <<phase, file, left, current, products, listed, merged, job,
                 behind, broken>>

\* ... the product enters the output dataset ...
List ==
  /\ step = "list" /\ step' = "content"
  /\ listed' = listed \cup {current}
  /\ UNCHANGED <<phase, file, left, current, products, linked, merged, job,
                 behind, broken>>

\* Mutant: what was in parametersOut is not kept.
MergeReplaces ==
  /\ step = "content" /\ step' = "begin"
  /\ merged' = (IF current \in readable THEN {current} ELSE merged)
  /\ UNCHANGED <<phase, file, left, current, products, linked, listed, job,
                 behind, broken>>

\* ... and the content is merged into parametersOut, if the worker could read
\* it: else the output was posted without one.
Merge ==
  /\ step = "content" /\ step' = "begin"
  /\ merged' = merged \cup ({current} \cap readable)
  /\ UNCHANGED <<phase, file, left, current, products, linked, listed, job,
                 behind, broken>>

\* Whether the worker still waits, or has given up, it reports what follows.
Answered == IF phase = "posting" THEN "reporting" ELSE phase

\* All outputs are recorded: the API answers.
Answer ==
  /\ step = "begin" /\ left = {} /\ step' = "none" /\ phase' = Answered
  /\ UNCHANGED <<left, current, file, rows, job, behind, broken>>

\* The request does not arrive, or a write throws: what was recorded stays.
CallBreaks ==
  /\ step # "none" /\ step' = "none" /\ phase' = Answered /\ broken' = TRUE
  /\ UNCHANGED <<left, current, file, rows, job, behind>>
-----------------------------------------------------------------------------
(* The work behind it.                                                     *)

\* expandFanOut takes the blocks from parametersOut, else from the object of
\* the product that findFirst returns, any one of the batch, if that has a path
\* and can be read; else it throws.
FanOut ==
  /\ fan = "due"
  /\ fan' \in IF Calc \in merged THEN {"done"}
             ELSE {"failed"} \cup {"done" : p \in products \cap linked \cap {Calc}}
  /\ UNCHANGED <<phase, file, call, rows, job, next, staged, broken>>

\* dep_tick, for an edge that waits for success.
Release ==
  /\ next = "waiting" /\ job = "success" /\ next' = "ready"
  /\ UNCHANGED <<phase, file, call, rows, job, fan, staged, broken>>

\* nextJob hands the job out with the listed products that have a path.
Start ==
  /\ next = "ready" /\ next' = "running"
  /\ staged' = listed \cap linked
  /\ UNCHANGED <<phase, file, call, rows, job, fan, broken>>

Next ==
  \/ RunEnds \/ UploadBreaks \/ Post \/ GiveUp \/ Report \/ Stop
  \/ Link \/ List \/ Merge \/ Answer \/ CallBreaks
  \/ FanOut \/ Release \/ Start
  \/ \E o \in Outputs : Upload(o) \/ Begin(o)

Spec == Init /\ [][Next]_vars
-----------------------------------------------------------------------------
\* Although outputs and result are two requests and the first is recorded in
\* pieces, a job that starts behind a success gets every file the run wrote
\* that has a type, unless an upload, the call or the worker broke.  Behind a
\* worker that cannot reach the store it gets none of them, though nothing
\* broke.
InputsComplete ==
  next = "running" /\ ~broken =>
    staged = IF store THEN produced \cap Typed ELSE {}

\* At any time, and whatever broke: what a reader finds in the dataset has a
\* path, and the object is there.  Outputs are not skipped silently because
\* they were read between two writes.
ListedIsThere == listed \subseteq products \cap linked \cap objects

\* The fan-out after the report finds the blocks that CALC wrote so that they
\* can be read; it fails only if there were none, something broke before, or
\* the worker could not publish them.
FanOutFindsBlocks == fan = "failed" /\ Calc \in readable => broken \/ ~store
=============================================================================
