---------------------------- MODULE TaskExpansion ----------------------------
(***************************************************************************)
(* How tasks come to be and get their batches.  Operators create, trigger, *)
(* expand and delete tasks and create or replay batches, each of which     *)
(* brings a task of its own (task.service.ts, batch.service.ts); the       *)
(* dispatcher creates a task for an idle watcher chain (watcher.py) and    *)
(* sends due tasks to the API to be expanded (tasks.py).  The call is      *)
(* answered, refused, lost or outlives the dispatcher's patience.  How the *)
(* batches of a task end is the subject of TaskRollup: here one expansion  *)
(* is one piece of work.                                                   *)
(***************************************************************************)
EXTENDS Naturals, FiniteSets

CONSTANTS
  MaxTasks,    \* bound: rows of the table task
  MaxMishaps   \* bound: expansions and triggers by operators, lost calls and
               \* answers, restarts of the dispatcher, together

ASSUME ExpansionAssumption == MaxTasks \in Nat \ {0} /\ MaxMishaps \in Nat

Tasks  == 1 .. MaxTasks
NoTask == 0

VARIABLES
  rows,        \* how many tasks there are
  status,      \* column status
  origin,      \* who created the task
  watched,     \* tasks of the watcher chain
  bad,         \* tasks that expand refuses: no script, no node, no version
  due,         \* tasks whose scheduledStartTime has come
  deleted,     \* tasks with a deletedAt
  expansions,  \* how often the task was expanded
  open,        \* pieces of its work that are not over
  triggers,    \* calls of trigger that have read the task as Edited
  calls,       \* calls of expand that have passed its guard
  todo,        \* task_tick: the tasks it has selected and not yet sent
  asked,       \* task_tick: the task whose expansion it waits for
  answered,    \* ... and whether the API has answered it
  excused,     \* history: tasks that something has happened to which may
               \* have them expanded once more
  mishaps

dispatcher == <<todo, asked, answered>>
vars == <<rows, status, origin, watched, bad, due, deleted, expansions, open,
          triggers, calls, todo, asked, answered, excused, mishaps>>

\* An expansion under way; "by" is 0 for the one task_tick waits for.
Call == [task : Tasks, by : 0 .. MaxMishaps]

Init ==
  /\ rows = 0 /\ mishaps = MaxMishaps
  /\ status = [t \in Tasks |-> "None"] /\ origin = [t \in Tasks |-> "None"]
  /\ watched = {} /\ bad = {} /\ due = {} /\ deleted = {}
  /\ expansions = [t \in Tasks |-> 0] /\ open = [t \in Tasks |-> 0]
  /\ triggers = {} /\ calls = {}
  /\ todo = {} /\ asked = NoTask /\ answered = FALSE /\ excused = {}

Live(t) == status[t] \in {"Queued", "Running"} /\ t \notin deleted
-----------------------------------------------------------------------------
(* Where tasks come from.                                                  *)

\* A row is inserted; whether expand will refuse it is the operators' doing.
Insert(s, who, isWatched, refused) ==
  /\ rows < MaxTasks /\ rows' = rows + 1
  /\ status' = [status EXCEPT ![rows'] = s]
  /\ origin' = [origin EXCEPT ![rows'] = who]
  /\ watched' = IF isWatched THEN watched \cup {rows'} ELSE watched
  /\ bad' = IF refused THEN bad \cup {rows'} ELSE bad
  /\ UNCHANGED <<deleted, expansions, triggers, calls, dispatcher, mishaps>>

\* TaskService.create, for any chain, to start later.
Create(isWatched, refused) ==
  /\ Insert("Edited", "operator", isWatched, refused)
  /\ UNCHANGED <<due, open, excused>>

\* A task is queued together with a first batch of its own.
WithBatch(who, isWatched, refused) ==
  /\ Insert("Queued", who, isWatched, refused)
  /\ open' = [open EXCEPT ![rows'] = 1] /\ UNCHANGED <<due, excused>>

\* The batch has a job that is ready.
CreateStandaloneBatch(refused) == WithBatch("standalone", FALSE, refused)

\* The batch has no job.
CreateChainBatch(isWatched, refused) == WithBatch("hollow", isWatched, refused)

\* The batch has waiting jobs that nobody decides; expand refuses the task,
\* which has no chain, unless it replays a standalone batch.
Replay(refused) == WithBatch("hollow", FALSE, refused)

\* Mutant: a task that is running does not hold back the next.
IdleWhenNoneQueued == \A t \in watched : status[t] # "Queued" \/ t \in deleted

\* No task of the watcher chain is queued or running.
Idle == \A t \in watched : ~Live(t)

\* watcher_tick looks and inserts in one transaction.
WatcherTick(refused) ==
  /\ Idle /\ Insert("Queued", "watcher", TRUE, refused)
  /\ due' = due \cup {rows'} /\ UNCHANGED <<open, excused>>

\* The scheduledStartTime of a task comes.
ComesDue(t) ==
  /\ t <= rows /\ t \notin due /\ due' = due \cup {t}
  /\ UNCHANGED <<rows, status, origin, watched, bad, deleted, expansions, open,
                 triggers, calls, dispatcher, excused, mishaps>>
-----------------------------------------------------------------------------
(* The operators' calls on a task.                                         *)

Delete(t) ==
  /\ t <= rows /\ t \notin deleted /\ deleted' = deleted \cup {t}
  /\ UNCHANGED <<rows, status, origin, watched, bad, due, expansions, open,
                 triggers, calls, dispatcher, excused, mishaps>>

\* Mutant: a task that is done may be triggered again.
TriggerableAgain(t) == status[t] \in {"Edited", "Done"} /\ t \notin deleted

Triggerable(t) == status[t] = "Edited" /\ t \notin deleted

\* trigger looks at the task ...
TriggerRead(t) ==
  /\ mishaps > 0 /\ mishaps' = mishaps - 1 /\ Triggerable(t)
  /\ triggers' = triggers \cup {[task |-> t, by |-> mishaps]}
  /\ UNCHANGED <<rows, status, origin, watched, bad, due, deleted, expansions,
                 open, calls, dispatcher, excused>>

\* ... and queues it, whatever it has become.
TriggerWrite(c) ==
  /\ c \in triggers /\ triggers' = triggers \ {c}
  /\ status' = [status EXCEPT ![c.task] = "Queued"]
  /\ excused' = IF \E d \in triggers' : d.task = c.task
                THEN excused \cup {c.task} ELSE excused
  /\ UNCHANGED <<rows, origin, watched, bad, due, deleted, expansions, open,
                 calls, dispatcher, mishaps>>
-----------------------------------------------------------------------------
(* expand: it reads the task before its transaction and never writes it.   *)

Expandable(t) == status[t] \in {"Edited", "Queued"} /\ t \notin deleted

\* expand finds a script, a version and nodes for the task.
Accepted(t) == Expandable(t) /\ t \notin bad

\* An operator expands a task.
ExpandByHand(t) ==
  /\ mishaps > 0 /\ mishaps' = mishaps - 1
  /\ Accepted(t)
  /\ calls' = calls \cup {[task |-> t, by |-> mishaps]}
  /\ excused' = excused \cup {t}
  /\ UNCHANGED <<rows, status, origin, watched, bad, due, deleted, expansions,
                 open, triggers, dispatcher>>

\* The transaction commits.  The answer is a success unless the task, which
\* is read once more for it, has been deleted meanwhile.
Commit(c) ==
  /\ c \in calls /\ calls' = calls \ {c}
  /\ expansions' = [expansions EXCEPT ![c.task] = @ + 1]
  /\ open' = [open EXCEPT ![c.task] = @ + 1]
  /\ IF c.by # 0 THEN UNCHANGED dispatcher
     ELSE IF c.task \in deleted
     THEN asked' = NoTask /\ UNCHANGED <<todo, answered>>
     ELSE answered' = TRUE /\ UNCHANGED <<todo, asked>>
  /\ UNCHANGED <<rows, status, origin, watched, bad, due, deleted, triggers,
                 excused, mishaps>>

\* The transaction fails or the API stops: nothing is left of it.
Fail(c) ==
  /\ mishaps > 0 /\ mishaps' = mishaps - 1
  /\ c \in calls /\ calls' = calls \ {c}
  /\ asked' = IF c.by = 0 THEN NoTask ELSE asked
  /\ UNCHANGED <<rows, status, origin, watched, bad, due, deleted, expansions,
                 open, triggers, todo, answered, excused>>
-----------------------------------------------------------------------------
(* task_tick.                                                              *)

\* The tick selects the queued tasks that are due; it skips a row that the
\* transaction of an expansion has locked.
Select(skipped) ==
  /\ todo = {} /\ asked = NoTask
  /\ todo' = {t \in due : status[t] = "Queued"} \ (deleted \cup skipped)
  /\ UNCHANGED <<rows, status, origin, watched, bad, due, deleted, expansions,
                 open, triggers, calls, asked, answered, excused, mishaps>>

\* Mutant: a task that is refused ends the tick.
RestAfterRefusal(t) == {}

\* The tick goes on after a task that is refused.
Rest(t) == todo \ {t}

\* It asks for the next one; expand reads the task and takes or refuses it.
Ask(t) ==
  /\ asked = NoTask /\ t \in todo
  /\ IF Accepted(t)
     THEN /\ calls' = calls \cup {[task |-> t, by |-> 0]} /\ asked' = t
          /\ todo' = todo \ {t}
     ELSE todo' = Rest(t) /\ UNCHANGED <<calls, asked>>
  /\ UNCHANGED <<rows, status, origin, watched, bad, due, deleted, expansions,
                 open, triggers, answered, excused, mishaps>>

\* Mutant: a call that has failed is taken for a success.
CanPromoteUnanswered == asked # NoTask

CanPromote == asked # NoTask /\ answered

\* The task is set to running without a look at it.
Promote ==
  /\ CanPromote
  /\ status' = [status EXCEPT ![asked] = "Running"]
  /\ asked' = NoTask /\ answered' = FALSE
  /\ UNCHANGED <<rows, origin, watched, bad, due, deleted, expansions, open,
                 triggers, calls, todo, excused, mishaps>>

\* Nobody waits for the call any more; the API goes on with it, or has
\* committed it.
GiveUp ==
  /\ mishaps > 0 /\ mishaps' = mishaps - 1
  /\ excused' = excused \cup ({asked} \ {NoTask})
  /\ calls' = {IF c.by = 0 THEN [c EXCEPT !.by = mishaps] ELSE c : c \in calls}
  /\ asked' = NoTask /\ answered' = FALSE
  /\ UNCHANGED <<rows, status, origin, watched, bad, due, deleted, expansions,
                 open, triggers>>

\* It times out or its answer is lost: the tick goes on with the next task.
LoseAnswer == asked # NoTask /\ GiveUp /\ UNCHANGED todo

\* The dispatcher restarts, or its update fails and ends the tick.
Restart == GiveUp /\ todo' = {}
-----------------------------------------------------------------------------
(* The work of a task (TaskRollup).                                        *)

\* A batch without jobs, or with jobs that nobody decides, is never over.
Unfinishable(t) == IF origin[t] = "hollow" THEN 1 ELSE 0

WorkEnds(t) ==
  /\ open[t] > Unfinishable(t) /\ open' = [open EXCEPT ![t] = @ - 1]
  /\ UNCHANGED <<rows, status, origin, watched, bad, due, deleted, expansions,
                 triggers, calls, dispatcher, excused, mishaps>>

Close(t) ==
  /\ status[t] = "Running" /\ open[t] = 0
  /\ status' = [status EXCEPT ![t] = "Done"]
  /\ UNCHANGED <<rows, origin, watched, bad, due, deleted, expansions, open,
                 triggers, calls, dispatcher, excused, mishaps>>

Next ==
  \/ \E isWatched, refused \in BOOLEAN :
       Create(isWatched, refused) \/ CreateChainBatch(isWatched, refused)
  \/ \E refused \in BOOLEAN :
       CreateStandaloneBatch(refused) \/ Replay(refused) \/ WatcherTick(refused)
  \/ \E t \in Tasks : \/ ComesDue(t) \/ Delete(t) \/ TriggerRead(t)
                      \/ ExpandByHand(t) \/ Ask(t) \/ WorkEnds(t) \/ Close(t)
  \/ \E c \in triggers : TriggerWrite(c)
  \/ \E c \in calls : Commit(c) \/ Fail(c)
  \/ \E skipped \in SUBSET {c.task : c \in calls} : Select(skipped)
  \/ Promote \/ LoseAnswer \/ Restart

Spec == Init /\ [][Next]_vars

\* task_tick runs again and again, the API answers, jobs end and the
\* finalizer runs; the watcher's loop runs too.
FairSpec ==
  /\ Spec
  /\ WF_vars(Select({}))
  /\ WF_vars(\E t \in Tasks : Ask(t)) /\ WF_vars(Promote)
  /\ WF_vars(\E c \in calls : Commit(c))
  /\ \A t \in Tasks : WF_vars(WorkEnds(t)) /\ WF_vars(Close(t))
-----------------------------------------------------------------------------
\* A task is expanded once, in spite of ticks that select from an old list,
\* unless something has excused it: an operator expanded it by hand or
\* triggered it twice at once, or the answer got lost.  (A task that was
\* created with a batch is expanded once too, beside that batch.)
ExpandedOnce == \A t \in Tasks \ excused : expansions[t] <= 1

\* Two runs of a watcher do not overlap, unless one was deleted while it ran
\* or an answer got lost.
WatcherRunsApart ==
  \A t, u \in {w \in Tasks : origin[w] = "watcher"} \ (excused \cup deleted) :
    open[t] > 0 /\ open[u] > 0 => t = u

\* A task that is running or done has been expanded, and one that is done has
\* no work left unless it was expanded late.
RunningIsExpanded ==
  \A t \in Tasks : /\ status[t] \in {"Running", "Done"} => expansions[t] > 0
                   /\ status[t] = "Done" /\ t \notin excused => open[t] = 0

\* A queued task that is due is run, unless expand refuses it or it is
\* deleted; tasks that are refused at every tick do not hold it back.
DueIsRun ==
  \A t \in Tasks : status[t] = "Queued" /\ t \in due \ bad
                     ~> status[t] = "Running" \/ t \in deleted
=============================================================================
