------------------------- MODULE TaskServiceProofs --------------------------
(***************************************************************************)
(* Theorems about what the task service of the API works on: how often it  *)
(* expands a task (TaskExpansion), for any number of tasks and mishaps,    *)
(* the graph that it expands (ChainGraph), for any nodes and edits, and    *)
(* the plan that it makes of the graph (ChainPlan), for any order of rows. *)
(***************************************************************************)
EXTENDS TaskExpansion, ChainPlan, SequenceTheorems, FiniteSetTheorems,
        NaturalsInduction, WellFoundedInduction, TLAPS

-----------------------------------------------------------------------------
(* The expansion of tasks.                                                 *)

States  == {"None", "Edited", "Queued", "Running", "Done"}
Origins == {"None", "operator", "watcher", "standalone", "hollow"}

Types ==
  /\ rows \in 0 .. MaxTasks /\ mishaps \in 0 .. MaxMishaps
  /\ status \in [Tasks -> States] /\ origin \in [Tasks -> Origins]
  /\ watched \subseteq Tasks /\ bad \subseteq Tasks /\ due \subseteq Tasks
  /\ deleted \subseteq Tasks /\ excused \subseteq Tasks
  /\ expansions \in [Tasks -> Nat] /\ open \in [Tasks -> Nat]
  /\ triggers \subseteq Call /\ calls \subseteq Call
  /\ todo \subseteq Tasks /\ asked \in Tasks \cup {NoTask}
  /\ answered \in BOOLEAN

\* Nothing has happened to a row that is not there.
Fresh ==
  /\ \A t \in Tasks : t > rows =>
       /\ status[t] = "None" /\ origin[t] = "None" /\ expansions[t] = 0
       /\ t \notin excused
  /\ \A t \in Tasks : status[t] = "None" => t > rows

\* What task_tick has in hand is still queued, so its blind write of running
\* never revives a task.
TickHoldsQueued ==
  /\ \A t \in todo : status[t] = "Queued"
  /\ asked # NoTask => status[asked] = "Queued" /\ asked \notin todo
  /\ answered => asked # NoTask /\ expansions[asked] > 0
  /\ asked # NoTask /\ ~answered /\ asked \notin excused
       => expansions[asked] = 0

\* The one call of an unexcused task is the one task_tick waits for.
CallsAccounted ==
  \A c \in calls : IF c.by = 0 THEN c.task = asked /\ ~answered
                   ELSE c.task \in excused

\* A trigger under way finds the task as it has read it, or another trigger
\* has overlapped with it; it concerns a task that an operator created.
TriggersAccounted ==
  \A c \in triggers : /\ origin[c.task] = "operator"
                      /\ c.task \in excused \/ status[c.task] = "Edited"

\* An unexcused task that was expanded is not offered again.
Once ==
  \A t \in Tasks \ excused :
    /\ expansions[t] <= 1
    /\ expansions[t] = 1 => \/ status[t] \in {"Running", "Done"}
                            \/ asked = t /\ answered
                            \/ t \in deleted

\* The watcher's tasks belong to its chain, and one of them is live.
OneLive ==
  /\ \A t \in Tasks : status[t] = "Edited" => origin[t] = "operator"
  /\ \A t \in Tasks : origin[t] = "watcher" => t \in watched
  /\ \A t, u \in Tasks :
       origin[t] = "watcher" /\ origin[u] = "watcher" /\ Live(t) /\ Live(u)
         => t = u

IInv ==
  /\ Types /\ Fresh /\ TickHoldsQueued /\ CallsAccounted /\ TriggersAccounted
  /\ Once /\ OneLive /\ RunningIsExpanded
-----------------------------------------------------------------------------
LEMMA InitInv == Init => IInv
<1> SUFFICES ASSUME Init
             PROVE  IInv
  OBVIOUS
<1>1. Types
  <2>1. /\ rows \in 0 .. MaxTasks /\ mishaps \in 0 .. MaxMishaps
    BY ExpansionAssumption DEF Init
  <2>2. /\ status \in [Tasks -> States] /\ origin \in [Tasks -> Origins]
        /\ expansions \in [Tasks -> Nat] /\ open \in [Tasks -> Nat]
    BY DEF Init, States, Origins
  <2>3. answered \in BOOLEAN
    BY DEF Init
  <2> QED BY <2>1, <2>2, <2>3 DEF Init, Types
<1>2. Fresh
  BY DEF Init, Fresh, Tasks
<1>3. TickHoldsQueued /\ CallsAccounted /\ TriggersAccounted
  BY DEF Init, TickHoldsQueued, CallsAccounted, TriggersAccounted
<1>4. Once /\ OneLive /\ RunningIsExpanded
  BY DEF Init, Once, OneLive, Live, RunningIsExpanded
<1> QED
  BY <1>1, <1>2, <1>3, <1>4 DEF IInv

\* What is in hand of task_tick, in calls or in triggers is a row that exists.
LEMMA Known ==
  ASSUME IInv
  PROVE  /\ \A t \in todo : t <= rows
         /\ asked # NoTask => asked <= rows
         /\ \A c \in triggers : c.task <= rows
  BY DEF IInv, Types, Fresh, TickHoldsQueued, TriggersAccounted, Tasks, NoTask,
         Call

\* A row appears: operators, the watcher and batches agree in this.
LEMMA InsertInv ==
  ASSUME IInv, NEW s \in {"Edited", "Queued"},
         NEW who \in {"operator", "watcher", "standalone", "hollow"},
         NEW w \in BOOLEAN, NEW b \in BOOLEAN,
         Insert(s, who, w, b), due' \subseteq Tasks, excused' = excused,
         open' \in [Tasks -> Nat],
         \A t \in Tasks : t <= rows => open'[t] = open[t],
         s = "Edited" => who = "operator",
         who = "watcher" => w /\ Idle
  PROVE  IInv'
<1> DEFINE n == rows + 1
<1>1. n \in Tasks /\ rows' = n /\ n > rows /\ n # NoTask
  BY ExpansionAssumption DEF IInv, Types, Insert, Tasks, NoTask
<1>2. /\ \A t \in Tasks : status'[t] = IF t = n THEN s ELSE status[t]
      /\ \A t \in Tasks : origin'[t] = IF t = n THEN who ELSE origin[t]
      /\ status' \in [Tasks -> States] /\ origin' \in [Tasks -> Origins]
  BY <1>1 DEF IInv, Types, Insert, States, Origins
<1>3. Types'
  BY <1>1, <1>2 DEF IInv, Types, Insert, dispatcher, Tasks
<1>4. n \notin todo /\ asked # n /\ \A c \in triggers : c.task # n
  BY <1>1, Known DEF IInv, Types, Tasks
<1>5. Fresh'
  BY <1>1, <1>2 DEF IInv, Types, Fresh, Insert, Tasks
<1>6. TickHoldsQueued'
  BY <1>1, <1>2, <1>4 DEF IInv, Types, TickHoldsQueued, Insert, dispatcher,
                          Tasks, NoTask
<1>7. CallsAccounted'
  BY DEF IInv, CallsAccounted, Insert, dispatcher
<1>8. TriggersAccounted'
  BY <1>2, <1>4 DEF IInv, Types, TriggersAccounted, Insert, Call
<1>9. Once'
  BY <1>1, <1>2 DEF IInv, Types, Fresh, Once, Insert, dispatcher, Tasks
<1>10. OneLive'
  <2>1. CASE who = "watcher"
    <3>1. \A t \in Tasks : origin[t] = "watcher" => ~Live(t)
      BY <2>1 DEF IInv, OneLive, Idle
    <3> QED
      BY <1>1, <1>2, <2>1, <3>1 DEF IInv, Types, OneLive, Insert, Live
  <2>2. CASE who # "watcher"
    BY <1>1, <1>2, <2>2 DEF IInv, Types, OneLive, Insert, Live
  <2> QED BY <2>1, <2>2
<1>11. RunningIsExpanded'
  BY <1>1, <1>2 DEF IInv, Types, Fresh, RunningIsExpanded, Insert, Tasks
<1> QED
  BY <1>3, <1>5, <1>6, <1>7, <1>8, <1>9, <1>10, <1>11 DEF IInv

LEMMA TasksAppear ==
  ASSUME IInv
  PROVE  /\ \A w, b \in BOOLEAN : Create(w, b) \/ CreateChainBatch(w, b) => IInv'
         /\ \A b \in BOOLEAN :
              CreateStandaloneBatch(b) \/ Replay(b) \/ WatcherTick(b) => IInv'
<1>1. ASSUME NEW who \in {"standalone", "hollow"}, NEW w \in BOOLEAN,
             NEW b \in BOOLEAN, WithBatch(who, w, b)
      PROVE  IInv'
  <2>1. rows' \in Tasks /\ rows' > rows
    BY <1>1, ExpansionAssumption DEF IInv, Types, WithBatch, Insert, Tasks
  <2>2. /\ open' \in [Tasks -> Nat]
        /\ \A t \in Tasks : t <= rows => open'[t] = open[t]
    BY <1>1, <2>1 DEF IInv, Types, WithBatch, Tasks
  <2> QED
    BY <1>1, <2>2, InsertInv DEF IInv, Types, WithBatch
<1>2. ASSUME NEW w \in BOOLEAN, NEW b \in BOOLEAN, Create(w, b)
      PROVE  IInv'
  BY <1>2, InsertInv DEF IInv, Types, Create
<1>3. ASSUME NEW b \in BOOLEAN, WatcherTick(b)
      PROVE  IInv'
  <2>1. rows' \in Tasks
    BY <1>3, ExpansionAssumption DEF IInv, Types, WatcherTick, Insert, Tasks
  <2> QED
    BY <1>3, <2>1, InsertInv DEF IInv, Types, WatcherTick
<1> QED
  BY <1>1, <1>2, <1>3 DEF CreateChainBatch, CreateStandaloneBatch, Replay

\* Operators read, trigger, expand and delete.
LEMMA OperatorsCall ==
  ASSUME IInv, NEW t \in Tasks,
         ComesDue(t) \/ Delete(t) \/ TriggerRead(t) \/ ExpandByHand(t)
  PROVE  IInv'
<1> USE DEF IInv
<1>1. Types'
  BY ExpansionAssumption
  DEF Types, ComesDue, Delete, TriggerRead, ExpandByHand, dispatcher, Call
<1>2. Fresh'
  BY DEF Fresh, ComesDue, Delete, TriggerRead, ExpandByHand, Accepted,
         Expandable
<1>3. TickHoldsQueued'
  BY DEF TickHoldsQueued, ComesDue, Delete, TriggerRead, ExpandByHand, dispatcher
<1>4. CallsAccounted'
  BY DEF Types, CallsAccounted, ComesDue, Delete, TriggerRead, ExpandByHand,
         dispatcher
<1>5. TriggersAccounted'
  BY DEF Types, TriggersAccounted, OneLive, ComesDue, Delete, TriggerRead,
         Triggerable, ExpandByHand
<1>6. Once'
  BY DEF Once, ComesDue, Delete, TriggerRead, ExpandByHand, dispatcher
<1>7. OneLive'
  BY DEF OneLive, Live, ComesDue, Delete, TriggerRead, ExpandByHand
<1>8. RunningIsExpanded'
  BY DEF RunningIsExpanded, ComesDue, Delete, TriggerRead, ExpandByHand
<1> QED
  BY <1>1, <1>2, <1>3, <1>4, <1>5, <1>6, <1>7, <1>8

\* The blind write of trigger: it meets a task as it was read, or excuses it.
LEMMA TriggerWrites ==
  ASSUME IInv, NEW c \in triggers, TriggerWrite(c)
  PROVE  IInv'
<1> USE DEF IInv
<1>1. c.task \in Tasks /\ c.task <= rows /\ origin[c.task] = "operator"
  BY Known DEF Types, Call, TriggersAccounted
<1>2. \A t \in Tasks :
        status'[t] = IF t = c.task THEN "Queued" ELSE status[t]
  BY <1>1 DEF Types, TriggerWrite
<1>3. /\ excused \subseteq excused'
      /\ c.task \in excused' \/ status[c.task] = "Edited"
  BY DEF TriggersAccounted, TriggerWrite
<1>4. Types'
  BY <1>1 DEF Types, States, TriggerWrite, dispatcher
<1>5. Fresh'
  BY <1>1, <1>2 DEF Fresh, TriggerWrite, Types, Tasks
<1>6. TickHoldsQueued'
  BY <1>2, <1>3 DEF TickHoldsQueued, TriggerWrite, dispatcher, Types
<1>7. CallsAccounted'
  BY <1>3 DEF CallsAccounted, TriggerWrite, dispatcher
<1>8. TriggersAccounted'
  BY <1>2, <1>3 DEF TriggersAccounted, TriggerWrite, Types, Call
<1>9. Once'
  <2>1. ASSUME NEW t \in Tasks \ excused', expansions[t] = 1
        PROVE  \/ status'[t] \in {"Running", "Done"}
               \/ asked = t /\ answered
               \/ t \in deleted
    BY <2>1, <1>2, <1>3 DEF Once, TickHoldsQueued, Types, NoTask, Tasks
  <2> QED
    BY <2>1, <1>3 DEF Once, TriggerWrite, dispatcher
<1>10. OneLive'
  BY <1>1, <1>2 DEF OneLive, Live, TriggerWrite
<1>11. RunningIsExpanded'
  BY <1>2, <1>3 DEF RunningIsExpanded, TriggerWrite
<1> QED
  BY <1>4, <1>5, <1>6, <1>7, <1>8, <1>9, <1>10, <1>11

\* The transaction of expand ends.
LEMMA ExpandEnds ==
  ASSUME IInv, NEW c \in calls, Commit(c) \/ Fail(c)
  PROVE  IInv'
<1> USE DEF IInv
<1>1. c.task \in Tasks /\ c.by \in Nat
  BY DEF Types, Call
<1>2. \A d \in calls : d.by = 0 /\ c.by = 0 => d = c
  BY DEF Types, Call, CallsAccounted
<1>3. c.by = 0 => /\ asked = c.task /\ ~answered /\ asked # NoTask
                  /\ status[c.task] = "Queued"
                  /\ c.task \in excused \/ expansions[c.task] = 0
  BY <1>1 DEF CallsAccounted, TickHoldsQueued, Tasks, NoTask
<1>4. c.by # 0 => c.task \in excused
  BY DEF CallsAccounted
<1>5. CASE Commit(c)
  <2>1. \A t \in Tasks :
          /\ expansions'[t] = IF t = c.task THEN expansions[t] + 1
                              ELSE expansions[t]
          /\ open'[t] = IF t = c.task THEN open[t] + 1 ELSE open[t]
    BY <1>1, <1>5 DEF Types, Commit
  <2>2. Types'
    <3>1. /\ expansions' \in [Tasks -> Nat] /\ open' \in [Tasks -> Nat]
          /\ calls' \subseteq Call
      BY <1>1, <1>5 DEF Types, Commit
    <3>2. /\ todo' = todo /\ asked' \in {asked, NoTask}
          /\ answered' \in {answered, TRUE}
      BY <1>5 DEF Commit, dispatcher
    <3> QED BY <1>5, <3>1, <3>2 DEF Types, Commit
  <2>3. Fresh'
    <3>1. c.task <= rows
      BY <1>1, <1>3, <1>4 DEF Fresh, Types, Tasks
    <3> QED BY <1>5, <2>1, <3>1 DEF Fresh, Commit, Types, Tasks
  <2>4. TickHoldsQueued'
    BY <1>3, <1>4, <1>5, <2>1 DEF TickHoldsQueued, Commit, dispatcher, Types, NoTask
  <2>5. CallsAccounted'
    BY <1>2, <1>3, <1>5 DEF CallsAccounted, Commit, dispatcher, Types, Call
  <2>6. TriggersAccounted'
    BY <1>5 DEF TriggersAccounted, Commit
  <2>7. Once'
    BY <1>1, <1>3, <1>4, <1>5, <2>1 DEF Once, Commit, dispatcher, Types
  <2>8. OneLive'
    BY <1>5 DEF OneLive, Live, Commit
  <2>9. RunningIsExpanded'
    BY <1>3, <1>4, <1>5, <2>1 DEF RunningIsExpanded, Commit, Types
  <2> QED
    BY <2>2, <2>3, <2>4, <2>5, <2>6, <2>7, <2>8, <2>9
<1>6. CASE Fail(c)
  <2>1. Types'
    BY <1>6, ExpansionAssumption DEF Types, Fail, NoTask
  <2>2. Fresh' /\ TriggersAccounted' /\ OneLive' /\ RunningIsExpanded'
    BY <1>6 DEF Fresh, TriggersAccounted, OneLive, Live, RunningIsExpanded, Fail
  <2>3. TickHoldsQueued'
    BY <1>3, <1>6 DEF TickHoldsQueued, Fail, NoTask
  <2>4. CallsAccounted'
    BY <1>2, <1>3, <1>6 DEF CallsAccounted, Fail
  <2>5. Once'
    BY <1>3, <1>6 DEF Once, Fail
  <2> QED
    BY <2>1, <2>2, <2>3, <2>4, <2>5
<1> QED
  BY <1>5, <1>6

\* task_tick selects and asks.
LEMMA TickAsks ==
  ASSUME IInv,
         \/ \E skipped \in SUBSET {c.task : c \in calls} : Select(skipped)
         \/ \E t \in Tasks : Ask(t)
  PROVE  IInv'
<1> USE DEF IInv
<1>1. ASSUME NEW skipped, Select(skipped)
      PROVE  IInv'
  <2>1. Types'
    BY <1>1 DEF Types, Select
  <2>2. /\ Fresh' /\ CallsAccounted' /\ TriggersAccounted' /\ Once'
        /\ OneLive' /\ RunningIsExpanded'
    BY <1>1 DEF Fresh, CallsAccounted, TriggersAccounted, Once, OneLive, Live,
                RunningIsExpanded, Select
  <2>3. TickHoldsQueued'
    BY <1>1 DEF TickHoldsQueued, Select
  <2> QED
    BY <2>1, <2>2, <2>3
<1>2. ASSUME NEW t \in Tasks, Ask(t)
      PROVE  IInv'
  <2>1. asked = NoTask /\ ~answered /\ status[t] = "Queued" /\ t # NoTask
    BY <1>2 DEF Ask, TickHoldsQueued, Tasks, NoTask
  <2>2. \A c \in calls : c.by # 0
    BY <2>1 DEF CallsAccounted, Types, Call, Tasks, NoTask
  <2>3. Types'
    BY <1>2, ExpansionAssumption DEF Types, Ask, Rest, Call
  <2>4. Fresh' /\ TriggersAccounted' /\ OneLive' /\ RunningIsExpanded'
    BY <1>2 DEF Fresh, TriggersAccounted, OneLive, Live, RunningIsExpanded, Ask
  <2>5. TickHoldsQueued'
    <3>1. CASE Accepted(t)
      <4>1. t \in excused \/ expansions[t] = 0
        BY <2>1, <3>1 DEF Once, Accepted, Expandable, Types
      <4> QED
        BY <1>2, <2>1, <3>1, <4>1 DEF TickHoldsQueued, Ask
    <3>2. CASE ~Accepted(t)
      BY <1>2, <2>1, <3>2 DEF TickHoldsQueued, Ask, Rest
    <3> QED BY <3>1, <3>2
  <2>6. CallsAccounted'
    BY <1>2, <2>1, <2>2 DEF CallsAccounted, Ask
  <2>7. Once'
    BY <1>2, <2>1 DEF Once, Ask
  <2> QED
    BY <2>3, <2>4, <2>5, <2>6, <2>7
<1> QED
  BY <1>1, <1>2

\* The blind write of running meets a task that is queued and expanded.
LEMMA TickPromotes ==
  ASSUME IInv, Promote
  PROVE  IInv'
<1> USE DEF IInv
<1>1. /\ asked \in Tasks /\ answered /\ status[asked] = "Queued"
      /\ asked \notin todo /\ expansions[asked] > 0
  BY DEF Types, TickHoldsQueued, Promote, CanPromote
<1>2. \A t \in Tasks : status'[t] = IF t = asked THEN "Running" ELSE status[t]
  BY <1>1 DEF Types, Promote
<1>3. Types'
  BY <1>1 DEF Types, States, Promote
<1>4. Fresh'
  BY <1>1, <1>2 DEF Fresh, Promote
<1>5. TickHoldsQueued'
  BY <1>1, <1>2 DEF TickHoldsQueued, Promote, Types, NoTask
<1>6. CallsAccounted'
  BY <1>1 DEF CallsAccounted, Promote
<1>7. TriggersAccounted'
  BY <1>1, <1>2 DEF TriggersAccounted, Promote, Types, Call
<1>8. Once'
  BY <1>1, <1>2 DEF Once, Promote
<1>9. OneLive'
  <2>1. \A t \in Tasks : Live(t)' <=> Live(t)
    BY <1>1, <1>2 DEF Live, Promote
  <2> QED BY <1>2, <2>1 DEF OneLive, Promote
<1>10. RunningIsExpanded'
  BY <1>1, <1>2 DEF RunningIsExpanded, Promote
<1> QED
  BY <1>3, <1>4, <1>5, <1>6, <1>7, <1>8, <1>9, <1>10

\* The answer does not arrive: the task is excused.
LEMMA TickGivesUp ==
  ASSUME IInv, LoseAnswer \/ Restart
  PROVE  IInv'
<1> USE DEF IInv
<1>1. /\ GiveUp /\ todo' \subseteq todo /\ asked' = NoTask /\ ~answered'
      /\ excused' = excused \cup ({asked} \ {NoTask})
      /\ mishaps \in Nat \ {0}
  BY DEF LoseAnswer, Restart, GiveUp, Types
<1>2. Types'
  <2>1. /\ mishaps' \in 0 .. MaxMishaps /\ mishaps \in 0 .. MaxMishaps
        /\ excused' \subseteq Tasks
    BY <1>1, ExpansionAssumption DEF Types, GiveUp
  <2>2. ASSUME NEW c \in Call
        PROVE  [c EXCEPT !.by = mishaps] \in Call
    BY <2>1 DEF Call
  <2>3. calls' \subseteq Call
    BY <2>2 DEF Types, GiveUp, LoseAnswer, Restart
  <2> QED BY <1>1, <2>1, <2>3 DEF Types, GiveUp
<1>3. Fresh' /\ OneLive'
  BY <1>1 DEF Fresh, OneLive, Live, GiveUp, TickHoldsQueued, Types, Tasks
<1>4. TickHoldsQueued'
  BY <1>1 DEF TickHoldsQueued, GiveUp
<1>5. CallsAccounted'
  <2>1. ASSUME NEW d \in calls'
        PROVE  d.by # 0 /\ d.task \in excused'
    <3>1. PICK c \in calls : d = IF c.by = 0 THEN [c EXCEPT !.by = mishaps] ELSE c
      BY <1>1 DEF GiveUp
    <3>2. c \in Call /\ d.task = c.task
      BY <3>1 DEF Types, Call
    <3>3. c.task \in Tasks /\ c.task # NoTask
      BY <3>2 DEF Call, Tasks, NoTask
    <3>4. d.by # 0
      BY <1>1, <3>1, <3>2 DEF Call
    <3> QED BY <1>1, <3>2, <3>3, <3>4 DEF CallsAccounted
  <2> QED BY <2>1 DEF CallsAccounted
<1>6. TriggersAccounted' /\ RunningIsExpanded'
  BY <1>1 DEF TriggersAccounted, RunningIsExpanded, GiveUp
<1>7. Once'
  BY <1>1 DEF Once, GiveUp, Tasks, NoTask
<1> QED
  BY <1>2, <1>3, <1>4, <1>5, <1>6, <1>7

\* The work of a task ends.
LEMMA WorkIsDone ==
  ASSUME IInv, NEW t \in Tasks, WorkEnds(t) \/ Close(t)
  PROVE  IInv'
<1> USE DEF IInv
<1>1. CASE WorkEnds(t)
  <2>1. open[t] \in Nat /\ open[t] > 0
    BY <1>1 DEF WorkEnds, Unfinishable, Types
  <2>2. Types'
    BY <1>1, <2>1 DEF Types, WorkEnds, dispatcher
  <2>3. /\ Fresh' /\ TickHoldsQueued' /\ CallsAccounted' /\ TriggersAccounted'
        /\ Once' /\ OneLive'
    BY <1>1 DEF Fresh, TickHoldsQueued, CallsAccounted, TriggersAccounted, Once,
                OneLive, Live, WorkEnds, dispatcher
  <2>4. RunningIsExpanded'
    BY <1>1, <2>1 DEF RunningIsExpanded, WorkEnds, Types
  <2> QED BY <2>2, <2>3, <2>4
<1>2. CASE Close(t)
  <2>1. \A u \in Tasks : status'[u] = IF u = t THEN "Done" ELSE status[u]
    BY <1>2 DEF Types, Close
  <2>2. Types'
    BY <1>2 DEF Types, States, Close, dispatcher
  <2>3. Fresh'
    BY <1>2, <2>1 DEF Fresh, Close
  <2>4. TickHoldsQueued' /\ CallsAccounted'
    BY <1>2, <2>1 DEF TickHoldsQueued, CallsAccounted, Close, dispatcher, Types
  <2>5. TriggersAccounted'
    BY <1>2, <2>1 DEF TriggersAccounted, Close, Types, Call
  <2>6. Once'
    BY <1>2, <2>1 DEF Once, Close, dispatcher
  <2>7. OneLive'
    BY <1>2, <2>1 DEF OneLive, Live, Close
  <2>8. RunningIsExpanded'
    BY <1>2, <2>1 DEF RunningIsExpanded, Close
  <2> QED BY <2>2, <2>3, <2>4, <2>5, <2>6, <2>7, <2>8
<1> QED
  BY <1>1, <1>2

LEMMA NextInv == IInv /\ [Next]_vars => IInv'
<1>1. ASSUME IInv, Next
      PROVE  IInv'
  BY <1>1, TasksAppear, OperatorsCall, TriggerWrites, ExpandEnds, TickAsks,
     TickPromotes, TickGivesUp, WorkIsDone DEF Next
<1>2. ASSUME IInv, UNCHANGED vars
      PROVE  IInv'
  BY <1>2 DEF IInv, Types, Fresh, TickHoldsQueued, CallsAccounted,
              TriggersAccounted, Once, OneLive, Live, RunningIsExpanded, vars,
              dispatcher
<1> QED
  BY <1>1, <1>2

LEMMA Inductive == Spec => []IInv
  BY InitInv, NextInv, PTL DEF Spec
-----------------------------------------------------------------------------
\* A task is expanded once, whatever the selections, calls and answers of
\* task_tick meet, unless it was expanded by hand, triggered twice at once,
\* or an answer got lost.
THEOREM ExpansionIsUnique == Spec => []ExpandedOnce
<1>1. IInv => ExpandedOnce
  BY DEF IInv, Once, ExpandedOnce
<1> QED
  BY <1>1, Inductive, PTL

\* The blind write of running never hits a task that was not expanded, and a
\* done task has no work left unless it was expanded late.
THEOREM RunningHasWork == Spec => []RunningIsExpanded
<1>1. IInv => RunningIsExpanded
  BY DEF IInv
<1> QED
  BY <1>1, Inductive, PTL

\* A watcher task with work left is live, and the watcher creates none beside
\* a live one: its runs do not overlap.
THEOREM WatchersApart == Spec => []WatcherRunsApart
<1>1. ASSUME IInv, NEW t \in Tasks \ (excused \cup deleted),
             origin[t] = "watcher", open[t] > 0
      PROVE  Live(t)
  <2>1. status[t] \notin {"None", "Edited"}
    BY <1>1 DEF IInv, Fresh, OneLive
  <2>2. status[t] # "Done"
    BY <1>1 DEF IInv, Types, RunningIsExpanded
  <2> QED
    BY <1>1, <2>1, <2>2 DEF IInv, Types, States, Live
<1>2. IInv => WatcherRunsApart
  BY <1>1 DEF IInv, OneLive, WatcherRunsApart
<1> QED
  BY <1>2, Inductive, PTL

-----------------------------------------------------------------------------
(* The graph of a chain.                                                   *)

\* What is behind a set of nodes is the least closed set that contains it.
LEMMA BehindIs ==
  ASSUME NEW E \in SUBSET Edge, NEW from \in SUBSET Nodes
  PROVE  /\ Behind(E, from) \in SUBSET Nodes /\ from \subseteq Behind(E, from)
         /\ Closed(E, Behind(E, from))
         /\ \A S \in SUBSET Nodes :
              from \subseteq S /\ Closed(E, S) => Behind(E, from) \subseteq S
<1>1. Closed(E, Behind(E, from))
  <2> SUFFICES ASSUME NEW e \in E, e.parent \in Behind(E, from)
               PROVE  e.child \in Behind(E, from)
    BY DEF Closed
  <2>1. e.child \in Nodes
    BY DEF Edge
  <2>2. ASSUME NEW S \in SUBSET Nodes, from \subseteq S, Closed(E, S)
        PROVE  e.child \in S
    BY <2>2 DEF Behind, Closed
  <2> QED BY <2>1, <2>2 DEF Behind
<1> QED
  BY <1>1 DEF Behind

\* With fewer edges less is behind a set, and no new cycle.
LEMMA FewerEdges ==
  ASSUME NEW E \in SUBSET Edge, NEW F \in SUBSET Edge, Ends(E) \subseteq Ends(F)
  PROVE  /\ \A from \in SUBSET Nodes : Behind(E, from) \subseteq Behind(F, from)
         /\ Acyclic(F) => Acyclic(E)
<1>1. ASSUME NEW e \in E
      PROVE  \E f \in F : f.parent = e.parent /\ f.child = e.child
  <2>1. <<e.parent, e.child>> \in Ends(F)
    BY DEF Ends
  <2> QED BY <2>1 DEF Ends
<1>2. ASSUME NEW S, Closed(F, S) PROVE Closed(E, S)
  BY <1>1, <1>2 DEF Closed
<1>3. ASSUME NEW from \in SUBSET Nodes PROVE Behind(E, from) \subseteq Behind(F, from)
  BY <1>2, BehindIs
<1>4. ASSUME NEW n \in Nodes
      PROVE  /\ Children(E, n) \in SUBSET Nodes /\ Children(F, n) \in SUBSET Nodes
             /\ Children(E, n) \subseteq Children(F, n)
  <2>1. Children(F, n) \in SUBSET Nodes
    BY DEF Children, Edge
  <2>2. ASSUME NEW m \in Children(E, n) PROVE m \in Children(F, n)
    <3>1. PICK e \in E : e.parent = n /\ m = e.child
      BY DEF Children
    <3> QED BY <1>1, <3>1 DEF Children
  <2> QED BY <2>1, <2>2
<1>5. ASSUME Acyclic(F), NEW n \in Nodes PROVE n \notin Behind(E, Children(E, n))
  <2>1. Behind(E, Children(E, n)) \subseteq Behind(F, Children(F, n))
    <3>1. Behind(E, Children(E, n)) \subseteq Behind(F, Children(E, n))
      BY <1>3, <1>4
    <3>2. Behind(F, Children(E, n)) \subseteq Behind(F, Children(F, n))
      BY <1>4, BehindIs
    <3> QED BY <3>1, <3>2
  <2> QED BY <1>5, <2>1 DEF Acyclic
<1> QED
  BY <1>3, <1>5 DEF Acyclic

\* The check of assertNoCycle is the right one.
LEMMA EdgeClosesNoCycle ==
  ASSUME NEW E \in SUBSET Edge, NEW e \in Edge, Acyclic(E),
         ~ClosesCycle(E, e.parent, e.child)
  PROVE  Acyclic(E \cup {e})
<1> DEFINE G     == E \cup {e}
           After == Behind(E, {e.child})
<1>1. /\ e.parent \in Nodes /\ e.child \in Nodes /\ G \in SUBSET Edge
      /\ e.parent \notin After
  BY DEF Edge, ClosesCycle
<1>2. /\ After \in SUBSET Nodes /\ e.child \in After /\ Closed(E, After)
  BY <1>1, BehindIs
<1>3. Closed(G, After)
  BY <1>1, <1>2 DEF Closed
<1> HIDE DEF After
<1> SUFFICES ASSUME NEW n \in Nodes PROVE n \notin Behind(G, Children(G, n))
  BY DEF Acyclic
<1> DEFINE S == Behind(E, Children(E, n))
<1>4. /\ Children(E, n) \in SUBSET Nodes /\ Children(G, n) \in SUBSET Nodes
      /\ Children(G, n) \subseteq Children(E, n) \cup {e.child}
      /\ n # e.parent => Children(G, n) = Children(E, n)
  BY <1>1 DEF Children, Edge
<1>5. /\ S \in SUBSET Nodes /\ Children(E, n) \subseteq S /\ Closed(E, S)
      /\ n \notin S
  BY <1>4, BehindIs DEF Acyclic
<1> HIDE DEF S
<1>6. CASE n \in After
  <2>1. n # e.parent
    BY <1>1, <1>6
  <2>2. Children(E, n) \subseteq After
    BY <1>2, <1>6 DEF Children, Closed
  <2>3. S \subseteq After
    BY <1>2, <1>4, <2>2, BehindIs DEF S
  <2>4. Closed(G, S)
    BY <1>1, <1>5, <2>3 DEF Closed
  <2> QED BY <1>1, <1>4, <1>5, <2>1, <2>4, BehindIs
<1>7. CASE n \notin After
  <2>1. Closed(G, S \cup After)
    BY <1>2, <1>3, <1>5 DEF Closed
  <2>2. Children(G, n) \subseteq S \cup After /\ S \cup After \in SUBSET Nodes
    BY <1>2, <1>4, <1>5
  <2>3. Behind(G, Children(G, n)) \subseteq S \cup After
    <3> DEFINE U == S \cup After
               first == Children(G, n)
    <3>1. /\ U \in SUBSET Nodes /\ first \in SUBSET Nodes /\ G \in SUBSET Edge
          /\ first \subseteq U /\ Closed(G, U)
      BY <1>1, <1>4, <2>1, <2>2
    <3> HIDE DEF U, first, G
    <3>2. Behind(G, first) \subseteq U
      BY <3>1, BehindIs
    <3> QED BY <3>2 DEF U, first
  <2> QED BY <1>5, <1>7, <2>3
<1> QED
  BY <1>6, <1>7

\* A call of add has checked the graph that it has seen.
AddsChecked ==
  \A a \in adds :
    /\ a.edge \in Edge /\ a.seen \in SUBSET Edge
    /\ ~ClosesCycle(a.seen, a.edge.parent, a.edge.child)

GraphInv == edges \in SUBSET Edge /\ AddsChecked /\ ChainStaysAcyclic

LEMMA GraphInitInv == GraphInit => GraphInv
BY GraphAssumption DEF GraphInit, GraphInv, AddsChecked, ChainStaysAcyclic

LEMMA GraphStep ==
  ASSUME GraphInv, [GraphNext]_graphVars
  PROVE  GraphInv'
<1> USE DEF GraphInv
<1>1. ASSUME NEW pc \in Editable, NEW fan \in BOOLEAN, AddRead(pc[1], pc[2], fan)
      PROVE  GraphInv'
  <2> DEFINE e == [parent |-> pc[1], child |-> pc[2], fan |-> fan]
  <2>1. /\ e \in Edge /\ e.parent = pc[1] /\ e.child = pc[2]
        /\ ~ClosesCycle(edges, pc[1], pc[2])
    BY <1>1, GraphAssumption DEF AddRead, Edge
  <2>2. adds' = adds \cup {[edge |-> e, seen |-> edges]}
    BY <1>1 DEF AddRead
  <2> HIDE DEF e
  <2>3. AddsChecked'
    BY <2>1, <2>2 DEF AddsChecked
  <2> QED BY <1>1, <2>3 DEF AddRead, ChainStaysAcyclic
<1>2. ASSUME NEW a \in adds, AddWrite(a) PROVE GraphInv'
  <2>1. AddsChecked'
    BY <1>2 DEF AddWrite, AddsChecked
  <2>2. CASE UNCHANGED <<edges, crossed>>
    BY <2>1, <2>2 DEF ChainStaysAcyclic
  <2>3. CASE /\ edges' = edges \cup {a.edge}
             /\ crossed' = (crossed \/ ~(Ends(edges) \subseteq Ends(a.seen)))
    <3>1. /\ a.edge \in Edge /\ a.seen \in SUBSET Edge
          /\ ~ClosesCycle(a.seen, a.edge.parent, a.edge.child)
      BY DEF AddsChecked
    <3>2. ASSUME ~crossed' PROVE Acyclic(edges')
      <4>1. Ends(edges) \subseteq Ends(a.seen) /\ Acyclic(edges)
        BY <2>3, <3>2 DEF ChainStaysAcyclic
      <4>2. {a.edge.child} \in SUBSET Nodes
        BY <3>1 DEF Edge
      <4>3. Behind(edges, {a.edge.child}) \subseteq Behind(a.seen, {a.edge.child})
        BY <3>1, <4>1, <4>2, FewerEdges
      <4>4. ~ClosesCycle(edges, a.edge.parent, a.edge.child)
        BY <3>1, <4>3 DEF ClosesCycle
      <4> QED BY <2>3, <3>1, <4>1, <4>4, EdgeClosesNoCycle
    <3> QED BY <2>1, <2>3, <3>1, <3>2 DEF ChainStaysAcyclic
  <2> QED BY <1>2, <2>2, <2>3 DEF AddWrite
<1>3. ASSUME edges' \in SUBSET Edge, Ends(edges') \subseteq Ends(edges),
             UNCHANGED <<adds, crossed>>
      PROVE  GraphInv'
  BY <1>3, FewerEdges DEF AddsChecked, ChainStaysAcyclic
<1>4. ASSUME NEW e \in edges, UpdateEdge(e) PROVE GraphInv'
  <2> DEFINE f == [e EXCEPT !.fan = ~@]
  <2>1. f \in Edge /\ f.parent = e.parent /\ f.child = e.child
    BY DEF Edge
  <2>2. edges' = (edges \ {e}) \cup {f} /\ UNCHANGED <<adds, crossed>>
    BY <1>4 DEF UpdateEdge
  <2> HIDE DEF f
  <2> QED BY <1>3, <2>1, <2>2 DEF Ends
<1>5. ASSUME NEW e \in edges, DeleteEdge(e) PROVE GraphInv'
  BY <1>3, <1>5 DEF DeleteEdge, Ends
<1>6. CASE UNCHANGED graphVars
  BY <1>6 DEF graphVars, AddsChecked, ChainStaysAcyclic
<1> QED
  BY <1>1, <1>2, <1>4, <1>5, <1>6 DEF GraphNext


LEMMA GraphKeeps == GraphSpec => []GraphInv
BY GraphInitInv, GraphStep, PTL DEF GraphSpec

-----------------------------------------------------------------------------
(* Loops, and the rows of a listing.                                       *)

\* A set of numbers that is not empty has a least one.
LEMMA LeastOf ==
  ASSUME NEW S \in SUBSET Nat, S # {}
  PROVE  \E n \in S : \A m \in S : n <= m
<1>0. IsWellFoundedOn(OpToRel(<, Nat), Nat)
  BY NatLessThanWellFounded
<1>1. PICK n \in S : \A m \in S : <<m, n>> \notin OpToRel(<, Nat)
  BY <1>0, WFMin
<1>2. ASSUME NEW m \in S PROVE n <= m
  <2>1. m \in Nat /\ n \in Nat
    OBVIOUS
  <2>2. ~(m < n)
    BY <1>1, <2>1 DEF OpToRel
  <2> QED BY <2>1, <2>2
<1> QED
  BY <1>2

LEMMA LoopKeeps ==
  ASSUME NEW I, NEW step, NEW start \in I, \A s \in I : step[s] \in I,
         NEW rounds \in Nat
  PROVE  Loop(step, start, rounds) \in I
<1> DEFINE Run(n, f) ==
             f = [k \in 0 .. n |-> IF k = 0 THEN start ELSE step[f[k - 1]]]
           run == CHOOSE f : Run(rounds, f)
<1>1. \E f : Run(rounds, f)
  <2> DEFINE Bad == {n \in Nat : ~\E f : Run(n, f)}
  <2> SUFFICES Bad = {}
    OBVIOUS
  <2> SUFFICES ASSUME Bad # {} PROVE FALSE
    OBVIOUS
  <2>1. PICK n \in Bad : \A m \in Bad : n <= m
    BY LeastOf
  <2>2. n # 0
    <3>1. Run(0, [k \in 0 .. 0 |-> start])
      OBVIOUS
    <3> QED BY <2>1, <3>1
  <2>3. n \in Nat /\ n - 1 \in Nat /\ n - 1 \notin Bad
    <3>1. n \in Nat
      BY <2>1
    <3> HIDE DEF Bad
    <3>2. n - 1 \in Nat /\ ~(n <= n - 1)
      BY <2>2, <3>1
    <3> QED BY <2>1, <3>1, <3>2
  <2>4. PICK f : Run(n - 1, f)
    BY <2>3
  <2> DEFINE g == [k \in 0 .. n |-> IF k = n THEN step[f[n - 1]] ELSE f[k]]
  <2>5. Run(n, g)
    <3>1. ASSUME NEW k \in 0 .. n PROVE g[k] = IF k = 0 THEN start ELSE step[g[k - 1]]
      <4>1. CASE k = 0
        BY <2>2, <2>3, <2>4, <4>1
      <4>2. CASE k = n
        BY <2>2, <2>3, <2>4, <4>2
      <4>3. CASE k \in 1 .. n - 1
        <5>1. k - 1 \in 0 .. n - 1 /\ k - 1 # n /\ k # n /\ k # 0 /\ k \in 0 .. n - 1
          BY <2>3, <4>3
        <5> QED BY <2>3, <2>4, <5>1
      <4> QED BY <2>3, <4>1, <4>2, <4>3
    <3> QED BY <3>1
  <2> QED BY <2>1, <2>5
<1>2. Run(rounds, run)
  BY <1>1
<1>3. Loop(step, start, rounds) = run[rounds]
  BY DEF Loop
<1> HIDE DEF run
<1>4. \A k \in 0 .. rounds : run[k] \in I
  <2> DEFINE Bad == {k \in 0 .. rounds : run[k] \notin I}
  <2> SUFFICES ASSUME Bad # {} PROVE FALSE
    OBVIOUS
  <2>1. PICK k \in Bad : \A m \in Bad : k <= m
    <3>1. Bad \in SUBSET Nat
      OBVIOUS
    <3> HIDE DEF Bad
    <3> QED BY <3>1, LeastOf
  <2>2. k # 0 /\ run[k] = IF k = 0 THEN start ELSE step[run[k - 1]]
    BY <1>2, <2>1
  <2>3. k - 1 \in 0 .. rounds /\ ~(k <= k - 1)
    BY <2>2
  <2>4. run[k - 1] \in I
    BY <2>1, <2>3
  <2> QED BY <2>1, <2>2, <2>4
<1> QED BY <1>3, <1>4

LEMMA FirstIs ==
  ASSUME NEW l \in Listings, NEW S \in SUBSET Nodes, S # {}
  PROVE  First(l, S) \in S
<1>1. l \in Seq(Nodes) /\ Range(l) = Nodes /\ DOMAIN l = 1 .. Len(l)
  BY ListingAssumption, LenProperties
<1> DEFINE P == {i \in DOMAIN l : l[i] \in S}
<1>2. P \in SUBSET Nat /\ P # {}
  BY <1>1 DEF Range
<1>3. \E i \in P : \A k \in P : i <= k
  <2> HIDE DEF P
  <2> QED BY <1>2, LeastOf
<1>4. \E i \in DOMAIN l : l[i] \in S /\ \A k \in DOMAIN l : l[k] \in S => i <= k
  BY <1>3
<1> QED
  BY <1>4 DEF First

LEMMA NodesOf ==
  ASSUME NEW s \in Seq(Nodes)
  PROVE  /\ Len(s) \in Nat /\ DOMAIN s = 1 .. Len(s)
         /\ Range(s) \subseteq Nodes
         /\ \A x : x \in Range(s) <=> \E i \in 1 .. Len(s) : x = s[i]
BY LenProperties DEF Range

\* A node is put in front, the first one is taken away, one is put at the end.
LEMMA InFront ==
  ASSUME NEW s \in Seq(Nodes), NEW n \in Nodes
  PROVE  LET t == <<n>> \o s
         IN  /\ t \in Seq(Nodes) /\ Len(t) = Len(s) + 1 /\ t[1] = n
             /\ \A i \in 2 .. Len(s) + 1 : t[i] = s[i - 1]
             /\ Range(t) = Range(s) \cup {n}
<1> DEFINE t == <<n>> \o s
<1>1. <<n>> \in Seq(Nodes) /\ Len(<<n>>) = 1 /\ <<n>>[1] = n /\ Len(s) \in Nat
  BY LenProperties
<1>2. /\ t \in Seq(Nodes) /\ Len(t) = 1 + Len(s)
      /\ \A i \in 1 .. 1 + Len(s) : t[i] = IF i <= 1 THEN <<n>>[i] ELSE s[i - 1]
  BY <1>1, ConcatProperties
<1> HIDE DEF t
<1>3. /\ Len(t) = Len(s) + 1 /\ t[1] = n
      /\ \A i \in 2 .. Len(s) + 1 : t[i] = s[i - 1]
  BY <1>1, <1>2
<1>4. ASSUME NEW x PROVE x \in Range(t) <=> x \in Range(s) \cup {n}
  <2>1. ASSUME x \in Range(t) PROVE x \in Range(s) \cup {n}
    <3>1. PICK i \in 1 .. Len(s) + 1 : x = t[i]
      BY <1>2, <1>3, <2>1, NodesOf
    <3>2. CASE i = 1
      BY <1>3, <3>1, <3>2
    <3>3. CASE i # 1
      <4>1. i \in 2 .. Len(s) + 1 /\ i - 1 \in 1 .. Len(s)
        BY <1>1, <3>3
      <4> QED BY <1>3, <3>1, <4>1, NodesOf
    <3> QED BY <3>2, <3>3
  <2>2. ASSUME x \in Range(s) PROVE x \in Range(t)
    <3>1. PICK i \in 1 .. Len(s) : x = s[i]
      BY <2>2, NodesOf
    <3>2. i + 1 \in 2 .. Len(s) + 1 /\ i + 1 - 1 = i /\ i + 1 \in 1 .. Len(t)
      BY <1>1, <1>3
    <3>3. x = t[i + 1]
      BY <1>3, <3>1, <3>2
    <3> QED BY <1>2, <3>2, <3>3, NodesOf
  <2>3. n \in Range(t)
    <3>1. 1 \in 1 .. Len(t)
      BY <1>1, <1>3
    <3> QED BY <1>2, <1>3, <3>1, NodesOf
  <2> QED BY <2>1, <2>2, <2>3
<1> QED
  BY <1>2, <1>3, <1>4 DEF t

LEMMA Behead ==
  ASSUME NEW s \in Seq(Nodes), s # <<>>
  PROVE  /\ Len(s) \in Nat /\ Len(s) >= 1 /\ Head(s) = s[1] /\ Head(s) \in Range(s)
         /\ Tail(s) \in Seq(Nodes) /\ Len(Tail(s)) = Len(s) - 1
         /\ \A i \in 1 .. Len(s) - 1 : Tail(s)[i] = s[i + 1]
         /\ Range(Tail(s)) \subseteq Range(s)
         /\ Range(s) = Range(Tail(s)) \cup {Head(s)}
<1>1. Len(s) \in Nat /\ Len(s) >= 1
  BY EmptySeq, LenProperties
<1>2. /\ Head(s) = s[1] /\ Tail(s) \in Seq(Nodes) /\ Len(Tail(s)) = Len(s) - 1
      /\ \A i \in 1 .. Len(s) - 1 : Tail(s)[i] = s[i + 1]
  BY <1>1, HeadTailProperties
<1>3. ASSUME NEW x \in Range(Tail(s)) PROVE x \in Range(s)
  <2> DEFINE u == Tail(s)
  <2>1. u \in Seq(Nodes) /\ Len(u) = Len(s) - 1 /\ x \in Range(u)
    BY <1>2
  <2> HIDE DEF u
  <2>2. PICK i \in 1 .. Len(u) : x = u[i]
    BY <2>1, NodesOf
  <2>3. i \in 1 .. Len(s) - 1 /\ x = Tail(s)[i]
    BY <2>1, <2>2 DEF u
  <2>4. i + 1 \in 1 .. Len(s)
    BY <1>1, <2>3
  <2> QED BY <1>2, <2>3, <2>4, NodesOf
<1>4. Head(s) \in Range(s)
  <2>1. 1 \in 1 .. Len(s)
    BY <1>1
  <2> QED BY <1>2, <2>1, NodesOf
<1>5. ASSUME NEW x \in Range(s), x # Head(s) PROVE x \in Range(Tail(s))
  <2>1. PICK i \in 1 .. Len(s) : x = s[i]
    BY NodesOf
  <2>2. i # 1
    BY <1>2, <1>5, <2>1
  <2>3. i - 1 \in 1 .. Len(s) - 1 /\ i - 1 + 1 = i
    BY <1>1, <2>2
  <2>4. x = Tail(s)[i - 1] /\ i - 1 \in 1 .. Len(Tail(s))
    BY <1>2, <2>1, <2>3
  <2> QED BY <1>2, <2>4, NodesOf
<1> QED
  BY <1>1, <1>2, <1>3, <1>4, <1>5

LEMMA AtEnd ==
  ASSUME NEW s \in Seq(Nodes), NEW n \in Nodes
  PROVE  /\ Append(s, n) \in Seq(Nodes) /\ Len(Append(s, n)) = Len(s) + 1
         /\ \A i \in 1 .. Len(s) : Append(s, n)[i] = s[i]
         /\ Append(s, n)[Len(s) + 1] = n
         /\ Range(Append(s, n)) = Range(s) \cup {n}
<1>1. Len(s) \in Nat
  BY LenProperties
<1>2. /\ Append(s, n) \in Seq(Nodes) /\ Len(Append(s, n)) = Len(s) + 1
      /\ \A i \in 1 .. Len(s) : Append(s, n)[i] = s[i]
      /\ Append(s, n)[Len(s) + 1] = n
  BY <1>1, AppendProperties
<1>3. ASSUME NEW x PROVE x \in Range(Append(s, n)) <=> x \in Range(s) \cup {n}
  <2>1. x \in Range(Append(s, n)) <=>
          \E i \in 1 .. Len(s) + 1 : x = Append(s, n)[i]
    <3> DEFINE u == Append(s, n)
    <3>1. u \in Seq(Nodes) /\ Len(u) = Len(s) + 1
      BY <1>2
    <3> HIDE DEF u
    <3>2. x \in Range(u) <=> \E i \in 1 .. Len(s) + 1 : x = u[i]
      BY <3>1, NodesOf
    <3> QED BY <3>2 DEF u
  <2>2. \A i \in 1 .. Len(s) + 1 : i \in 1 .. Len(s) \/ i = Len(s) + 1
    BY <1>1
  <2>3. Len(s) + 1 \in 1 .. Len(s) + 1 /\ \A i \in 1 .. Len(s) : i \in 1 .. Len(s) + 1
    BY <1>1
  <2> QED BY <1>2, <2>1, <2>2, <2>3, NodesOf
<1> QED
  BY <1>2, <1>3

-----------------------------------------------------------------------------
(* placeNode.                                                              *)

LEMMA PlanningSets ==
  ASSUME NEW E \in SUBSET Edge
  PROVE  /\ \A n : Parents(E, n) \in SUBSET Nodes /\ Children(E, n) \in SUBSET Nodes
         /\ \A e \in E : e.parent \in Parents(E, e.child) /\ e.child \in Children(E, e.parent)
         /\ Static(E) \in SUBSET Edge /\ FanChildren(E) \in SUBSET Nodes
BY DEF Parents, Children, Static, FanChildren, Edge

LEMMA ParentIs ==
  ASSUME NEW E, NEW n, NEW p \in Parents(E, n)
  PROVE  (\E e \in E : e.parent = p /\ e.child = n) /\ n \in Children(E, p)
BY DEF Parents, Children

\* What is planned is planned with its parents.
LEMMA PlannedWithParents ==
  ASSUME NEW E \in SUBSET Edge, NEW n \in Nodes \ Blocked(E)
  PROVE  Parents(E, n) \subseteq Nodes \ Blocked(E)
<1> SUFFICES ASSUME NEW p \in Parents(E, n), p \in Blocked(E) PROVE FALSE
  BY PlanningSets
<1>1. PICK e \in E : e.parent = p /\ e.child = n
  BY ParentIs
<1>2. Closed(E, Blocked(E))
  BY PlanningSets, BehindIs DEF Blocked
<1> QED
  BY <1>1, <1>2 DEF Closed

\* Each node comes after its parents.
ParentsFirst(E, o) ==
  \A i \in 1 .. Len(o) : Parents(E, o[i]) \subseteq {o[k] : k \in 1 .. i - 1}

\* What is on the path is behind what is in front of it.
PathDown(E, path) ==
  \A i, j \in 1 .. Len(path) : i < j => path[j] \in Behind(E, Children(E, path[i]))

InPlace(E, planned) ==
  {s \in Placing :
     /\ Range(s.path) \subseteq planned /\ Range(s.order) \subseteq planned
     /\ PathDown(E, s.path) /\ ParentsFirst(E, s.order)}

LEMMA DueIs ==
  ASSUME NEW E \in SUBSET Edge, NEW planned \in SUBSET Nodes, NEW s \in Placing
  PROVE  /\ s.path \in Seq(Nodes) /\ s.order \in Seq(Nodes)
         /\ Due(E, planned, s) \in SUBSET Nodes
         /\ Due(E, planned, s) \subseteq planned
BY DEF Placing, Due

LEMMA VisitStep ==
  ASSUME NEW E \in SUBSET Edge, NEW planned \in SUBSET Nodes, NEW l \in Listings,
         NEW s \in Placing, Due(E, planned, s) # {}
  PROVE  /\ PlaceNode(E, planned, l)[s] \in Placing
         /\ s \in InPlace(E, planned) =>
              PlaceNode(E, planned, l)[s] \in InPlace(E, planned)
<1> DEFINE n == First(l, Due(E, planned, s))
           path == <<n>> \o s.path
           t == PlaceNode(E, planned, l)[s]
<1>1. s.path \in Seq(Nodes) /\ s.order \in Seq(Nodes)
  BY DueIs
<1>2. n \in Due(E, planned, s) /\ n \in Nodes /\ n \in planned
  BY DueIs, FirstIs
<1>3. /\ t = [path |-> path, order |-> s.order]
      /\ t.path = path /\ t.order = s.order
  BY DEF PlaceNode, Placing
<1> HIDE DEF n, path, t
<1>4. /\ path \in Seq(Nodes) /\ Len(path) = Len(s.path) + 1 /\ path[1] = n
      /\ \A i \in 2 .. Len(s.path) + 1 : path[i] = s.path[i - 1]
      /\ Range(path) = Range(s.path) \cup {n}
  BY <1>1, <1>2, InFront DEF path
<1>5. t \in Placing
  BY <1>1, <1>3, <1>4 DEF Placing
<1>6. ASSUME s \in InPlace(E, planned) PROVE t \in InPlace(E, planned)
  <2>1. /\ Range(s.path) \subseteq planned /\ Range(s.order) \subseteq planned
        /\ PathDown(E, s.path) /\ ParentsFirst(E, s.order)
    BY <1>6 DEF InPlace
  <2>2. ASSUME NEW i \in 1 .. Len(path), NEW j \in 1 .. Len(path), i < j
        PROVE  path[j] \in Behind(E, Children(E, path[i]))
    <3>1. Len(s.path) \in Nat
      BY <1>1, LenProperties
    <3>2. j \in 2 .. Len(s.path) + 1 /\ j - 1 \in 1 .. Len(s.path)
      BY <1>4, <2>2, <3>1
    <3>3. path[j] = s.path[j - 1]
      BY <1>4, <3>2
    <3>4. CASE i # 1
      <4>1. i \in 2 .. Len(s.path) + 1 /\ i - 1 \in 1 .. Len(s.path) /\ i - 1 < j - 1
        BY <1>4, <2>2, <3>1, <3>4
      <4> QED BY <1>4, <2>1, <3>2, <3>3, <4>1 DEF PathDown
    <3>5. CASE i = 1
      <4> DEFINE m == s.path[1]
                 B == Behind(E, Children(E, n))
      <4>1. s.path # <<>> /\ m \in Nodes /\ Head(s.path) = m
        <5>1. Len(s.path) # 0
          BY <3>1, <3>2
        <5>2. s.path # <<>>
          BY <5>1, EmptySeq
        <5> QED BY <1>1, <5>2, Behead, NodesOf
      <4>2. n \in Parents(E, m)
        BY <1>2, <4>1 DEF Due
      <4>3. m \in Children(E, n)
        BY <4>2, ParentIs
      <4>4. m \in B /\ Closed(E, B) /\ B \in SUBSET Nodes
        BY <4>3, PlanningSets, BehindIs
      <4>5. CASE j = 2
        BY <1>4, <3>3, <3>5, <4>4, <4>5
      <4>6. CASE j # 2
        <5>1. 1 \in 1 .. Len(s.path) /\ 1 < j - 1
          BY <3>1, <3>2, <4>6
        <5>2. path[j] \in Behind(E, Children(E, m))
          BY <2>1, <3>2, <3>3, <5>1 DEF PathDown
        <5>3. Children(E, m) \subseteq B
          <6> HIDE DEF B, m
          <6> SUFFICES ASSUME NEW c \in Children(E, m) PROVE c \in B
            OBVIOUS
          <6>1. PICK e \in E : e.parent = m /\ e.child = c
            BY DEF Children
          <6> QED BY <4>4, <6>1 DEF Closed
        <5>4. Behind(E, Children(E, m)) \subseteq B
          <6> HIDE DEF B
          <6> QED BY <4>4, <5>3, PlanningSets, BehindIs
        <5> QED BY <1>4, <3>5, <5>2, <5>4
      <4> QED BY <4>5, <4>6
    <3> QED BY <3>4, <3>5
  <2>3. PathDown(E, path)
    BY <2>2 DEF PathDown
  <2> QED BY <1>2, <1>3, <1>4, <1>5, <2>1, <2>3 DEF InPlace
<1> QED
  BY <1>5, <1>6 DEF t

LEMMA PlaceStep ==
  ASSUME NEW E \in SUBSET Edge, NEW planned \in SUBSET Nodes, NEW l \in Listings,
         NEW s \in Placing, Due(E, planned, s) = {}, s.path # <<>>
  PROVE  /\ PlaceNode(E, planned, l)[s] \in Placing
         /\ /\ s \in InPlace(E, planned) /\ Acyclic(E)
            /\ \A p \in planned : Parents(E, p) \subseteq planned
            => PlaceNode(E, planned, l)[s] \in InPlace(E, planned)
<1> DEFINE n == Head(s.path)
           path == Tail(s.path)
           order == Append(s.order, n)
           t == PlaceNode(E, planned, l)[s]
<1>1. s.path \in Seq(Nodes) /\ s.order \in Seq(Nodes)
  BY DueIs
<1>2. /\ Len(s.path) \in Nat /\ Len(s.path) >= 1 /\ n = s.path[1]
      /\ n \in Range(s.path) /\ n \in Nodes
      /\ path \in Seq(Nodes) /\ Len(path) = Len(s.path) - 1
      /\ \A i \in 1 .. Len(s.path) - 1 : path[i] = s.path[i + 1]
      /\ Range(path) \subseteq Range(s.path)
  BY <1>1, Behead, NodesOf
<1>3. /\ t = [path |-> path, order |-> order]
      /\ t.path = path /\ t.order = order
  BY DEF PlaceNode, Placing
<1> HIDE DEF n, path, t
<1>4. /\ order \in Seq(Nodes) /\ Len(order) = Len(s.order) + 1
      /\ \A i \in 1 .. Len(s.order) : order[i] = s.order[i]
      /\ order[Len(s.order) + 1] = n
      /\ Range(order) = Range(s.order) \cup {n} /\ Len(s.order) \in Nat
  BY <1>1, <1>2, AtEnd, LenProperties
<1> HIDE DEF order
<1>5. t \in Placing
  BY <1>2, <1>3, <1>4 DEF Placing
<1>6. ASSUME s \in InPlace(E, planned), Acyclic(E),
             \A p \in planned : Parents(E, p) \subseteq planned
      PROVE  t \in InPlace(E, planned)
  <2>1. /\ Range(s.path) \subseteq planned /\ Range(s.order) \subseteq planned
        /\ PathDown(E, s.path) /\ ParentsFirst(E, s.order)
    BY <1>6 DEF InPlace
  <2>2. PathDown(E, path)
    <3> SUFFICES ASSUME NEW i \in 1 .. Len(path), NEW j \in 1 .. Len(path), i < j
                 PROVE  path[j] \in Behind(E, Children(E, path[i]))
      BY DEF PathDown
    <3>1. /\ i \in 1 .. Len(s.path) - 1 /\ j \in 1 .. Len(s.path) - 1
          /\ i + 1 \in 1 .. Len(s.path) /\ j + 1 \in 1 .. Len(s.path) /\ i + 1 < j + 1
      <4> DEFINE len == Len(s.path)
      <4>1. len \in Nat /\ Len(path) = len - 1
        BY <1>2
      <4> HIDE DEF len
      <4>2. /\ i \in 1 .. len - 1 /\ j \in 1 .. len - 1
            /\ i + 1 \in 1 .. len /\ j + 1 \in 1 .. len /\ i + 1 < j + 1
        BY <4>1
      <4> QED BY <4>2 DEF len
    <3>2. path[i] = s.path[i + 1] /\ path[j] = s.path[j + 1]
      BY <1>2, <3>1, Zenon
    <3> QED BY <2>1, <3>1, <3>2 DEF PathDown
  <2>3. Parents(E, n) \subseteq Range(s.order)
    <3> SUFFICES ASSUME NEW q \in Parents(E, n), q \in Range(s.path) PROVE FALSE
      <4>1. Parents(E, n) \subseteq planned
        BY <1>2, <1>6, <2>1
      <4> QED BY <4>1 DEF Due, n
    <3> DEFINE B == Behind(E, Children(E, n))
    <3>1. /\ Closed(E, B) /\ Children(E, n) \subseteq B /\ n \notin B
      <4>1. Children(E, n) \in SUBSET Nodes
        BY <1>2, PlanningSets
      <4>2. Closed(E, B) /\ Children(E, n) \subseteq B
        BY <4>1, BehindIs
      <4>3. n \notin B
        BY <1>2, <1>6 DEF Acyclic
      <4> QED BY <4>2, <4>3
    <3>2. PICK e \in E : e.parent = q /\ e.child = n
      BY ParentIs
    <3>3. PICK j \in 1 .. Len(s.path) : q = s.path[j]
      BY <1>1, NodesOf
    <3>4. CASE j = 1
      <4>1. q = n
        BY <1>2, <3>3, <3>4
      <4> QED BY <3>1, <3>2, <4>1, PlanningSets
    <3>5. CASE j # 1
      <4>1. 1 \in 1 .. Len(s.path) /\ 1 < j
        BY <1>2, <3>5
      <4>2. q \in B
        BY <1>2, <2>1, <3>3, <4>1 DEF PathDown
      <4> QED BY <3>1, <3>2, <4>2 DEF Closed
    <3> QED BY <3>4, <3>5
  <2>4. ParentsFirst(E, order)
    <3> SUFFICES ASSUME NEW i \in 1 .. Len(order), NEW q \in Parents(E, order[i])
                 PROVE  \E k \in 1 .. i - 1 : q = order[k]
      BY DEF ParentsFirst
    <3>1. CASE i <= Len(s.order)
      <4>1. i \in 1 .. Len(s.order) /\ order[i] = s.order[i]
        BY <1>4, <3>1
      <4>2. PICK k \in 1 .. i - 1 : q = s.order[k]
        BY <2>1, <4>1 DEF ParentsFirst
      <4>3. k \in 1 .. Len(s.order)
        BY <1>4, <4>1
      <4> QED BY <1>4, <4>2, <4>3
    <3>2. CASE ~(i <= Len(s.order))
      <4>1. i = Len(s.order) + 1 /\ i - 1 = Len(s.order)
        BY <1>4, <3>2
      <4>2. q \in Range(s.order)
        BY <1>4, <2>3, <4>1
      <4>3. PICK k \in 1 .. Len(s.order) : q = s.order[k]
        BY <1>1, <4>2, NodesOf
      <4> QED BY <1>4, <4>1, <4>3
    <3> QED BY <3>1, <3>2
  <2> QED BY <1>2, <1>3, <1>4, <1>5, <2>1, <2>2, <2>4 DEF InPlace
<1> QED
  BY <1>5, <1>6 DEF t

\* expand: the plan of an acyclic graph has each node after its parents, and
\* none that is behind a fan-out edge.
LEMMA PlannedIs ==
  ASSUME NEW E \in SUBSET Edge, NEW l \in Listings
  PROVE  /\ Planned(E, l) \in Seq(Nodes)
         /\ Acyclic(E) => /\ Range(Planned(E, l)) \cap Blocked(E) = {}
                          /\ ParentsFirst(E, Planned(E, l))
<1> DEFINE planned == Nodes \ Blocked(E)
           step    == PlaceNode(E, planned, l)
           start   == [path |-> <<>>, order |-> <<>>]
           rounds  == 2 * Cardinality(Nodes)
<1>1. planned \in SUBSET Nodes /\ \A p \in planned : Parents(E, p) \subseteq planned
  BY PlannedWithParents
<1>2. rounds \in Nat
  BY ListingAssumption, FS_CardinalityType
<1>3. Planned(E, l) = Loop(step, start, rounds).order
  BY DEF Planned
<1> HIDE DEF planned, rounds
<1>4. ASSUME NEW s \in Placing
      PROVE  /\ step[s] \in Placing
             /\ Acyclic(E) /\ s \in InPlace(E, planned) => step[s] \in InPlace(E, planned)
  <2>1. CASE Due(E, planned, s) # {}
    BY <1>1, <2>1, VisitStep
  <2>2. CASE Due(E, planned, s) = {} /\ s.path # <<>>
    BY <1>1, <2>2, PlaceStep
  <2>3. CASE Due(E, planned, s) = {} /\ s.path = <<>>
    BY <2>3 DEF PlaceNode
  <2> QED BY <2>1, <2>2, <2>3
<1>5. /\ <<>> \in Seq(Nodes) /\ Len(<<>>) = 0 /\ Range(<<>>) = {} /\ 1 .. 0 = {}
  <2>1. <<>> \in Seq(Nodes) /\ Len(<<>>) = 0 /\ 1 .. 0 = {}
    BY EmptySeq
  <2> QED BY <2>1, NodesOf
<1>6. start \in Placing /\ start \in InPlace(E, planned)
  BY <1>5 DEF Placing, InPlace, PathDown, ParentsFirst
<1> HIDE DEF step, start
<1>7. Loop(step, start, rounds) \in Placing
  BY <1>2, <1>4, <1>6, LoopKeeps
<1>8. ASSUME Acyclic(E) PROVE Loop(step, start, rounds) \in InPlace(E, planned)
  <2>1. \A s \in InPlace(E, planned) : step[s] \in InPlace(E, planned)
    BY <1>4, <1>8 DEF InPlace
  <2> QED BY <1>2, <1>6, <2>1, LoopKeeps
<1> QED
  BY <1>3, <1>7, <1>8 DEF Placing, InPlace, planned

-----------------------------------------------------------------------------
(* expandFanOut.                                                           *)

\* The nodes behind the fanned-out one that have a static edge coming in.
Reached(E, tint) == {e.child : e \in {f \in E : f.child \in Behind(E, {tint})}}

InSearch(E, tint) ==
  {s \in Searching : /\ Range(s.queue) \subseteq Behind(E, {tint})
                     /\ Range(s.found) \subseteq Reached(E, tint)}

LEMMA SearchStep ==
  ASSUME NEW E \in SUBSET Edge, NEW tint \in Nodes, NEW l \in Listings,
         NEW s \in InSearch(E, tint)
  PROVE  Search(E, l)[s] \in InSearch(E, tint)
<1> DEFINE B == Behind(E, {tint})
           fresh == Children(E, Head(s.queue)) \ Range(s.found)
           n == First(l, fresh)
           t == Search(E, l)[s]
<1>1. /\ s \in Searching /\ s.queue \in Seq(Nodes) /\ s.found \in Seq(Nodes)
      /\ Range(s.queue) \subseteq B /\ Range(s.found) \subseteq Reached(E, tint)
  BY DEF InSearch, Searching
<1>2. CASE s.queue = <<>>
  BY <1>1, <1>2 DEF Search
<1>3. CASE s.queue # <<>> /\ fresh = {}
  <2>1. t = [queue |-> Tail(s.queue), found |-> s.found]
    BY <1>1, <1>3 DEF Search, Searching
  <2>2. Tail(s.queue) \in Seq(Nodes) /\ Range(Tail(s.queue)) \subseteq B
    BY <1>1, <1>3, Behead
  <2> DEFINE queue == Tail(s.queue)
  <2>3. t.queue = queue /\ t.found = s.found
    BY <2>1
  <2> HIDE DEF queue
  <2>4. t \in Searching
    BY <1>1, <2>1, <2>2 DEF Searching, queue
  <2>5. Range(t.queue) \subseteq B /\ Range(t.found) \subseteq Reached(E, tint)
    BY <1>1, <2>2, <2>3 DEF queue
  <2> QED BY <2>4, <2>5 DEF InSearch
<1>4. CASE s.queue # <<>> /\ fresh # {}
  <2>1. t = [queue |-> Append(s.queue, n), found |-> Append(s.found, n)]
    BY <1>1, <1>4 DEF Search
  <2>2. n \in fresh /\ n \in Nodes
    BY <1>4, FirstIs, PlanningSets
  <2>3. Head(s.queue) \in B
    BY <1>1, <1>4, Behead
  <2> HIDE DEF n
  <2>4. n \in Children(E, Head(s.queue))
    BY <2>2
  <2>5. PICK e \in E : e.parent = Head(s.queue) /\ e.child = n
    BY <2>4 DEF Children
  <2>6. n \in B
    BY <2>3, <2>5, BehindIs DEF Closed
  <2>7. n \in Reached(E, tint)
    BY <2>5, <2>6 DEF Reached
  <2>8. /\ Append(s.queue, n) \in Seq(Nodes) /\ Append(s.found, n) \in Seq(Nodes)
        /\ Range(Append(s.queue, n)) = Range(s.queue) \cup {n}
        /\ Range(Append(s.found, n)) = Range(s.found) \cup {n}
    BY <1>1, <2>2, AtEnd
  <2> DEFINE queue == Append(s.queue, n)
             found == Append(s.found, n)
  <2>9. t.queue = queue /\ t.found = found
    BY <2>1
  <2> HIDE DEF queue, found
  <2>10. t \in Searching
    BY <2>1, <2>8 DEF Searching, queue, found
  <2>11. Range(t.queue) \subseteq B /\ Range(t.found) \subseteq Reached(E, tint)
    BY <1>1, <2>6, <2>7, <2>8, <2>9 DEF queue, found
  <2> QED BY <2>10, <2>11 DEF InSearch
<1> QED
  BY <1>2, <1>3, <1>4

InLayOut(E, tint) ==
  {s \in LayingOut :
     /\ Range(s.remaining) \subseteq Reached(E, tint)
     /\ tint \in s.assigned /\ s.assigned \subseteq {tint} \cup Reached(E, tint)
     /\ \A m \in s.assigned \ {tint} : Parents(E, m) \subseteq s.assigned}

LEMMA LayOutStep ==
  ASSUME NEW E \in SUBSET Edge, NEW tint \in Nodes, NEW s \in InLayOut(E, tint)
  PROVE  LayOut(E)[s] \in InLayOut(E, tint)
<1> DEFINE n == Head(s.remaining)
           rest == Tail(s.remaining)
           t == LayOut(E)[s]
<1>1. /\ s \in LayingOut /\ s.remaining \in Seq(Nodes) /\ s.iterations \in Nat
      /\ s.assigned \in SUBSET Nodes
      /\ Range(s.remaining) \subseteq Reached(E, tint)
      /\ tint \in s.assigned /\ s.assigned \subseteq {tint} \cup Reached(E, tint)
      /\ \A m \in s.assigned \ {tint} : Parents(E, m) \subseteq s.assigned
  BY DEF InLayOut, LayingOut
<1>2. CASE s.remaining = <<>> \/ s.iterations >= 2 * Len(s.remaining)
  BY <1>1, <1>2 DEF LayOut
<1>3. CASE ~(s.remaining = <<>> \/ s.iterations >= 2 * Len(s.remaining))
  <2>1. /\ rest \in Seq(Nodes) /\ Range(rest) \subseteq Range(s.remaining)
        /\ n \in Range(s.remaining) /\ n \in Nodes
    BY <1>1, <1>3, Behead, NodesOf
  <2>2. s.iterations + 1 \in Nat
    BY <1>1
  <2>3. CASE Resolved(E, n, s.assigned)
    <3>1. t = [remaining |-> rest, iterations |-> s.iterations + 1,
               assigned |-> s.assigned \cup {n}]
      BY <1>1, <1>3, <2>3 DEF LayOut
    <3>2. Parents(E, n) \subseteq s.assigned
      BY <2>3 DEF Resolved
    <3> HIDE DEF n, rest
    <3>3. /\ t.remaining = rest /\ t.assigned = s.assigned \cup {n}
          /\ t \in LayingOut
      BY <1>1, <2>1, <2>2, <3>1 DEF LayingOut
    <3>4. ASSUME NEW m \in t.assigned \ {tint} PROVE Parents(E, m) \subseteq t.assigned
      BY <1>1, <3>2, <3>3, <3>4
    <3>5. /\ Range(t.remaining) \subseteq Reached(E, tint)
          /\ tint \in t.assigned /\ t.assigned \subseteq {tint} \cup Reached(E, tint)
      BY <1>1, <2>1, <3>3
    <3> QED BY <3>3, <3>4, <3>5 DEF InLayOut
  <2>4. CASE ~Resolved(E, n, s.assigned)
    <3>1. t = [remaining |-> Append(rest, n), iterations |-> s.iterations + 1,
               assigned |-> s.assigned]
      BY <1>1, <1>3, <2>4 DEF LayOut
    <3>2. /\ Append(rest, n) \in Seq(Nodes)
          /\ Range(Append(rest, n)) = Range(rest) \cup {n}
      BY <2>1, AtEnd
    <3> DEFINE later == Append(rest, n)
    <3> HIDE DEF n, rest, later
    <3>3. t.remaining = later /\ t.assigned = s.assigned /\ t \in LayingOut
      BY <1>1, <2>2, <3>1, <3>2 DEF LayingOut, later
    <3>4. Range(t.remaining) \subseteq Reached(E, tint)
      BY <1>1, <2>1, <3>2, <3>3 DEF later
    <3> QED BY <1>1, <3>3, <3>4 DEF InLayOut
  <2> QED BY <2>3, <2>4
<1> QED
  BY <1>2, <1>3

\* A fan-out creates nodes behind its own, each with its static parents.
LEMMA FanOutIs ==
  ASSUME NEW E \in SUBSET Edge, NEW tint \in Nodes, NEW l \in Listings
  PROVE  LET new == FanOutOf(E, tint, l)
         IN  /\ tint \in new /\ new \subseteq {tint} \cup Reached(E, tint)
             /\ \A m \in new \ {tint} : Parents(E, m) \subseteq new
<1> DEFINE search == Search(E, l)
           first  == [queue |-> <<tint>>, found |-> <<>>]
           found  == Loop(search, first, 2 * Cardinality(Nodes) + 1).found
           step   == LayOut(E)
           start  == [remaining |-> found, iterations |-> 0, assigned |-> {tint}]
           laid   == Loop(step, start, 2 * Cardinality(Nodes))
<1>1. 2 * Cardinality(Nodes) \in Nat /\ 2 * Cardinality(Nodes) + 1 \in Nat
  BY ListingAssumption, FS_CardinalityType
<1>2. FanOutOf(E, tint, l) = laid.assigned
  BY DEF FanOutOf
<1>3. first \in InSearch(E, tint)
  <2>1. <<>> \in Seq(Nodes) /\ Len(<<>>) = 0 /\ 1 .. 0 = {}
    BY EmptySeq
  <2>2. Range(<<>>) = {}
    BY <2>1, NodesOf
  <2>3. <<tint>> \in Seq(Nodes) /\ Len(<<tint>>) = 1 /\ <<tint>>[1] = tint /\ 1 .. 1 = {1}
    OBVIOUS
  <2>4. Range(<<tint>>) = {tint}
    <3> DEFINE one == <<tint>>
    <3>1. one \in Seq(Nodes) /\ Len(one) = 1 /\ one[1] = tint
      BY <2>3
    <3> HIDE DEF one
    <3>2. Range(one) = {tint}
      BY <2>3, <3>1, NodesOf
    <3> QED BY <3>2 DEF one
  <2>5. tint \in Behind(E, {tint})
    BY BehindIs
  <2> QED BY <2>1, <2>2, <2>3, <2>4, <2>5 DEF InSearch, Searching
<1>4. Loop(search, first, 2 * Cardinality(Nodes) + 1) \in InSearch(E, tint)
  <2>1. \A s \in InSearch(E, tint) : search[s] \in InSearch(E, tint)
    BY SearchStep
  <2> HIDE DEF search, first
  <2> QED BY <1>1, <1>3, <2>1, LoopKeeps
<1> HIDE DEF search, first
<1>5. found \in Seq(Nodes) /\ Range(found) \subseteq Reached(E, tint)
  BY <1>4 DEF InSearch, Searching
<1> HIDE DEF found
<1>6. start \in InLayOut(E, tint)
  BY <1>5 DEF InLayOut, LayingOut
<1>7. laid \in InLayOut(E, tint)
  <2>1. \A s \in InLayOut(E, tint) : step[s] \in InLayOut(E, tint)
    BY LayOutStep
  <2> HIDE DEF step, start
  <2> QED BY <1>1, <1>6, <2>1, LoopKeeps
<1> HIDE DEF laid
<1> QED
  BY <1>2, <1>7 DEF InLayOut, LayingOut

-----------------------------------------------------------------------------
(* The inductive invariant of a plan.                                      *)

\* The graph is as expand has read it.
Standing == Acyclic(edges) /\ ~edited

\* The nodes the wiring is claimed for, with whatever is in front of them.
Plain(E) == Nodes \ Behind(E, Mixed(E))

\* The batch finds its inputs, and no two fan-outs create its node.
FindsInputs(b) ==
  \A e \in edges : e.child = b.node =>
    \E c \in batches : /\ c.node = e.parent
                       /\ b.group = IF e.fan THEN Inside(c) ELSE c.group

OneTrail(b) == \A c \in batches : c.node = b.node => SameTrail(b.group, c.group)

PlanInv ==
  /\ plan \in Seq(Nodes) /\ batches \subseteq Batch
  /\ fanned \subseteq batches /\ edited \in BOOLEAN
  /\ plan = <<>> => batches = {}
  /\ ParentsComeFirst /\ FanOutsAreWired

planAll == <<graphVars, planVars, edited>>

LEMMA PlainIs ==
  ASSUME NEW E \in SUBSET Edge
  PROVE  /\ \A e \in E : e.child \in Plain(E) => e.parent \in Plain(E)
         /\ \A e, f \in E : e.fan /\ e.child = f.child /\ e.child \in Plain(E)
                              => e = f
<1>1. Mixed(E) \in SUBSET Nodes
  BY DEF Mixed, Edge
<1>2. Mixed(E) \subseteq Behind(E, Mixed(E)) /\ Closed(E, Behind(E, Mixed(E)))
  BY <1>1, BehindIs
<1>3. \A e \in E : e.parent \in Nodes /\ e.child \in Nodes
  BY DEF Edge
<1>4. \A e \in E : e.child \in Plain(E) => e.parent \in Plain(E)
  BY <1>2, <1>3 DEF Closed, Plain
<1>5. ASSUME NEW e \in E, NEW f \in E, e.fan, e.child = f.child, e # f
      PROVE  e.child \in Mixed(E)
  BY <1>5 DEF Mixed
<1> QED
  BY <1>2, <1>4, <1>5 DEF Plain

LEMMA WiredIs ==
  FanOutsAreWired <=>
    (Standing => \A b \in batches :
       b.node \notin Behind(edges, Mixed(edges)) => FindsInputs(b) /\ OneTrail(b))
BY DEF FanOutsAreWired, Standing, FindsInputs, OneTrail

\* Trails, as a relation between groups.
LEMMA TrailIs ==
  ASSUME NEW g \in Seq(Name), NEW h \in Seq(Name)
  PROVE  /\ SameTrail(g, g)
         /\ SameTrail(g, h) => SameTrail(h, g)
         /\ \A i \in Seq(Name) :
              SameTrail(g, h) /\ SameTrail(h, i) => SameTrail(g, i)
BY DEF SameTrail

LEMMA TrailAppend ==
  ASSUME NEW g \in Seq(Name), NEW h \in Seq(Name), NEW x \in Name,
         NEW y \in Name, SameTrail(g, h), x.node = y.node
  PROVE  SameTrail(Append(g, x), Append(h, y))
<1> DEFINE a == Append(g, x)
           b == Append(h, y)
<1>1. /\ Len(g) \in Nat /\ Len(a) = Len(g) + 1 /\ Len(b) = Len(g) + 1
      /\ \A i \in 1 .. Len(g) : a[i] = g[i] /\ b[i] = h[i]
      /\ a[Len(g) + 1] = x /\ b[Len(g) + 1] = y
  BY DEF SameTrail
<1>2. \A i \in 1 .. Len(g) + 1 : i \in 1 .. Len(g) \/ i = Len(g) + 1
  BY <1>1
<1> HIDE DEF a, b
<1>3. SameTrail(a, b)
  BY <1>1, <1>2 DEF SameTrail
<1> QED
  BY <1>3 DEF a, b

LEMMA InsideIs ==
  ASSUME NEW b \in Batch
  PROVE  /\ [node |-> b.node, block |-> b.block] \in Name
         /\ b.group \in Seq(Name) /\ Inside(b) \in Seq(Name)
BY DEF Batch, Name, Inside

LEMMA PlanInitInv == PlanInit => PlanInv
<1> SUFFICES ASSUME PlanInit PROVE PlanInv
  OBVIOUS
<1>1. <<>> \in Seq(Nodes) /\ DOMAIN <<>> = {}
  BY EmptySeq
<1>2. plan = <<>> /\ fanned = {} /\ edited = FALSE /\ batches = {}
  BY DEF PlanInit
<1>3. plan \in Seq(Nodes)
  BY <1>1, <1>2
<1>4. ParentsComeFirst
  BY <1>1, <1>2 DEF ParentsComeFirst
<1>5. FanOutsAreWired
  BY <1>2 DEF FanOutsAreWired
<1> QED
  BY <1>2, <1>3, <1>4, <1>5 DEF PlanInv

LEMMA EditKeeps ==
  ASSUME PlanInv, Edit
  PROVE  PlanInv'
<1>1. /\ UNCHANGED <<plan, batches, fanned>> /\ edited' \in BOOLEAN
      /\ ~edited' => ~edited /\ (plan = <<>> \/ edges' = edges)
  BY DEF Edit, planVars, PlanInv
<1>2. CASE edges' = edges /\ ~edited
  BY <1>1, <1>2 DEF PlanInv, ParentsComeFirst, FanOutsAreWired
<1>3. CASE plan = <<>> \/ edited'
  <2>1. DOMAIN <<>> = {}
    BY EmptySeq
  <2> QED BY <1>1, <1>3, <2>1 DEF PlanInv, ParentsComeFirst, FanOutsAreWired
<1> QED
  BY <1>1, <1>2, <1>3

LEMMA ExpandKeeps ==
  ASSUME PlanInv, edges \in SUBSET Edge, NEW l \in Listings, Expand(l)
  PROVE  PlanInv'
<1> DEFINE batchOf(n) == [node |-> n, block |-> 0, group |-> <<>>]
<1>1. /\ plan = <<>> /\ plan' = Planned(edges, l) /\ edges' = edges
      /\ edited' = edited /\ fanned' = fanned
      /\ batches' = {batchOf(n) : n \in Range(plan')}
  BY DEF Expand, graphVars
<1>2. plan' \in Seq(Nodes) /\ Range(plan') \subseteq Nodes /\ DOMAIN plan' = 1 .. Len(plan')
  BY <1>1, PlannedIs, NodesOf
<1>3. fanned = {} /\ fanned' \subseteq batches'
  BY <1>1 DEF PlanInv
<1>4. batches' \subseteq Batch
  <2>1. <<>> \in Seq(Name)
    BY EmptySeq
  <2>2. \A n \in Nodes : batchOf(n) \in Batch
    BY <2>1 DEF Batch
  <2> QED BY <1>1, <1>2, <2>2
<1>5. plan' = <<>> => batches' = {}
  <2>1. Len(<<>>) = 0 /\ 1 .. 0 = {}
    OBVIOUS
  <2> QED BY <1>1, <1>2, <2>1, NodesOf
<1>6. ASSUME Standing
      PROVE  /\ Range(plan') \cap Blocked(edges) = {}
             /\ ParentsFirst(edges, plan')
  BY <1>1, <1>6, PlannedIs DEF Standing
<1>7. ParentsComeFirst'
  BY <1>1, <1>2, <1>6 DEF ParentsComeFirst, ParentsFirst, Standing
<1>8. ASSUME Standing, NEW n \in Range(plan')
      PROVE  Parents(edges, n) \subseteq Range(plan')
  <2>1. PICK i \in 1 .. Len(plan') : n = plan'[i]
    BY <1>2, NodesOf
  <2>2. Parents(edges, n) \subseteq {plan'[k] : k \in 1 .. i - 1}
    BY <1>6, <1>8, <2>1 DEF ParentsFirst
  <2>3. \A k \in 1 .. i - 1 : k \in 1 .. Len(plan')
    BY <1>2, NodesOf
  <2> QED BY <1>2, <2>2, <2>3, NodesOf
<1>9. ASSUME Standing, NEW e \in edges, e.child \in Range(plan')
      PROVE  ~e.fan /\ e.parent \in Range(plan')
  <2>1. FanChildren(edges) \subseteq Blocked(edges)
    BY PlanningSets, BehindIs DEF Blocked
  <2>2. ASSUME e.fan PROVE FALSE
    <3>1. e.child \in FanChildren(edges)
      BY <2>2 DEF FanChildren, Static
    <3> QED BY <1>6, <1>9, <2>1, <3>1
  <2>3. e.parent \in Parents(edges, e.child)
    BY DEF Parents
  <2> QED BY <1>8, <1>9, <2>2, <2>3
<1>10. ASSUME NEW b \in batches'
       PROVE  b.node \in Range(plan') /\ b.group = <<>> /\ b = batchOf(b.node)
  <2>1. PICK n \in Range(plan') : b = batchOf(n)
    BY <1>1
  <2> QED BY <2>1
<1>11. \A n \in Range(plan') : batchOf(n) \in batches' /\ batchOf(n).node = n
                               /\ batchOf(n).group = <<>>
  BY <1>1
<1> HIDE DEF batchOf
<1>12. ASSUME Standing, NEW b \in batches' PROVE FindsInputs(b)'
  <2> SUFFICES ASSUME NEW e \in edges, e.child = b.node
               PROVE  \E c \in batches' :
                        /\ c.node = e.parent
                        /\ b.group = IF e.fan THEN Inside(c) ELSE c.group
    BY <1>1 DEF FindsInputs, Inside
  <2>1. ~e.fan /\ e.parent \in Range(plan')
    BY <1>9, <1>10, <1>12
  <2>2. batchOf(e.parent) \in batches'
    BY <1>11, <2>1
  <2> QED BY <1>10, <1>11, <2>1, <2>2
<1>13. ASSUME NEW b \in batches' PROVE OneTrail(b)'
  <2>1. \A c \in batches' : b.group = <<>> /\ c.group = <<>>
    BY <1>10
  <2>2. SameTrail(<<>>, <<>>)
    BY DEF SameTrail
  <2> QED BY <2>1, <2>2 DEF OneTrail, SameTrail
<1>14. FanOutsAreWired'
  BY <1>1, <1>12, <1>13 DEF FanOutsAreWired, FindsInputs, OneTrail, Standing,
     Inside, SameTrail
<1> QED
  BY <1>1, <1>2, <1>3, <1>4, <1>5, <1>7, <1>14 DEF PlanInv

-----------------------------------------------------------------------------
\* What a fan-out creates had batches only of this trail: from a node of it
\* with another one goes up, by its parents, to the first node of the fan-out,
\* and so to a second fan-out edge into that.
LEMMA TrailOfFanOut ==
  ASSUME PlanInv, edges \in SUBSET Edge, Standing, NEW b \in batches,
         NEW tint \in Nodes, NEW l \in Listings,
         [parent |-> b.node, child |-> tint, fan |-> TRUE] \in edges,
         NEW c \in batches, c.node \in FanOutOf(Static(edges), tint, l),
         c.node \in Plain(edges)
  PROVE  SameTrail(Inside(b), c.group)
<1> DEFINE S   == Static(edges)
           new == FanOutOf(S, tint, l)
           B   == Behind(S, {tint})
           X   == {m \in new \cap Plain(edges) :
                     \E d \in batches : d.node = m /\ ~SameTrail(Inside(b), d.group)}
           R   == B \ X
           f   == [parent |-> b.node, child |-> tint, fan |-> TRUE]
<1>1. /\ S \in SUBSET Edge /\ tint \in new
      /\ new \subseteq {tint} \cup Reached(S, tint)
      /\ \A m \in new \ {tint} : Parents(S, m) \subseteq new
  BY PlanningSets, FanOutIs
<1> HIDE DEF new
<1>2. B \in SUBSET Nodes /\ tint \in B /\ Closed(S, B)
  BY <1>1, BehindIs
<1>3. \A d \in batches : d.node \in Plain(edges) => FindsInputs(d) /\ OneTrail(d)
  BY WiredIs DEF PlanInv, Plain
<1>4. \A d \in batches : d \in Batch
  BY DEF PlanInv
<1>5. tint \notin X
  <2> SUFFICES ASSUME tint \in Plain(edges), NEW d \in batches, d.node = tint
               PROVE  SameTrail(Inside(b), d.group)
    OBVIOUS
  <2>1. f \in edges /\ f.child = d.node /\ f.parent = b.node /\ f.fan
    OBVIOUS
  <2>2. PICK p \in batches : p.node = b.node /\ d.group = Inside(p)
    BY <1>3, <2>1 DEF FindsInputs
  <2>3. b.node \in Plain(edges)
    BY <2>1, PlainIs
  <2>4. SameTrail(b.group, p.group)
    BY <1>3, <2>2, <2>3 DEF OneTrail
  <2> DEFINE x == [node |-> b.node, block |-> b.block]
             y == [node |-> p.node, block |-> p.block]
  <2>5. /\ b.group \in Seq(Name) /\ p.group \in Seq(Name)
        /\ x \in Name /\ y \in Name /\ x.node = y.node
    BY <1>4, <2>2, InsideIs
  <2>6. Inside(b) = Append(b.group, x) /\ Inside(p) = Append(p.group, y)
    BY DEF Inside
  <2> HIDE DEF x, y
  <2> QED BY <2>2, <2>4, <2>5, <2>6, TrailAppend
<1>6. Closed(S, R)
  <2> SUFFICES ASSUME NEW e \in S, e.parent \in R PROVE e.child \in R
    BY DEF Closed
  <2>1. e.child \in B
    BY <1>2 DEF Closed
  <2>2. ASSUME e.child \in X PROVE FALSE
    <3>1. e \in edges /\ ~e.fan /\ e.parent \in Parents(S, e.child)
      BY DEF Static, Parents
    <3>2. PICK d \in batches : d.node = e.child /\ ~SameTrail(Inside(b), d.group)
      BY <2>2
    <3>3. e.child \in new \ {tint} /\ e.child \in Plain(edges)
      BY <1>5, <2>2
    <3>4. e.parent \in new /\ e.parent \in Plain(edges)
      BY <1>1, <3>1, <3>3, PlainIs
    <3>5. PICK q \in batches : q.node = e.parent /\ d.group = q.group
      BY <1>3, <3>1, <3>2, <3>3 DEF FindsInputs
    <3>6. e.parent \in X
      BY <3>2, <3>4, <3>5
    <3> QED BY <3>6
  <2> QED BY <2>1, <2>2
<1>7. B \subseteq R
  <2>1. R \in SUBSET Nodes /\ {tint} \subseteq R
    BY <1>2, <1>5
  <2> HIDE DEF R
  <2> QED BY <1>1, <1>6, <2>1, BehindIs
<1>8. new \subseteq B
  BY <1>1, <1>2 DEF Reached
<1>9. c.node \in new
  BY DEF new
<1> QED
  BY <1>7, <1>8, <1>9

\* What a fan-out to a plain node, or one behind it, creates is wired.
LEMMA LaidOutIs ==
  ASSUME NEW tint \in Nodes, NEW new \in SUBSET Nodes, tint \in new,
         NEW blocks \in Nat \ {0}, NEW group \in Seq(Name)
  PROVE  LET laid == LaidOut(tint, new, blocks, group)
         IN  /\ laid \subseteq Batch
             /\ \A c \in laid : c.node \in new /\ c.group = group
             /\ \A m \in new : \E c \in laid : c.node = m /\ c.group = group
<1> DEFINE laid == LaidOut(tint, new, blocks, group)
           tintOf(k) == [node |-> tint, block |-> k, group |-> group]
           restOf(m) == [node |-> m, block |-> 0, group |-> group]
<1>1. laid = {tintOf(k) : k \in 1 .. blocks} \cup {restOf(m) : m \in new \ {tint}}
  BY DEF LaidOut
<1>2. ASSUME NEW k \in 1 .. blocks
      PROVE  tintOf(k) \in Batch /\ tintOf(k).node = tint /\ tintOf(k).group = group
  BY DEF Batch
<1>3. ASSUME NEW m \in new
      PROVE  restOf(m) \in Batch /\ restOf(m).node = m /\ restOf(m).group = group
  BY DEF Batch
<1>4. 1 \in 1 .. blocks
  OBVIOUS
<1> HIDE DEF tintOf, restOf, laid
<1>5. laid \subseteq Batch /\ \A c \in laid : c.node \in new /\ c.group = group
  BY <1>1, <1>2, <1>3
<1>6. ASSUME NEW m \in new PROVE \E c \in laid : c.node = m /\ c.group = group
  <2>1. CASE m = tint
    BY <1>1, <1>2, <1>4, <2>1
  <2>2. CASE m # tint
    BY <1>1, <1>3, <2>2
  <2> QED BY <2>1, <2>2
<1> QED
  BY <1>5, <1>6 DEF laid

LEMMA FanOutKeeps ==
  ASSUME PlanInv, edges \in SUBSET Edge, NEW l \in Listings,
         NEW b \in batches, FanOut(b, l)
  PROVE  PlanInv'
<1> DEFINE tints == {m \in Nodes :
                       [parent |-> b.node, child |-> m, fan |-> TRUE] \in edges}
           tint  == First(l, tints)
           S     == Static(edges)
           new   == FanOutOf(S, tint, l)
           f     == [parent |-> b.node, child |-> tint, fan |-> TRUE]
           group == Inside(b)
<1>1. PICK blocks \in Widths :
        /\ tints # {} /\ fanned' = fanned \cup {b}
        /\ batches' = batches \cup LaidOut(tint, new, blocks, group)
        /\ UNCHANGED <<edges, edited, plan>>
  BY DEF FanOut, graphVars
<1> DEFINE laid == LaidOut(tint, new, blocks, group)
<1>2. tint \in Nodes /\ f \in edges
  <2>1. tints \in SUBSET Nodes
    OBVIOUS
  <2>2. tint \in tints
    <3> HIDE DEF tints
    <3> QED BY <1>1, <2>1, FirstIs
  <2> QED BY <2>2
<1>3. f.parent = b.node /\ f.child = tint /\ f.fan
  OBVIOUS
<1>4. [parent |-> b.node, child |-> tint, fan |-> TRUE] \in edges
  BY <1>2
<1> HIDE DEF tint, f
<1>5. /\ S \in SUBSET Edge /\ tint \in new
      /\ new \subseteq {tint} \cup Reached(S, tint)
      /\ \A m \in new \ {tint} : Parents(S, m) \subseteq new
  BY <1>2, PlanningSets, FanOutIs
<1>6. b \in Batch /\ group \in Seq(Name) /\ \A c \in batches : c \in Batch
  BY InsideIs DEF PlanInv
<1>7. ASSUME Standing, NEW c \in batches, c.node \in new, c.node \in Plain(edges)
      PROVE  SameTrail(group, c.group)
  BY <1>2, <1>4, <1>7, TrailOfFanOut
<1>8. new \in SUBSET Nodes
  BY <1>2, <1>5, PlanningSets DEF Reached, Edge
<1> HIDE DEF new, group
<1>9. /\ laid \subseteq Batch
      /\ \A c \in laid : c.node \in new /\ c.group = group
      /\ \A m \in new : \E c \in laid : c.node = m /\ c.group = group
  <2>1. blocks \in Nat \ {0}
    BY ListingAssumption
  <2> QED BY <1>2, <1>5, <1>6, <1>8, <2>1, LaidOutIs
<1>10. batches' = batches \cup laid
  BY <1>1
<1> HIDE DEF laid
<1>11. /\ batches' \subseteq Batch /\ fanned' \subseteq batches'
       /\ plan' # <<>>
  BY <1>1, <1>6, <1>9, <1>10 DEF PlanInv
<1>12. \A c \in batches : c.node \in Plain(edges) /\ Standing
                            => FindsInputs(c) /\ OneTrail(c)
  BY WiredIs DEF PlanInv, Plain
<1>13. ASSUME Standing, NEW c \in batches', c.node \in Plain(edges)
       PROVE  FindsInputs(c)'
  <2> SUFFICES ASSUME NEW e \in edges, e.child = c.node
               PROVE  \E d \in batches' :
                        /\ d.node = e.parent
                        /\ c.group = IF e.fan THEN Inside(d) ELSE d.group
    BY <1>1 DEF FindsInputs, Inside
  <2>1. CASE c \in batches
    BY <1>10, <1>12, <1>13, <2>1 DEF FindsInputs
  <2>2. CASE c \in laid /\ c.node = tint
    <3>1. e = f
      BY <1>2, <1>3, <1>13, <2>2, PlainIs
    <3>2. b \in batches' /\ c.group = Inside(b)
      BY <1>9, <1>10, <2>2 DEF group
    <3> QED BY <1>3, <3>1, <3>2
  <2>3. CASE c \in laid /\ c.node # tint
    <3>1. c.node \in new \ {tint} /\ c.group = group
      BY <1>9, <2>3
    <3>2. PICK g \in S : g.child = c.node
      BY <1>5, <3>1 DEF Reached
    <3>3. g \in edges /\ ~g.fan
      BY <3>2 DEF Static
    <3>4. ~e.fan
      BY <1>13, <3>2, <3>3, PlainIs
    <3>5. e.parent \in Parents(S, c.node)
      BY <3>4 DEF Static, Parents
    <3>6. e.parent \in new
      BY <1>5, <3>1, <3>5
    <3> QED BY <1>9, <1>10, <3>1, <3>4, <3>6
  <2> QED BY <1>10, <2>1, <2>2, <2>3
<1>14. ASSUME Standing, NEW c \in batches', c.node \in Plain(edges)
       PROVE  OneTrail(c)'
  <2> SUFFICES ASSUME NEW d \in batches', d.node = c.node
               PROVE  SameTrail(c.group, d.group)
    BY DEF OneTrail, SameTrail
  <2>1. c.group \in Seq(Name) /\ d.group \in Seq(Name)
    BY <1>11, InsideIs
  <2>2. CASE c \in batches /\ d \in batches
    BY <1>12, <1>14, <2>2 DEF OneTrail
  <2>3. CASE c \in laid /\ d \in laid
    BY <1>9, <2>1, <2>3, TrailIs
  <2>4. CASE c \in laid /\ d \in batches
    <3>1. c.group = group /\ d.node \in new /\ d.node \in Plain(edges)
      BY <1>9, <1>14, <2>4
    <3> QED BY <1>7, <1>14, <2>4, <3>1
  <2>5. CASE c \in batches /\ d \in laid
    <3>1. d.group = group /\ c.node \in new
      BY <1>9, <2>5
    <3>2. SameTrail(group, c.group)
      BY <1>7, <1>14, <2>5, <3>1
    <3> QED BY <1>6, <2>1, <3>1, <3>2, TrailIs
  <2> QED BY <1>10, <2>2, <2>3, <2>4, <2>5
<1>15. FanOutsAreWired'
  <2> SUFFICES ASSUME Standing, NEW c \in batches',
                      c.node \notin Behind(edges, Mixed(edges))
               PROVE  FindsInputs(c)' /\ OneTrail(c)'
    BY <1>1 DEF FanOutsAreWired, FindsInputs, OneTrail, Standing, Inside,
       SameTrail
  <2>1. c.node \in Plain(edges)
    BY <1>11 DEF Batch, Plain
  <2> QED BY <1>13, <1>14, <2>1
<1>16. ParentsComeFirst'
  BY <1>1 DEF ParentsComeFirst, PlanInv
<1> QED
  BY <1>1, <1>11, <1>15, <1>16 DEF PlanInv

LEMMA PlanStep ==
  ASSUME GraphInv, PlanInv, [PlanNext]_planAll
  PROVE  PlanInv'
<1>1. edges \in SUBSET Edge
  BY DEF GraphInv
<1>2. CASE Edit
  BY <1>2, EditKeeps
<1>3. ASSUME NEW l \in Listings, Expand(l) PROVE PlanInv'
  BY <1>1, <1>3, ExpandKeeps
<1>4. ASSUME NEW l \in Listings, NEW b \in batches, FanOut(b, l)
      PROVE  PlanInv'
  BY <1>1, <1>4, FanOutKeeps
<1>5. CASE UNCHANGED planAll
  BY <1>5 DEF planAll, planVars, graphVars, PlanInv, ParentsComeFirst,
     FanOutsAreWired
<1> QED
  BY <1>2, <1>3, <1>4, <1>5 DEF PlanNext

\* Who lays out tasks only reads the graph.
LEMMA PlanOnGraph == PlanSpec => GraphSpec
<1>1. PlanInit => GraphInit
  BY DEF PlanInit
<1>2. [PlanNext]_planAll => [GraphNext]_graphVars
  BY DEF PlanNext, Edit, Expand, FanOut, planAll, graphVars
<1> QED
  BY <1>1, <1>2, PTL DEF PlanSpec, GraphSpec, planAll

LEMMA PlanAlways == PlanSpec => []PlanInv
<1>1. PlanInit => PlanInv
  BY PlanInitInv
<1>2. GraphInv /\ PlanInv /\ [PlanNext]_planAll => PlanInv'
  BY PlanStep
<1> QED
  BY <1>1, <1>2, GraphKeeps, PlanOnGraph, PTL DEF PlanSpec, planAll

\* "The graph must remain acyclic": it does, whatever operators do and the
\* tasks that are laid out, unless calls of add overlap (edges.service.ts).
THEOREM ChainsStayAcyclic == PlanSpec => []ChainStaysAcyclic
<1>1. GraphInv => ChainStaysAcyclic
  BY DEF GraphInv
<1> QED
  BY <1>1, GraphKeeps, PlanOnGraph, PTL

\* expand creates the batch of a node after those of its parents, for any
\* graph and any order of the rows (placeNode in task.service.ts).
THEOREM ParentsAreFirst == PlanSpec => []ParentsComeFirst
<1>1. PlanInv => ParentsComeFirst
  BY DEF PlanInv
<1> QED
  BY <1>1, PlanAlways, PTL

\* Every batch of expand and of nested and neighbouring calls of expandFanOut
\* finds batches of its node's parents where it reads them, and all batches of
\* a node come out of the same fan-outs, for any graph, any order of the rows
\* and any number of blocks, but at and behind nodes with a fan-out edge and
\* another edge coming in (task.service.ts).
THEOREM FanOutsWired == PlanSpec => []FanOutsAreWired
<1>1. PlanInv => FanOutsAreWired
  BY DEF PlanInv
<1> QED
  BY <1>1, PlanAlways, PTL
=============================================================================
