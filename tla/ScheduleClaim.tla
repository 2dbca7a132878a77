---------------------------- MODULE ScheduleClaim ----------------------------
(***************************************************************************)
(* A task schedule of the API (task-schedule.service.ts): every minute each*)
(* API replica looks for due schedules, claims one by a compare-and-swap   *)
(* on nextRunAt, creates a task and triggers it, while operators edit or   *)
(* remove the schedule.  The module follows one schedule; ticks of several *)
(* replicas, and of one replica that is slow, overlap.                     *)
(***************************************************************************)
EXTENDS Integers, FiniteSets, FiniteSetsExt, Functions

CONSTANTS
  Ticks,        \* calls of runDue that may be under way at a time
  Rules,        \* cron expressions, each with its timezone
  Occurrences,  \* per rule: the times at which it fires
  Horizon,      \* bound: the last time of the clock
  MaxEdits,     \* bound: updates by operators
  MaxFaults     \* bound: stops of a replica in the middle of a tick, and
                \* errors that could not be written

ASSUME ScheduleAssumption ==
  /\ Horizon \in Nat /\ MaxEdits \in Nat /\ MaxFaults \in Nat
  /\ IsFiniteSet(Ticks) /\ Rules # {}
  /\ Occurrences \in [Rules -> SUBSET Nat]
  /\ \A r \in Rules, t \in 0 .. Horizon : \E o \in Occurrences[r] : o > t

VARIABLES
  clock,
  rule, enabled, deleted, nextRunAt,  \* the row of the schedule
  tick,     \* per tick: where it is in runDue, and what it has read
  edit,     \* the updates that have read the row, not yet written
  claims,   \* history: how often each occurrence was claimed
  rewound,  \* history: next runs that an update wrote when they had passed
  removed,  \* history: claims since the removal
  settled,  \* runs whose task was created and triggered, or that set lastError
  edits, faults

row  == <<rule, enabled, deleted, nextRunAt>>
hist == <<claims, rewound, removed>>
vars == <<clock, row, tick, edit, hist, settled, edits, faults>>

Times == UNION Range(Occurrences)

\* computeNextRun: the first occurrence after a time.
NextRun(r, from) == Min({o \in Occurrences[r] : o > from})

Idle    == [at |-> "idle"]
Reading == [at : {"reading"}, now : Nat]
Claim   == [at : {"claiming"}, due : Times, next : Times]
Busy    == [at : {"creating", "triggering", "failing"}]
Edits   == [rule : Rules, next : Times] \cup [enabled : BOOLEAN]

ScheduleTypeOK ==
  /\ clock \in 0 .. Horizon
  /\ rule \in Rules /\ enabled \in BOOLEAN /\ deleted \in BOOLEAN
  /\ nextRunAt \in Times
  /\ tick \in [Ticks -> {Idle} \cup Reading \cup Claim \cup Busy]
  /\ edit \subseteq Edits
  /\ claims \in [Times -> Nat] /\ rewound \subseteq Times
  /\ removed \in Nat /\ settled \in Nat
  /\ edits \in 0 .. MaxEdits /\ faults \in 0 .. MaxFaults

Init ==
  /\ clock = 0
  /\ rule \in Rules /\ nextRunAt = NextRun(rule, 0)
  /\ enabled = TRUE /\ deleted = FALSE
  /\ tick = [t \in Ticks |-> Idle] /\ edit = {}
  /\ claims = [o \in Times |-> 0] /\ rewound = {} /\ removed = 0
  /\ settled = 0
  /\ edits = MaxEdits /\ faults = MaxFaults

Advance ==
  /\ clock < Horizon /\ clock' = clock + 1
  /\ UNCHANGED <<row, tick, edit, hist, settled, edits, faults>>
-----------------------------------------------------------------------------
Goto(t, state) == tick' = [tick EXCEPT ![t] = state]

\* The cron job of the API fixes the time of the tick ...
TickStart(t) ==
  /\ tick[t] = Idle
  /\ Goto(t, [at |-> "reading", now |-> clock])
  /\ UNCHANGED <<clock, row, edit, hist, settled, edits, faults>>

\* Mutant: an occurrence is due only when it has passed.
DuePassed(now) == enabled /\ ~deleted /\ nextRunAt < now

Due(now) == enabled /\ ~deleted /\ nextRunAt <= now

\* ... and reads the due schedules.
TickRead(t) ==
  /\ tick[t].at = "reading"
  /\ Goto(t, IF Due(tick[t].now)
             THEN [at |-> "claiming", due |-> nextRunAt,
                   next |-> NextRun(rule, tick[t].now)]
             ELSE Idle)
  /\ UNCHANGED <<clock, row, edit, hist, settled, edits, faults>>

\* Mutant: the claim asks whether the schedule is still due.
ClaimableDue(t) == nextRunAt <= clock

\* The claim writes only if nobody has moved nextRunAt since it was read; it
\* does not look at enabled or deletedAt again.
Claimable(t) == nextRunAt = tick[t].due

TickClaim(t) ==
  /\ tick[t].at = "claiming"
  /\ IF Claimable(t)
     THEN /\ nextRunAt' = tick[t].next
          /\ claims' = [claims EXCEPT ![tick[t].due] = @ + 1]
          /\ removed' = IF deleted THEN removed + 1 ELSE removed
          /\ Goto(t, [at |-> "creating"])
     ELSE /\ Goto(t, Idle)
          /\ UNCHANGED <<nextRunAt, claims, removed>>
  /\ UNCHANGED <<clock, rule, enabled, deleted, edit, rewound, settled, edits,
                 faults>>

\* The task is created, then triggered; either may throw, and so may the write
\* of lastTaskId behind them.
TickCreate(t) ==
  /\ tick[t].at = "creating"
  /\ \E next \in {"triggering", "failing"} : Goto(t, [at |-> next])
  /\ UNCHANGED <<clock, row, edit, hist, settled, edits, faults>>

TickTrigger(t) ==
  /\ tick[t].at = "triggering"
  /\ \/ Goto(t, Idle) /\ settled' = settled + 1
     \/ Goto(t, [at |-> "failing"]) /\ UNCHANGED settled
  /\ UNCHANGED <<clock, row, edit, hist, edits, faults>>

\* Mutant: a task that cannot be created ends the tick without a trace.
TickFailSilent(t) ==
  /\ tick[t].at = "failing"
  /\ Goto(t, Idle)
  /\ UNCHANGED <<clock, row, edit, hist, settled, edits, faults>>

TickFail(t) ==
  /\ tick[t].at = "failing"
  /\ Goto(t, Idle) /\ settled' = settled + 1
  /\ UNCHANGED <<clock, row, edit, hist, edits, faults>>

\* Nothing catches the write of lastError: when it throws as well the tick
\* ends there, and the claim has left nothing behind.
TickFailThrows(t) ==
  /\ faults > 0 /\ faults' = faults - 1
  /\ tick[t].at = "failing" /\ Goto(t, Idle)
  /\ UNCHANGED <<clock, row, edit, hist, settled, edits>>

\* The replica stops: nobody resumes the tick.
Stop(t) ==
  /\ faults > 0 /\ faults' = faults - 1
  /\ tick[t] # Idle /\ Goto(t, Idle)
  /\ UNCHANGED <<clock, row, edit, hist, settled, edits>>
-----------------------------------------------------------------------------
(* The operators' calls.  update reads the row, computes nextRunAt when    *)
(* the rule is given, and writes the fields that are given by the id alone.*)

UpdateRead ==
  /\ ~deleted /\ edits > 0 /\ edits' = edits - 1
  /\ \/ \E r \in Rules :
          edit' = edit \cup {[rule |-> r, next |-> NextRun(r, clock)]}
     \/ \E e \in BOOLEAN : edit' = edit \cup {[enabled |-> e]}
  /\ UNCHANGED <<clock, row, tick, hist, settled, faults>>

UpdateWrite(e) ==
  /\ e \in edit /\ edit' = edit \ {e}
  /\ IF "rule" \in DOMAIN e
     THEN /\ rule' = e.rule /\ nextRunAt' = e.next
          /\ rewound' = IF e.next <= clock THEN rewound \cup {e.next}
                        ELSE rewound
          /\ UNCHANGED enabled
     ELSE enabled' = e.enabled /\ UNCHANGED <<rule, nextRunAt, rewound>>
  /\ UNCHANGED <<clock, deleted, tick, claims, removed, settled, edits, faults>>

Remove ==
  /\ ~deleted /\ edits > 0 /\ edits' = edits - 1
  /\ deleted' = TRUE /\ enabled' = FALSE
  /\ UNCHANGED <<clock, rule, nextRunAt, tick, edit, hist, settled, faults>>

TickStep(t) ==
  \/ TickRead(t) \/ TickClaim(t) \/ TickCreate(t) \/ TickTrigger(t)
  \/ TickFail(t)

Next ==
  \/ Advance \/ UpdateRead \/ Remove
  \/ \E e \in edit : UpdateWrite(e)
  \/ \E t \in Ticks :
       TickStart(t) \/ TickStep(t) \/ TickFailThrows(t) \/ Stop(t)

Spec == Init /\ [][Next]_vars
-----------------------------------------------------------------------------
\* "with multiple API instances, only one creates the task": however ticks
\* overlap, an occurrence is claimed once; and of the ticks that had read a
\* schedule before it was removed one at most still fires it, since the
\* claim does not look.  The exception is an update that computed the next
\* run earlier and writes it when that time has passed.
FiresOnce ==
  /\ \A o \in Times : claims[o] > 1 => \E u \in rewound : u <= o
  /\ removed > 1 => rewound # {}

InHand == {t \in Ticks : tick[t].at \in {"creating", "triggering", "failing"}}

\* The claims of all occurrences, one by one.
Claimed == UNION {{o} \X (1 .. claims[o]) : o \in Times}

\* A claimed run is in hand, queued as a task, or has left its error, but for
\* one per stop of a replica and one per error that could not be written: then
\* nothing tells that the occurrence was ever due, and nobody fires it again.
ClaimsAccounted ==
  Cardinality(Claimed)
    <= settled + Cardinality(InHand) + (MaxFaults - faults)
-----------------------------------------------------------------------------
(* Cron calls runDue every minute, and its awaits return.                  *)
Fairness == \A t \in Ticks : WF_vars(TickStart(t)) /\ WF_vars(TickStep(t))

FairSpec == Spec /\ Fairness

Pending(o) == nextRunAt = o /\ o <= clock /\ enabled /\ ~deleted

\* A due schedule is claimed, or no longer due since it was edited, whatever
\* ticks give up since another one was faster.
DueIsClaimed == \A o \in Times : Pending(o) ~> ~Pending(o)
=============================================================================
