------------------------ MODULE ScheduleClaimProofs ------------------------
(***************************************************************************)
(* Proofs about ScheduleClaim, for any number of overlapping ticks, any    *)
(* rules and any number of edits and stops: an occurrence fires once, and  *)
(* what becomes of every claim.                                            *)
(***************************************************************************)
EXTENDS ScheduleClaim, FiniteSetTheorems, TLAPS

\* A tick knows a time that has come; what it would write is later than what
\* it has read.
TicksBehind ==
  \A t \in Ticks :
    /\ tick[t].at = "reading" => tick[t].now <= clock
    /\ tick[t].at = "claiming" => /\ tick[t].due <= clock
                                  /\ tick[t].next > tick[t].due

\* No update has moved the next run back to this occurrence or before it.
Forward(o) == \A u \in rewound : u > o

\* What was claimed has come, and the next run lies after it.
ClaimedIsPast ==
  \A o \in Times : claims[o] > 0 => /\ o <= clock
                                    /\ Forward(o) => nextRunAt > o

\* The first claim after the removal takes nextRunAt past what every tick that
\* is still under way has read, and no tick starts to claim any more.
RemovedIsPast ==
  rewound = {} => \A t \in Ticks : tick[t].at = "claiming" =>
    /\ tick[t].due <= nextRunAt
    /\ removed > 0 => deleted /\ tick[t].due < nextRunAt

IInv ==
  /\ ScheduleTypeOK /\ TicksBehind /\ ClaimedIsPast /\ RemovedIsPast
  /\ removed > 0 => deleted
  /\ FiresOnce
-----------------------------------------------------------------------------
\* computeNextRun returns an occurrence of the rule, after the given time.
LEMMA NextRunIsLater ==
  ASSUME NEW r \in Rules, NEW from \in 0 .. Horizon
  PROVE  /\ NextRun(r, from) \in Times /\ NextRun(r, from) \in Nat
         /\ NextRun(r, from) > from
<1> DEFINE S == {o \in Occurrences[r] : o > from}
<1>1. S \subseteq Nat /\ S # {} /\ Occurrences[r] \in SUBSET Nat
  BY ScheduleAssumption
<1>2. \E o \in S : \A u \in S : o <= u
  <2>1. PICK o \in S : \A u \in S : <<u, o>> \notin OpToRel(<, Nat)
    <3>1. IsWellFoundedOn(OpToRel(<, Nat), Nat)
      BY NatLessThanWellFounded
    <3> HIDE DEF S
    <3> QED BY <1>1, <3>1, WFMin
  <2>2. o \in Nat
    BY <1>1
  <2>3. \A u \in Nat : ~(u < o) => o <= u
    BY <2>2
  <2> QED
    BY <1>1, <2>1, <2>3 DEF OpToRel
<1>3. Min(S) \in S
  BY <1>2 DEF Min
<1>4. Occurrences[r] \subseteq Times
  BY ScheduleAssumption DEF Times, Range
<1> QED
  BY <1>1, <1>3, <1>4 DEF NextRun

LEMMA TimesAreNat == Times \subseteq Nat /\ Horizon \in Nat
  BY ScheduleAssumption DEF Times, Range

\* What a tick holds is told by where it is.
LEMMA TickFields ==
  ASSUME ScheduleTypeOK, NEW t \in Ticks
  PROVE  /\ tick[t].at = "reading" => tick[t].now \in Nat
         /\ tick[t].at = "claiming" =>
              /\ tick[t].due \in Times /\ tick[t].due \in Nat
              /\ tick[t].next \in Times /\ tick[t].next \in Nat
<1>1. tick[t] \in {Idle} \cup Reading \cup Claim \cup Busy
  BY DEF ScheduleTypeOK
<1>2. CASE tick[t] = Idle
  BY <1>2 DEF Idle
<1>3. CASE tick[t] \in Reading
  BY <1>3 DEF Reading
<1>4. CASE tick[t] \in Claim
  BY <1>4, TimesAreNat DEF Claim
<1>5. CASE tick[t] \in Busy
  BY <1>5 DEF Busy
<1> QED
  BY <1>1, <1>2, <1>3, <1>4, <1>5

LEMMA InitInv == Init => IInv
<1> SUFFICES ASSUME Init
             PROVE  IInv
  OBVIOUS
<1>1. nextRunAt \in Times
  BY NextRunIsLater, TimesAreNat DEF Init
<1>2. ScheduleTypeOK
  <2>1. /\ clock \in 0 .. Horizon /\ edits \in 0 .. MaxEdits
        /\ faults \in 0 .. MaxFaults /\ removed \in Nat /\ settled \in Nat
    BY ScheduleAssumption DEF Init
  <2>2. enabled \in BOOLEAN /\ deleted \in BOOLEAN
    BY DEF Init
  <2>3. /\ tick \in [Ticks -> {Idle} \cup Reading \cup Claim \cup Busy]
        /\ claims \in [Times -> Nat] /\ rewound \subseteq Times
        /\ edit \subseteq Edits
    BY DEF Init
  <2> QED
    BY <1>1, <2>1, <2>2, <2>3 DEF Init, ScheduleTypeOK
<1>3. \A t \in Ticks : tick[t].at = "idle"
  BY DEF Init, Idle
<1>4. TicksBehind /\ RemovedIsPast
  BY <1>3 DEF TicksBehind, RemovedIsPast
<1>5. ClaimedIsPast /\ FiresOnce /\ removed = 0
  BY DEF Init, ClaimedIsPast, FiresOnce
<1> QED
  BY <1>2, <1>4, <1>5 DEF IInv

\* An action that leaves every tick alone or idle and no claim, rewinding or
\* removal behind preserves all but the types.
LEMMA Quiet ==
  ASSUME IInv, clock' >= clock, clock' \in Nat,
         \A t \in Ticks :
           \/ tick'[t].at \notin {"reading", "claiming"}
           \/ tick'[t] = tick[t]
           \/ tick'[t].at = "reading" /\ tick'[t].now <= clock',
         UNCHANGED <<claims, rewound, removed, nextRunAt>>,
         deleted => deleted'
  PROVE  /\ TicksBehind' /\ ClaimedIsPast' /\ RemovedIsPast' /\ FiresOnce'
         /\ (removed > 0 => deleted)'
<1>1. clock \in Nat /\ nextRunAt \in Nat
  BY TimesAreNat DEF IInv, ScheduleTypeOK
<1>2. \A t \in Ticks :
        \/ tick'[t].at \notin {"reading", "claiming"}
        \/ tick'[t].at = "reading" /\ tick'[t].now <= clock'
        \/ /\ tick'[t].at = "claiming" /\ tick[t].at = "claiming"
           /\ tick'[t].due = tick[t].due /\ tick'[t].next = tick[t].next
           /\ tick[t].due \in Nat /\ tick[t].next \in Nat
  BY <1>1, TickFields DEF IInv, TicksBehind
<1>3. TicksBehind'
  BY <1>1, <1>2 DEF IInv, TicksBehind
<1>4. ClaimedIsPast' /\ FiresOnce'
  <2>1. FiresOnce'
    BY DEF IInv, FiresOnce
  <2>2. \A o \in Nat : o <= clock => o <= clock'
    BY <1>1
  <2>3. ClaimedIsPast'
    BY <2>2, TimesAreNat DEF IInv, ClaimedIsPast, Forward
  <2> QED BY <2>1, <2>3
<1>5. RemovedIsPast'
  BY <1>1, <1>2 DEF IInv, RemovedIsPast
<1> QED
  BY <1>3, <1>4, <1>5 DEF IInv

LEMMA AdvanceInv == IInv /\ Advance => IInv'
<1> SUFFICES ASSUME IInv, Advance
             PROVE  IInv'
  OBVIOUS
<1>1. clock' >= clock /\ clock' \in 0 .. Horizon
  BY TimesAreNat DEF IInv, ScheduleTypeOK, Advance
<1>2. ScheduleTypeOK'
  BY <1>1 DEF IInv, ScheduleTypeOK, Advance, row, hist
<1> QED
  BY <1>1, <1>2, Quiet, TimesAreNat DEF IInv, Advance, row, hist

\* A tick that starts, reads nothing due, works on its claim or stops.
LEMMA TickMovesInv ==
  ASSUME IInv, NEW t \in Ticks,
         TickStart(t) \/ TickCreate(t) \/ TickTrigger(t) \/ TickFail(t)
         \/ TickFailThrows(t) \/ Stop(t)
  PROVE  IInv'
<1>1. clock' = clock /\ clock \in 0 .. Horizon
  BY DEF IInv, ScheduleTypeOK, TickStart, TickCreate, TickTrigger, TickFail,
      TickFailThrows, Stop
<1>2. PICK state \in {Idle} \cup Reading \cup Busy :
        /\ Goto(t, state)
        /\ state.at = "reading" => state.now = clock
  <2>1. \A n \in Nat : [at |-> "reading", now |-> n] \in Reading
    BY DEF Reading
  <2>2. \A p \in {"creating", "triggering", "failing"} : [at |-> p] \in Busy
    BY DEF Busy
  <2>3. Idle.at # "reading"
    BY DEF Idle
  <2> QED
    BY <1>1, <2>1, <2>2, <2>3, TimesAreNat
    DEF TickStart, TickCreate, TickTrigger, TickFail,
      TickFailThrows, Stop
<1>3. \A u \in Ticks : tick'[u] = IF u = t THEN state ELSE tick[u]
  BY <1>2 DEF Goto, IInv, ScheduleTypeOK
<1>4. state.at # "claiming"
  BY <1>2 DEF Idle, Reading, Busy
<1>5. ScheduleTypeOK'
  <2>1. settled' \in Nat /\ faults' \in 0 .. MaxFaults
    BY ScheduleAssumption
    DEF IInv, ScheduleTypeOK, TickStart, TickCreate, TickTrigger, TickFail,
      TickFailThrows, Stop
  <2>2. tick' \in [Ticks -> {Idle} \cup Reading \cup Claim \cup Busy]
    BY <1>2 DEF IInv, ScheduleTypeOK, Goto
  <2> QED
    BY <2>1, <2>2
    DEF IInv, ScheduleTypeOK, TickStart, TickCreate, TickTrigger, TickFail,
        TickFailThrows, Stop, row, hist
<1>6. UNCHANGED <<claims, rewound, removed, nextRunAt, deleted>>
  BY DEF TickStart, TickCreate, TickTrigger, TickFail,
        TickFailThrows, Stop, row, hist
<1>7. \A u \in Ticks :
        \/ tick'[u].at \notin {"reading", "claiming"}
        \/ tick'[u] = tick[u]
        \/ tick'[u].at = "reading" /\ tick'[u].now <= clock'
  BY <1>1, <1>2, <1>3, <1>4
<1> QED
  BY <1>1, <1>5, <1>6, <1>7, Quiet DEF IInv

\* A tick reads a due schedule: what it would claim has come.
LEMMA TickReadInv ==
  ASSUME IInv, NEW t \in Ticks, TickRead(t)
  PROVE  IInv'
<1>1. UNCHANGED <<clock, row, edit, hist, settled, edits, faults>>
  BY DEF TickRead
<1>2. /\ tick[t].now \in 0 .. Horizon /\ tick[t].now <= clock
      /\ clock \in Nat /\ nextRunAt \in Nat /\ nextRunAt \in Times
      /\ rule \in Rules
  BY TimesAreNat, TickFields DEF IInv, ScheduleTypeOK, TicksBehind, TickRead
<1>3. CASE ~Due(tick[t].now)
  <2>1. \A u \in Ticks : tick'[u] = IF u = t THEN Idle ELSE tick[u]
    BY <1>3 DEF TickRead, Goto, IInv, ScheduleTypeOK
  <2>2. ScheduleTypeOK'
    BY <1>1, <1>3 DEF TickRead, Goto, IInv, ScheduleTypeOK, row, hist
  <2>3. Idle.at = "idle"
    BY DEF Idle
  <2> QED
    BY <1>1, <1>2, <2>1, <2>2, <2>3, Quiet DEF IInv, row, hist
<1>4. CASE Due(tick[t].now)
  <2> DEFINE n == NextRun(rule, tick[t].now)
             s == [at |-> "claiming", due |-> nextRunAt, next |-> n]
  <2>1. n \in Times /\ n \in Nat /\ n > tick[t].now
    BY <1>2, NextRunIsLater
  <2>2. s \in Claim
    BY <1>2, <2>1 DEF Claim
  <2>3. /\ nextRunAt <= clock /\ n > nextRunAt /\ ~deleted
    BY <1>2, <1>4, <2>1 DEF Due
  <2> HIDE DEF n
  <2>4. /\ \A u \in Ticks : tick'[u] = IF u = t THEN s ELSE tick[u]
        /\ tick' \in [Ticks -> {Idle} \cup Reading \cup Claim \cup Busy]
    BY <1>4, <2>2 DEF TickRead, Goto, IInv, ScheduleTypeOK, n
  <2>5. ScheduleTypeOK'
    BY <1>1, <2>4 DEF IInv, ScheduleTypeOK, row, hist
  <2>6. TicksBehind'
    BY <1>1, <2>3, <2>4 DEF IInv, TicksBehind
  <2>7. ClaimedIsPast' /\ FiresOnce' /\ (removed > 0 => deleted)'
    BY <1>1 DEF IInv, ClaimedIsPast, Forward, FiresOnce, row, hist
  <2>8. RemovedIsPast'
    BY <1>1, <1>2, <2>3, <2>4 DEF IInv, RemovedIsPast, row, hist
  <2> QED
    BY <2>5, <2>6, <2>7, <2>8 DEF IInv
<1> QED
  BY <1>3, <1>4

\* A claim finds nextRunAt where the tick has read it and moves it forward.
LEMMA TickClaimInv ==
  ASSUME IInv, NEW t \in Ticks, TickClaim(t)
  PROVE  IInv'
<1> DEFINE d == tick[t].due
           n == tick[t].next
<1>1. /\ tick[t].at = "claiming"
      /\ d \in Times /\ d \in Nat /\ n \in Times /\ n \in Nat
      /\ d <= clock /\ n > d /\ clock \in Nat
      /\ UNCHANGED <<clock, rule, enabled, deleted, edit, rewound, settled,
                     edits, faults>>
  BY TimesAreNat, TickFields DEF IInv, ScheduleTypeOK, TicksBehind, TickClaim
<1> HIDE DEF d, n
<1>2. CASE ~Claimable(t)
  <2>1. \A u \in Ticks : tick'[u] = IF u = t THEN Idle ELSE tick[u]
    BY <1>2 DEF TickClaim, Goto, IInv, ScheduleTypeOK
  <2>2. ScheduleTypeOK'
    BY <1>1, <1>2 DEF TickClaim, Goto, IInv, ScheduleTypeOK
  <2>3. Idle.at = "idle"
    BY DEF Idle
  <2> QED
    BY <1>1, <1>2, <2>1, <2>2, <2>3, Quiet DEF IInv, TickClaim
<1>3. CASE Claimable(t)
  <2> DEFINE busy == [at |-> "creating"]
  <2>1. /\ nextRunAt = d /\ nextRunAt' = n
        /\ claims' = [claims EXCEPT ![d] = @ + 1]
        /\ removed' = IF deleted THEN removed + 1 ELSE removed
        /\ Goto(t, busy)
    BY <1>3 DEF TickClaim, Claimable, d, n
  <2>2. busy \in Busy /\ busy.at = "creating"
    BY DEF Busy
  <2> HIDE DEF busy
  <2>3. /\ \A u \in Ticks : tick'[u] = IF u = t THEN busy ELSE tick[u]
        /\ tick' \in [Ticks -> {Idle} \cup Reading \cup Claim \cup Busy]
    BY <2>1, <2>2 DEF Goto, IInv, ScheduleTypeOK
  <2>4. /\ \A o \in Times : claims'[o] = IF o = d THEN claims[o] + 1 ELSE claims[o]
        /\ claims' \in [Times -> Nat] /\ removed \in Nat /\ removed' \in Nat
    BY <1>1, <2>1 DEF IInv, ScheduleTypeOK
  <2>5. ScheduleTypeOK'
    BY <1>1, <2>1, <2>3, <2>4 DEF IInv, ScheduleTypeOK
  <2>6. TicksBehind'
    BY <1>1, <2>2, <2>3 DEF IInv, TicksBehind
  <2>7. ClaimedIsPast'
    <3>1. ASSUME NEW o \in Times, claims'[o] > 0
          PROVE  o <= clock /\ (Forward(o) => n > o)
      <4>1. o \in Nat /\ claims[o] \in Nat
        BY TimesAreNat DEF IInv, ScheduleTypeOK
      <4>2. CASE o = d
        BY <1>1, <4>2
      <4>3. CASE o # d
        <5>1. o <= clock /\ (Forward(o) => d > o)
          BY <2>1, <2>4, <3>1, <4>3 DEF IInv, ClaimedIsPast
        <5> QED BY <1>1, <4>1, <5>1
      <4> QED BY <4>2, <4>3
    <3> QED BY <1>1, <2>1, <3>1 DEF ClaimedIsPast, Forward
  <2>8. claims[d] > 0 => ~Forward(d)
    BY <1>1, <2>1 DEF IInv, ClaimedIsPast
  <2>9. rewound = {} => removed = 0
    BY <1>1, <2>1, <2>4 DEF IInv, RemovedIsPast, d
  <2>10. \A u \in Ticks : tick'[u].at = "claiming" =>
           /\ tick'[u] = tick[u] /\ tick[u].due \in Nat
           /\ rewound = {} => tick[u].due <= d
    BY <1>1, <2>1, <2>2, <2>3, TickFields DEF IInv, RemovedIsPast
  <2>11. RemovedIsPast'
    <3>1. \A u \in Ticks : tick'[u].at = "claiming" /\ rewound = {} =>
            tick'[u].due < n
      BY <1>1, <2>10
    <3>2. \A u \in Ticks : tick'[u].at = "claiming" => tick'[u].due \in Nat
      BY <2>10
    <3>3. removed' > 0 => deleted
      BY <2>1, <2>4 DEF IInv
    <3> QED BY <1>1, <2>1, <3>1, <3>2, <3>3 DEF RemovedIsPast
  <2>12. FiresOnce'
    <3>1. \A o \in Times : claims'[o] > 1 => \E u \in rewound : u <= o
      BY <1>1, <2>4, <2>8, TimesAreNat
      DEF IInv, ScheduleTypeOK, FiresOnce, Forward
    <3>2. removed' > 1 => rewound # {}
      BY <2>1, <2>4, <2>9
    <3> QED BY <1>1, <3>1, <3>2 DEF FiresOnce
  <2> QED
    BY <1>1, <2>1, <2>4, <2>5, <2>6, <2>7, <2>11, <2>12 DEF IInv
<1> QED
  BY <1>2, <1>3

\* What operators write: an earlier next run is in rewound, a later one lies
\* after everything that was claimed.
LEMMA OperatorInv ==
  ASSUME IInv, UpdateRead \/ Remove \/ \E e \in edit : UpdateWrite(e)
  PROVE  IInv'
<1>0. clock \in 0 .. Horizon /\ clock \in Nat /\ nextRunAt \in Nat
  BY TimesAreNat DEF IInv, ScheduleTypeOK
<1>1. CASE UpdateRead
  <2>1. edit' \subseteq Edits
    <3>1. \A r \in Rules : [rule |-> r, next |-> NextRun(r, clock)] \in Edits
      BY <1>0, NextRunIsLater DEF Edits
    <3>2. \A b \in BOOLEAN : [enabled |-> b] \in Edits
      BY DEF Edits
    <3> QED BY <1>1, <3>1, <3>2 DEF UpdateRead, IInv, ScheduleTypeOK
  <2>2. ScheduleTypeOK'
    BY <1>1, <2>1, ScheduleAssumption
    DEF UpdateRead, IInv, ScheduleTypeOK, row, hist
  <2> QED
    BY <1>0, <1>1, <2>2, Quiet DEF UpdateRead, IInv, row, hist
<1>2. CASE Remove
  <2>1. ScheduleTypeOK'
    <3>1. edits' \in 0 .. MaxEdits
      BY <1>2, ScheduleAssumption DEF Remove, IInv, ScheduleTypeOK
    <3>2. enabled' \in BOOLEAN /\ deleted' \in BOOLEAN
      BY <1>2 DEF Remove
    <3> QED
      BY <1>2, <3>1, <3>2 DEF Remove, IInv, ScheduleTypeOK, hist
  <2> QED
    BY <1>0, <1>2, <2>1, Quiet DEF Remove, IInv, hist
<1>3. ASSUME NEW e \in edit, UpdateWrite(e)
      PROVE  IInv'
  <2>1. UNCHANGED <<clock, deleted, tick, claims, removed, settled, edits, faults>>
    BY <1>3 DEF UpdateWrite
  <2>2. CASE "rule" \notin DOMAIN e
    <3>1. e.enabled \in BOOLEAN
      BY <2>2 DEF IInv, ScheduleTypeOK, Edits
    <3>2. UNCHANGED <<rule, nextRunAt, rewound>> /\ enabled' = e.enabled
      BY <1>3, <2>2 DEF UpdateWrite
    <3>3. ScheduleTypeOK'
      BY <1>3, <2>1, <3>1, <3>2 DEF UpdateWrite, IInv, ScheduleTypeOK
    <3> QED
      BY <1>0, <2>1, <3>2, <3>3, Quiet DEF IInv
  <2>3. CASE "rule" \in DOMAIN e
    <3>1. e.rule \in Rules /\ e.next \in Times /\ e.next \in Nat
      <4>1. e \in [rule : Rules, next : Times] \cup [enabled : BOOLEAN]
        BY DEF IInv, ScheduleTypeOK, Edits
      <4>2. e \notin [enabled : BOOLEAN]
        BY <2>3
      <4> QED BY <4>1, <4>2, TimesAreNat
    <3>2. /\ rule' = e.rule /\ nextRunAt' = e.next /\ enabled' = enabled
          /\ rewound' = IF e.next <= clock THEN rewound \cup {e.next}
                        ELSE rewound
          /\ edit' \subseteq edit
      BY <1>3, <2>3 DEF UpdateWrite
    <3>3. ScheduleTypeOK'
      BY <2>1, <3>1, <3>2 DEF IInv, ScheduleTypeOK
    <3>4. TicksBehind' /\ (removed > 0 => deleted)'
      BY <2>1 DEF IInv, TicksBehind
    <3>5. ClaimedIsPast'
      BY <1>0, <2>1, <3>1, <3>2, TimesAreNat DEF IInv, ClaimedIsPast, Forward
    <3>6. RemovedIsPast'
      <4>1. ASSUME rewound' = {}, NEW t \in Ticks, tick[t].at = "claiming"
            PROVE  tick[t].due < e.next /\ (removed > 0 => deleted)
        <5>1. e.next > clock /\ tick[t].due <= clock /\ tick[t].due \in Nat
          BY <1>0, <3>1, <3>2, <4>1, TickFields DEF IInv, TicksBehind
        <5> QED BY <1>0, <3>1, <5>1 DEF IInv
      <4>2. \A t \in Ticks : tick[t].at = "claiming" => tick[t].due \in Nat
        BY TickFields DEF IInv
      <4> QED BY <2>1, <3>1, <3>2, <4>1, <4>2 DEF RemovedIsPast
    <3>7. FiresOnce'
      BY <2>1, <3>2 DEF IInv, FiresOnce
    <3> QED
      BY <3>3, <3>4, <3>5, <3>6, <3>7 DEF IInv
  <2> QED
    BY <2>2, <2>3
<1> QED
  BY <1>1, <1>2, <1>3

LEMMA NextInv == IInv /\ [Next]_vars => IInv'
<1>1. ASSUME IInv, Next
      PROVE  IInv'
  BY <1>1, AdvanceInv, TickMovesInv, TickReadInv, TickClaimInv, OperatorInv
  DEF Next, TickStep
<1>2. ASSUME IInv, UNCHANGED vars
      PROVE  IInv'
  BY <1>2 DEF IInv, ScheduleTypeOK, TicksBehind, ClaimedIsPast, Forward,
              RemovedIsPast, FiresOnce, vars, row, hist
<1> QED
  BY <1>1, <1>2

LEMMA Inductive == Spec => []IInv
  BY InitInv, NextInv, PTL DEF Spec
-----------------------------------------------------------------------------
\* An occurrence of a schedule fires once, however many ticks of however many
\* replicas overlap with however many edits, unless an update writes a next
\* run that has passed; after the removal one claim at most comes late.
THEOREM OccurrencesFireOnce == Spec => []FiresOnce
<1>1. IInv => FiresOnce
  BY DEF IInv
<1> QED
  BY <1>1, Inductive, PTL
-----------------------------------------------------------------------------
(* The account of claims.                                                  *)

Account == IsFiniteSet(Claimed) /\ ClaimsAccounted

LEMMA InHandFinite == IsFiniteSet(InHand) /\ Cardinality(InHand) \in Nat
BY ScheduleAssumption, FS_Subset, FS_CardinalityType DEF InHand

LEMMA InitAccount == Init => Account
<1> SUFFICES ASSUME Init PROVE Account
  OBVIOUS
<1>1. Claimed = {}
  BY DEF Init, Claimed
<1>2. IsFiniteSet(Claimed) /\ Cardinality(Claimed) = 0
  BY <1>1, FS_EmptySet
<1>3. settled = 0 /\ faults = MaxFaults /\ MaxFaults \in Nat
  BY ScheduleAssumption DEF Init
<1> QED
  BY <1>2, <1>3, InHandFinite DEF Account, ClaimsAccounted

\* Where a tick is is told by how it moves.
LEMMA InHandMoves ==
  ASSUME IInv, NEW t \in Ticks, NEW state, Goto(t, state)
  PROVE  InHand' = IF state.at \in {"creating", "triggering", "failing"}
                   THEN InHand \cup {t} ELSE InHand \ {t}
<1>1. \A u \in Ticks : tick'[u] = IF u = t THEN state ELSE tick[u]
  BY DEF Goto, IInv, ScheduleTypeOK
<1> QED
  BY <1>1 DEF InHand

\* A claim comes into a hand, and nothing else is claimed.
LEMMA ClaimAccount ==
  ASSUME IInv, Account, NEW t \in Ticks, TickClaim(t)
  PROVE  Account'
<1>1. /\ tick[t].at = "claiming" /\ t \notin InHand
      /\ UNCHANGED <<settled, faults>>
  BY DEF TickClaim, InHand
<1>2. CASE ~Claimable(t)
  <2>1. Goto(t, Idle) /\ UNCHANGED claims
    BY <1>2 DEF TickClaim
  <2>2. InHand' = InHand
    BY <1>1, <2>1, InHandMoves DEF Idle
  <2>3. Claimed' = Claimed
    BY <2>1 DEF Claimed
  <2> QED BY <1>1, <2>2, <2>3 DEF Account, ClaimsAccounted
<1>3. CASE Claimable(t)
  <2> DEFINE d == tick[t].due
  <2>1. d \in Times /\ claims[d] \in Nat
    BY <1>1, TickFields DEF IInv, ScheduleTypeOK
  <2>2. claims' = [claims EXCEPT ![d] = @ + 1] /\ Goto(t, [at |-> "creating"])
    BY <1>3 DEF TickClaim
  <2>3. InHand' = InHand \cup {t}
    BY <2>2, InHandMoves
  <2> DEFINE c == <<d, claims[d] + 1>>
  <2>4. Claimed' = Claimed \cup {c} /\ c \notin Claimed
    <3>1. \A o \in Times : claims'[o] = IF o = d THEN claims[o] + 1
                                        ELSE claims[o]
      BY <2>1, <2>2 DEF IInv, ScheduleTypeOK
    <3>2. 1 .. claims[d] + 1 = (1 .. claims[d]) \cup {claims[d] + 1}
      BY <2>1
    <3>3. \A o \in Times :
            {o} \X (1 .. claims'[o]) = IF o = d
                                       THEN ({o} \X (1 .. claims[o])) \cup {c}
                                       ELSE {o} \X (1 .. claims[o])
      BY <2>1, <3>1, <3>2
    <3>4. Claimed' = Claimed \cup {c}
      BY <2>1, <3>3 DEF Claimed
    <3>5. c \notin Claimed
      BY <2>1 DEF Claimed
    <3> QED BY <3>4, <3>5
  <2> HIDE DEF c
  <2>5. /\ IsFiniteSet(Claimed') /\ Cardinality(Claimed) \in Nat
        /\ Cardinality(Claimed') = Cardinality(Claimed) + 1
    BY <2>4, FS_AddElement, FS_CardinalityType DEF Account
  <2>6. Cardinality(InHand') = Cardinality(InHand) + 1
    BY <1>1, <2>3, InHandFinite, FS_AddElement
  <2>7. settled \in Nat /\ faults \in Nat /\ MaxFaults \in Nat
    BY ScheduleAssumption DEF IInv, ScheduleTypeOK
  <2> QED
    BY <1>1, <2>5, <2>6, <2>7, InHandFinite DEF Account, ClaimsAccounted
<1> QED
  BY <1>2, <1>3

\* One claim less in hand is made up for by one settled or one fault.
LEMMA Balance ==
  ASSUME NEW c \in Int, NEW h \in Int, NEW k \in Int, NEW m \in Int,
         NEW s \in Int, NEW f \in Int, NEW t \in Int, NEW g \in Int,
         k >= h - 1, t + (m - g) = s + (m - f) + 1, c <= s + h + (m - f)
  PROVE  c <= t + k + (m - g)
OBVIOUS

\* A hand that lets go of a claim has settled it, is stopped, or could not
\* write its error.
LEMMA HandAccount ==
  ASSUME IInv, Account, NEW t \in Ticks,
         TickCreate(t) \/ TickTrigger(t) \/ TickFail(t)
         \/ TickFailThrows(t) \/ Stop(t)
  PROVE  Account'
<1>1. Claimed' = Claimed
  BY DEF TickCreate, TickTrigger, TickFail, TickFailThrows, Stop,
      Claimed, hist
<1>2. /\ settled \in Nat /\ faults \in 0 .. MaxFaults /\ MaxFaults \in Nat
      /\ Cardinality(Claimed) \in Nat
  BY ScheduleAssumption, FS_CardinalityType DEF IInv, ScheduleTypeOK, Account
<1>3. CASE InHand' = InHand /\ settled' = settled /\ faults' = faults
  BY <1>1, <1>3 DEF Account, ClaimsAccounted
<1>4. CASE /\ InHand' = InHand \ {t}
           /\ \/ settled' = settled + 1 /\ faults' = faults
              \/ settled' = settled /\ faults' = faults - 1
  <2>1. /\ Cardinality(InHand \ {t}) \in Nat
        /\ Cardinality(InHand \ {t}) >= Cardinality(InHand) - 1
    <3>1. /\ IsFiniteSet(InHand \ {t})
          /\ Cardinality(InHand \ {t}) = IF t \in InHand
                                         THEN Cardinality(InHand) - 1
                                         ELSE Cardinality(InHand)
      BY InHandFinite, FS_RemoveElement
    <3> QED BY <3>1, InHandFinite, FS_CardinalityType
  <2>2. Cardinality(InHand') = Cardinality(InHand \ {t})
    BY <1>4
  <2>3. /\ settled' + (MaxFaults - faults') = settled + (MaxFaults - faults) + 1
        /\ settled' \in Nat /\ faults' \in Int
    BY <1>2, <1>4
  <2> DEFINE c == Cardinality(Claimed)
             h == Cardinality(InHand)
             k == Cardinality(InHand \ {t})
  <2>4. c <= settled + h + (MaxFaults - faults)
    BY DEF Account, ClaimsAccounted
  <2>5. /\ c \in Int /\ h \in Int /\ k \in Int /\ k >= h - 1
        /\ settled \in Int /\ settled' \in Int
        /\ faults \in Int /\ faults' \in Int /\ MaxFaults \in Int
    BY <1>2, <2>1, <2>3, InHandFinite
  <2>6. c <= settled' + k + (MaxFaults - faults')
    <3> HIDE DEF c, h, k
    <3> QED BY <2>3, <2>4, <2>5, Balance, Zenon
  <2> QED
    BY <1>1, <2>2, <2>6 DEF Account, ClaimsAccounted
<1>5. CASE TickCreate(t)
  <2>1. PICK next \in {"triggering", "failing"} : Goto(t, [at |-> next])
    BY <1>5 DEF TickCreate
  <2>2. t \in InHand /\ UNCHANGED <<settled, faults>>
    BY <1>5 DEF TickCreate, InHand
  <2>3. InHand' = InHand
    BY <2>1, <2>2, InHandMoves
  <2> QED BY <1>3, <2>2, <2>3
<1>6. CASE TickTrigger(t)
  <2>1. t \in InHand /\ UNCHANGED faults
    BY <1>6 DEF TickTrigger, InHand
  <2>2. CASE Goto(t, Idle) /\ settled' = settled + 1
    BY <1>4, <2>1, <2>2, InHandMoves DEF Idle
  <2>3. CASE Goto(t, [at |-> "failing"]) /\ UNCHANGED settled
    BY <1>3, <2>1, <2>3, InHandMoves
  <2> QED BY <1>6, <2>2, <2>3 DEF TickTrigger
<1>7. CASE TickFail(t)
  <2>1. Goto(t, Idle) /\ settled' = settled + 1 /\ UNCHANGED faults
    BY <1>7 DEF TickFail
  <2> QED BY <1>4, <2>1, InHandMoves DEF Idle
<1>8. CASE TickFailThrows(t) \/ Stop(t)
  <2>1. Goto(t, Idle) /\ faults' = faults - 1 /\ UNCHANGED settled
    BY <1>8 DEF TickFailThrows, Stop
  <2> QED BY <1>4, <2>1, InHandMoves DEF Idle
<1> QED
  BY <1>5, <1>6, <1>7, <1>8

\* No other step touches a claim or a hand.
LEMMA OtherAccount ==
  ASSUME IInv, Account,
         \/ Advance \/ UpdateRead \/ Remove \/ UNCHANGED vars
         \/ \E e \in edit : UpdateWrite(e)
         \/ \E t \in Ticks : TickStart(t) \/ TickRead(t)
  PROVE  Account'
<1>1. UNCHANGED <<claims, settled, faults>>
  BY DEF Advance, UpdateRead, Remove, UpdateWrite, TickStart, TickRead, vars,
         hist
<1>2. InHand' = InHand
  <2>1. CASE UNCHANGED tick
    BY <2>1 DEF InHand
  <2>2. ASSUME NEW t \in Ticks, TickStart(t) \/ TickRead(t)
        PROVE  InHand' = InHand
    <3>1. t \notin InHand
      BY <2>2 DEF TickStart, TickRead, InHand, Idle
    <3>2. PICK state : Goto(t, state) /\
                       state.at \notin {"creating", "triggering", "failing"}
      BY <2>2 DEF TickStart, TickRead, Idle
    <3> QED BY <3>1, <3>2, InHandMoves
  <2> QED
    BY <2>1, <2>2 DEF Advance, UpdateRead, Remove, UpdateWrite, vars
<1> QED
  BY <1>1, <1>2 DEF Account, ClaimsAccounted, Claimed

LEMMA StepAccount == IInv /\ Account /\ [Next]_vars => Account'
BY ClaimAccount, HandAccount, OtherAccount DEF Next, TickStep

\* With any number of overlapping ticks, the claimed runs that are neither in
\* hand nor settled are no more than the stops of replicas and the errors that
\* could not be written.
THEOREM ClaimsAreAccounted == Spec => []ClaimsAccounted
<1>1. Account => ClaimsAccounted
  BY DEF Account
<1> QED
  BY <1>1, Inductive, InitAccount, StepAccount, PTL DEF Spec
=============================================================================
