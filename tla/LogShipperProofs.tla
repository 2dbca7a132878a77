-------------------------- MODULE LogShipperProofs --------------------------
(***************************************************************************)
(* Proofs about LogShipper, for any number of records, any size of buffer  *)
(* and of batches and any number of timeouts: until the last drain the     *)
(* oldest records are lost, and the API receives them in order.            *)
(***************************************************************************)
EXTENDS LogShipper, SequenceTheorems, FiniteSetTheorems, TLAPS

-----------------------------------------------------------------------------
(* What the operations on the buffer do to its records.                    *)

Increasing(s) == \A i, j \in 1 .. Len(s) : i < j => s[i] < s[j]

\* Every record of one set is older than every record of the other.
Older(S, T) == \A r \in S, q \in T : r < q

LEMMA Constants ==
  /\ BufferMax \in Nat /\ BufferMax >= 1 /\ BatchSize \in Nat /\ BatchSize >= 1
  /\ Records \in Nat /\ Record \subseteq Nat /\ MaxTimeouts \in Nat
BY ShipperAssumption DEF Record

LEMMA RangeIs ==
  ASSUME NEW s \in Seq(Record)
  PROVE  /\ \A x : x \in Range(s) <=> \E i \in 1 .. Len(s) : x = s[i]
         /\ Range(s) \subseteq Record /\ Len(s) \in Nat
         /\ \A i \in 1 .. Len(s) : s[i] \in Range(s) /\ s[i] \in Nat
<1>1. Range(s) = {s[i] : i \in 1 .. Len(s)}
  BY RangeEquality
<1>2. Range(s) \subseteq Record /\ Len(s) \in Nat
  BY RangeOfSeq, LenProperties
<1> QED
  BY <1>1, <1>2, Constants

\* The first records of a sequence and the rest.
LEMMA Split ==
  ASSUME NEW s \in Seq(Record), NEW n \in 0 .. Len(s)
  PROVE  LET front == SubSeq(s, 1, n)
             rest  == SubSeq(s, n + 1, Len(s))
         IN  /\ front \in Seq(Record) /\ rest \in Seq(Record)
             /\ n = 1 => rest = SubSeq(s, 2, Len(s))
             /\ Len(front) = n /\ Len(rest) = Len(s) - n
             /\ Range(s) = Range(front) \cup Range(rest)
             /\ Increasing(s) => /\ Increasing(front) /\ Increasing(rest)
                                 /\ Older(Range(front), Range(rest))
<1> DEFINE front == SubSeq(s, 1, n)
           rest  == SubSeq(s, n + 1, Len(s))
           m     == Len(s) - n
<1>1. /\ Len(s) \in Nat /\ n \in Nat /\ n <= Len(s) /\ m \in Nat
      /\ \A i \in 1 .. Len(s) : s[i] \in Record
  BY LenProperties, ElementOfSeq
<1>2. /\ front \in Seq(Record) /\ Len(front) = n
      /\ \A i \in 1 .. n : front[i] = s[i]
  BY <1>1, SubSeqProperties
<1>3. /\ rest \in Seq(Record) /\ Len(rest) = m
      /\ \A i \in 1 .. m : rest[i] = s[n + i]
  <2>1. /\ rest \in Seq(Record)
        /\ Len(rest) = IF n + 1 <= Len(s) THEN Len(s) - (n + 1) + 1 ELSE 0
        /\ \A i \in 1 .. Len(s) - (n + 1) + 1 : rest[i] = s[n + 1 + i - 1]
    <3>1. n + 1 \in Int /\ Len(s) \in Int /\ \A i \in n + 1 .. Len(s) : s[i] \in Record
      BY <1>1
    <3> QED BY <3>1, SubSeqProperties
  <2>2. /\ Len(s) - (n + 1) + 1 = m
        /\ (IF n + 1 <= Len(s) THEN m ELSE 0) = m
    BY <1>1
  <2>3. ASSUME NEW i \in 1 .. m PROVE n + 1 + i - 1 = n + i
    BY <1>1
  <2>4. \A i \in 1 .. m : rest[i] = s[n + i]
    BY <2>1, <2>2, <2>3
  <2>5. Len(rest) = m
    BY <2>1, <2>2
  <2> QED BY <2>1, <2>4, <2>5
<1> HIDE DEF front, rest
<1>4. Range(s) = Range(front) \cup Range(rest)
  <2>1. ASSUME NEW x \in Range(s) PROVE x \in Range(front) \cup Range(rest)
    <3>1. PICK i \in 1 .. Len(s) : x = s[i]
      BY RangeIs
    <3>2. CASE i <= n
      BY <1>1, <1>2, <3>1, <3>2, RangeIs
    <3>3. CASE ~(i <= n)
      <4>1. i - n \in 1 .. m /\ n + (i - n) = i
        BY <1>1, <3>3
      <4> QED BY <1>3, <3>1, <4>1, RangeIs
    <3> QED BY <3>2, <3>3
  <2>2. ASSUME NEW x \in Range(front) PROVE x \in Range(s)
    <3>1. PICK i \in 1 .. n : x = front[i]
      BY <1>2, RangeIs
    <3> QED BY <1>1, <1>2, <3>1, RangeIs
  <2>3. ASSUME NEW x \in Range(rest) PROVE x \in Range(s)
    <3>1. PICK i \in 1 .. m : x = rest[i]
      BY <1>3, RangeIs
    <3>2. n + i \in 1 .. Len(s)
      BY <1>1
    <3> QED BY <1>3, <3>1, <3>2, RangeIs
  <2> QED BY <2>1, <2>2, <2>3
<1>5. ASSUME Increasing(s)
      PROVE  /\ Increasing(front) /\ Increasing(rest)
             /\ Older(Range(front), Range(rest))
  <2>1. Increasing(front)
    BY <1>1, <1>2, <1>5 DEF Increasing
  <2>2. \A i \in 1 .. m : n + i \in 1 .. Len(s)
    BY <1>1
  <2>3. Increasing(rest)
    BY <1>1, <1>3, <1>5, <2>2 DEF Increasing
  <2>4. \A i \in 1 .. n, j \in 1 .. m : front[i] < rest[j]
    BY <1>1, <1>2, <1>3, <1>5, <2>2 DEF Increasing
  <2> QED
    BY <1>2, <1>3, <2>1, <2>3, <2>4, RangeIs DEF Older
<1> QED
  BY <1>2, <1>3, <1>4, <1>5 DEF front, rest

\* Two sequences one after the other.
LEMMA ConcatIs ==
  ASSUME NEW s \in Seq(Record), NEW t \in Seq(Record)
  PROVE  /\ s \o t \in Seq(Record) /\ Len(s \o t) = Len(s) + Len(t)
         /\ Range(s \o t) = Range(s) \cup Range(t)
         /\ Increasing(s) /\ Increasing(t) /\ Older(Range(s), Range(t))
              => Increasing(s \o t)
<1>1. /\ s \o t \in Seq(Record) /\ Len(s \o t) = Len(s) + Len(t)
      /\ \A i \in 1 .. Len(s) + Len(t) :
           (s \o t)[i] = IF i <= Len(s) THEN s[i] ELSE t[i - Len(s)]
  BY ConcatProperties
<1>2. Len(s) \in Nat /\ Len(t) \in Nat
  BY LenProperties
<1>3. Range(s \o t) = Range(s) \cup Range(t)
  BY RangeConcatenation
<1>4. ASSUME Increasing(s), Increasing(t), Older(Range(s), Range(t)),
             NEW i \in 1 .. Len(s) + Len(t), NEW j \in 1 .. Len(s) + Len(t),
             i < j
      PROVE  (s \o t)[i] < (s \o t)[j]
  <2>1. CASE j <= Len(s)
    <3>1. i \in 1 .. Len(s) /\ j \in 1 .. Len(s)
      BY <1>2, <1>4, <2>1
    <3> QED BY <1>1, <1>4, <2>1, <3>1 DEF Increasing
  <2>2. CASE i <= Len(s) /\ ~(j <= Len(s))
    <3>1. i \in 1 .. Len(s) /\ j - Len(s) \in 1 .. Len(t)
      BY <1>2, <2>2
    <3>2. s[i] \in Range(s) /\ t[j - Len(s)] \in Range(t)
      BY <3>1, RangeIs
    <3> QED BY <1>1, <1>4, <2>2, <3>2 DEF Older
  <2>3. CASE ~(i <= Len(s))
    <3>1. /\ ~(j <= Len(s)) /\ i - Len(s) \in 1 .. Len(t)
          /\ j - Len(s) \in 1 .. Len(t) /\ i - Len(s) < j - Len(s)
      BY <1>2, <1>4, <2>3
    <3> QED BY <1>1, <1>4, <2>3, <3>1 DEF Increasing
  <2> QED BY <2>1, <2>2, <2>3
<1> QED
  BY <1>1, <1>3, <1>4 DEF Increasing

LEMMA Empty ==
  <<>> \in Seq(Record) /\ Len(<<>>) = 0 /\ Range(<<>>) = {} /\ Increasing(<<>>)
<1>1. <<>> \in Seq(Record) /\ Len(<<>>) = 0
  BY EmptySeq
<1>2. 1 .. 0 = {}
  OBVIOUS
<1> QED
  BY <1>1, <1>2, RangeIs DEF Increasing

LEMMA Single ==
  ASSUME NEW r \in Record
  PROVE  /\ <<r>> \in Seq(Record) /\ Len(<<r>>) = 1 /\ Range(<<r>>) = {r}
         /\ Increasing(<<r>>)
<1>1. <<r>> \in Seq(Record) /\ Len(<<r>>) = 1 /\ <<r>>[1] = r
  OBVIOUS
<1>2. Range(<<r>>) = {r}
  <2>1. \A x : x \in Range(<<r>>) <=> \E i \in 1 .. 1 : x = <<r>>[i]
    BY <1>1, RangeIs
  <2>2. 1 .. 1 = {1}
    OBVIOUS
  <2> QED BY <1>1, <2>1, <2>2
<1> QED
  BY <1>1, <1>2 DEF Increasing

\* emit: the new record comes last, and only a full buffer loses its first.
LEMMA PushedIs ==
  ASSUME NEW b \in Seq(Record), NEW r \in Record, Len(b) <= BufferMax
  PROVE  \E kept \in Seq(Record), lost \in Seq(Record) :
           /\ Range(b) = Range(lost) \cup Range(kept)
           /\ Increasing(b) => /\ Increasing(kept)
                               /\ Older(Range(lost), Range(kept))
           /\ Pushed(b, r) = kept \o <<r>>
           /\ Len(kept) + 1 <= BufferMax /\ Len(b) <= Len(kept) + 1
           /\ lost # <<>> => Len(kept) + 1 = BufferMax
<1>0. Len(b) \in Nat /\ BufferMax \in Nat /\ BufferMax >= 1
  BY Constants, LenProperties
<1>1. CASE Len(b) >= BufferMax
  <2> DEFINE lost == SubSeq(b, 1, 1)
             kept == SubSeq(b, 2, Len(b))
  <2>1. 1 \in 0 .. Len(b) /\ 1 + 1 = 2 /\ b # <<>>
    BY <1>0, <1>1
  <2>2. /\ lost \in Seq(Record) /\ kept \in Seq(Record)
        /\ Len(kept) = Len(b) - 1
        /\ Range(b) = Range(lost) \cup Range(kept)
        /\ Increasing(b) => /\ Increasing(kept)
                            /\ Older(Range(lost), Range(kept))
    <3> DEFINE rest == SubSeq(b, 1 + 1, Len(b))
    <3>1. /\ lost \in Seq(Record) /\ rest \in Seq(Record)
          /\ rest = SubSeq(b, 2, Len(b))
          /\ Len(rest) = Len(b) - 1
          /\ Range(b) = Range(lost) \cup Range(rest)
          /\ Increasing(b) => /\ Increasing(rest)
                              /\ Older(Range(lost), Range(rest))
      BY <2>1, Split
    <3> QED BY <3>1
  <2>3. Tail(b) = kept
    BY <2>1, TailIsSubSeq
  <2> HIDE DEF lost, kept
  <2>4. Pushed(b, r) = kept \o <<r>>
    BY <1>1, <2>2, <2>3, AppendIsConcat DEF Pushed
  <2>5. Len(kept) + 1 = BufferMax /\ Len(kept) + 1 <= BufferMax
        /\ Len(b) <= Len(kept) + 1
    BY <1>0, <1>1, <2>2
  <2> QED
    BY <2>2, <2>4, <2>5
<1>2. CASE ~(Len(b) >= BufferMax)
  <2>1. Pushed(b, r) = b \o <<r>>
    BY <1>2, AppendIsConcat DEF Pushed
  <2>2. Len(b) + 1 <= BufferMax /\ Len(b) <= Len(b) + 1
    BY <1>0, <1>2
  <2>3. b \in Seq(Record) /\ <<>> \in Seq(Record)
    BY Empty
  <2>4. /\ Range(b) = Range(<<>>) \cup Range(b)
        /\ Older(Range(<<>>), Range(b))
    BY Empty DEF Older
  <2> QED
    BY <2>1, <2>2, <2>3, <2>4
<1> QED
  BY <1>1, <1>2

\* A batch is put back as far as there is room, and what is left out is its
\* older part.
LEMMA PutBackIs ==
  ASSUME NEW b \in Seq(Record), NEW taken \in Seq(Record),
         Len(b) <= BufferMax
  PROVE  \E back \in Seq(Record), left \in Seq(Record) :
           /\ Range(taken) = Range(left) \cup Range(back)
           /\ Increasing(taken) => /\ Increasing(back)
                                   /\ Older(Range(left), Range(back))
           /\ PutBack(b, taken) = back \o b
           /\ Len(back) + Len(b) <= BufferMax
           /\ left # <<>> => Len(back) + Len(b) = BufferMax
           /\ Len(b) = BufferMax => back = <<>>
<1> DEFINE room == BufferMax - Len(b)
           n == IF Len(taken) > room THEN Len(taken) - room ELSE 0
           left == SubSeq(taken, 1, n)
           back == SubSeq(taken, n + 1, Len(taken))
<1>1. /\ Len(b) \in Nat /\ BufferMax \in Nat /\ Len(taken) \in Nat
      /\ room \in Nat
  BY Constants, LenProperties
<1>2. n \in 0 .. Len(taken)
  BY <1>1
<1>3. PutBack(b, taken) = back \o b
  <2>1. n + 1 = IF Len(taken) > room THEN Len(taken) - room + 1 ELSE 1
    BY <1>1
  <2> QED BY <2>1 DEF PutBack
<1> HIDE DEF back, left
<1>4. /\ left \in Seq(Record) /\ back \in Seq(Record)
      /\ Len(left) = n /\ Len(back) = Len(taken) - n
      /\ Range(taken) = Range(left) \cup Range(back)
      /\ Increasing(taken) => /\ Increasing(back)
                              /\ Older(Range(left), Range(back))
  BY <1>2, Split DEF back, left
<1>5. /\ Len(back) + Len(b) <= BufferMax
      /\ n > 0 => Len(back) + Len(b) = BufferMax
      /\ Len(b) = BufferMax => Len(back) = 0
  BY <1>1, <1>4
<1>6. /\ left # <<>> => n > 0
      /\ Len(back) = 0 => back = <<>>
  BY <1>4, EmptySeq
<1> QED
  BY <1>3, <1>4, <1>5, <1>6

\* As many records as an increasing sequence has lie above what is below it.
LEMMA CountAbove ==
  ASSUME NEW s \in Seq(Record), Increasing(s), NEW l \in Nat, NEW e \in Nat, l <= e,
         \A r \in Range(s) : l < r /\ r <= e
  PROVE  e - l >= Len(s)
<1>1. Len(s) \in Nat /\ \A i \in 1 .. Len(s) : s[i] \in Range(s) /\ s[i] \in Nat
  BY RangeIs
<1>2. s \in Injection(1 .. Len(s), l + 1 .. e)
  <2>1. \A i \in 1 .. Len(s) : s[i] \in l + 1 .. e
    BY <1>1
  <2>2. \A i, j \in 1 .. Len(s) : s[i] = s[j] => i = j
    BY <1>1 DEF Increasing
  <2>3. s \in [1 .. Len(s) -> l + 1 .. e]
    BY <2>1, LenProperties
  <2>4. DOMAIN s = 1 .. Len(s)
    BY <2>3
  <2> QED BY <2>2, <2>3, <2>4 DEF Injection, IsInjective
<1>3. /\ IsFiniteSet(l + 1 .. e)
      /\ Cardinality(l + 1 .. e) = IF l + 1 > e THEN 0 ELSE e - (l + 1) + 1
  BY FS_Interval
<1>4. Cardinality(1 .. Len(s)) = Len(s)
  BY <1>1, FS_Interval
<1>5. Cardinality(1 .. Len(s)) <= Cardinality(l + 1 .. e)
  BY <1>2, <1>3, FS_Injection
<1>6. CASE Len(s) = 0
  BY <1>6
<1>7. CASE Len(s) > 0
  BY <1>1, <1>3, <1>4, <1>5, <1>7
<1> QED
  BY <1>1, <1>6, <1>7
-----------------------------------------------------------------------------
(* The inductive invariant.                                                *)

ShipperTypeOK ==
  /\ emitted \in 0 .. Records
  /\ buffer \in Seq(Record) /\ stored \in Seq(Record)
  /\ flusher \in {"waiting", "draining", "ended"}
  /\ main \in {"up", "joining", "draining", "closing", "exited"}
  /\ batch \in [Threads -> Seq(Record)]
  /\ accepted \subseteq Threads
  /\ late \subseteq Seq(Record)
  /\ timeouts \in 0 .. MaxTimeouts

Bounded == Len(buffer) <= BufferMax

\* Until the last drain only the flush thread sends.
Before == main \in {"up", "joining"}
Taken  == batch["flusher"]
Here   == Range(Taken) \cup Range(buffer)

\* What the thread has taken is older than what is buffered.
ShipOrder ==
  /\ batch["main"] = <<>>
  /\ Increasing(buffer) /\ Increasing(Taken)
  /\ Older(Range(Taken), Range(buffer))
  /\ Here \subseteq 1 .. emitted /\ Sent \subseteq 1 .. emitted
  /\ \A b \in late : Range(b) \subseteq 1 .. emitted

\* Of the records that are here, those up to one that was stored were stored.
DownIn(K, S) == \A r \in K, s \in S : r <= s => r \in S

ServedDown ==
  DownIn(Here, Sent) /\ \A b \in late : DownIn(Here, Range(b))

\* What is neither here nor stored is older than what is buffered.  It may be
\* newer than a record the thread has taken, which cannot come back then.
Gone == 1 .. emitted \ (Here \cup Sent)

GoneOldest ==
  \A l \in Gone :
    /\ emitted - l >= BufferMax
    /\ \A r \in Range(buffer) : l < r
    /\ \A r \in Range(Taken) : r < l => Len(buffer) = BufferMax

AcceptedStored ==
  /\ \A t \in accepted : Sending(t)
  /\ "flusher" \in accepted => Range(Taken) \subseteq Sent

\* No request has timed out, so nothing that was stored may come again.
StoredOnce ==
  timeouts = MaxTimeouts =>
    /\ late = {} /\ Range(buffer) \cap Sent = {}
    /\ "flusher" \notin accepted => Range(Taken) \cap Sent = {}

Ordered ==
  ShipOrder /\ ServedDown /\ GoneOldest /\ AcceptedStored /\ StoredOnce

ShipInv == ShipperTypeOK /\ Bounded /\ (Before => Ordered)

-----------------------------------------------------------------------------
LEMMA ShipInitInv == Init => ShipInv
<1> SUFFICES ASSUME Init PROVE ShipInv
    OBVIOUS
<1>1. /\ <<>> \in Seq(Record) /\ Range(<<>>) = {} /\ Len(<<>>) = 0
      /\ Increasing(<<>>) /\ 0 \in 0 .. Records /\ 1 .. 0 = {}
      /\ MaxTimeouts \in 0 .. MaxTimeouts /\ 0 <= BufferMax
  BY Empty, Constants
<1>2. ShipperTypeOK /\ Bounded
  BY <1>1 DEF Init, ShipperTypeOK, Bounded
<1>3. /\ Taken = <<>> /\ batch["main"] = <<>> /\ Here = {} /\ Sent = {}
      /\ Gone = {} /\ late = {} /\ accepted = {} /\ buffer = <<>>
      /\ emitted = 0
  BY <1>1 DEF Init, Taken, Threads, Here, Sent, Gone
<1>4. Ordered
  BY <1>1, <1>3 DEF Ordered, ShipOrder, Older, ServedDown, DownIn, GoneOldest,
     AcceptedStored, StoredOnce
<1> QED
  BY <1>2, <1>4 DEF ShipInv

\* What a thread has taken, and what becomes of it when the drain ends.
LEMMA LeaveTypes ==
  ASSUME ShipperTypeOK, NEW t \in Threads, Leave(t)
  PROVE  /\ flusher' \in {"waiting", "draining", "ended"}
         /\ main' \in {"up", "joining", "draining", "closing", "exited"}
         /\ batch' \in [Threads -> Seq(Record)] /\ accepted' \subseteq Threads
<1>1. <<>> \in Seq(Record)
  BY Empty
<1> QED
  BY <1>1 DEF Leave, ShipperTypeOK

LEMMA UnservedIs ==
  ASSUME ShipperTypeOK, NEW S \in SUBSET Threads
  PROVE  /\ Unserved(S) \subseteq Seq(Record)
         /\ \A b \in Unserved(S) :
              \E t \in S : b = batch[t] /\ Sending(t) /\ t \notin accepted
BY DEF Unserved, ShipperTypeOK

\* No step leaves the types or overfills the buffer.
LEMMA ShipTypes ==
  ASSUME ShipperTypeOK, Bounded, [Next]_vars
  PROVE  ShipperTypeOK' /\ Bounded'
<1> USE DEF ShipperTypeOK, Bounded
<1>1. CASE Emit
  <2>1. emitted' \in Record /\ emitted' \in 0 .. Records
    BY <1>1, Constants DEF Emit, Record
  <2>2. PICK kept \in Seq(Record) :
          /\ buffer' = kept \o <<emitted'>> /\ Len(kept) + 1 <= BufferMax
    BY <1>1, <2>1, PushedIs DEF Emit
  <2>3. buffer' \in Seq(Record) /\ Len(buffer') <= BufferMax
    BY <2>1, <2>2, Single, ConcatIs
  <2> QED BY <1>1, <2>1, <2>3 DEF Emit
<1>2. ASSUME NEW t \in Threads, Take(t) PROVE ShipperTypeOK' /\ Bounded'
  <2>1. PICK n \in 0 .. Len(buffer) :
          /\ batch' = [batch EXCEPT ![t] = SubSeq(buffer, 1, n)]
          /\ buffer' = SubSeq(buffer, n + 1, Len(buffer))
    <3>1. Len(buffer) \in Nat /\ BatchSize \in Nat
      BY Constants, LenProperties
    <3> DEFINE n == IF BatchSize < Len(buffer) THEN BatchSize ELSE Len(buffer)
    <3>2. n \in 0 .. Len(buffer)
      BY <3>1
    <3>3. /\ batch' = [batch EXCEPT ![t] = SubSeq(buffer, 1, n)]
          /\ buffer' = SubSeq(buffer, n + 1, Len(buffer))
      BY <1>2 DEF Take
    <3> HIDE DEF n
    <3> QED BY <3>2, <3>3
  <2>2. /\ SubSeq(buffer, 1, n) \in Seq(Record) /\ buffer' \in Seq(Record)
        /\ Len(buffer') = Len(buffer) - n /\ Len(buffer) \in Nat
    BY <2>1, Split, LenProperties
  <2>3. Len(buffer') <= BufferMax
    BY <2>2, Constants
  <2> QED BY <1>2, <2>1, <2>2, <2>3 DEF Take
<1>3. ASSUME NEW t \in Threads, Drained(t) PROVE ShipperTypeOK' /\ Bounded'
  BY <1>3, LeaveTypes DEF Drained
<1>4. ASSUME NEW t \in Threads, Store(t) PROVE ShipperTypeOK' /\ Bounded'
  <2>1. stored' \in Seq(Record) /\ accepted' \subseteq Threads
    BY <1>4, ConcatIs DEF Store
  <2> QED BY <1>4, <2>1 DEF Store
<1>5. ASSUME NEW t \in Threads, buffer' = PutBack(buffer, batch[t])
      PROVE  buffer' \in Seq(Record) /\ Len(buffer') <= BufferMax
  <2>1. PICK back \in Seq(Record) :
          buffer' = back \o buffer /\ Len(back) + Len(buffer) <= BufferMax
    BY <1>5, PutBackIs
  <2> QED BY <2>1, ConcatIs
<1>6. ASSUME NEW t \in Threads, Refused(t) PROVE ShipperTypeOK' /\ Bounded'
  BY <1>5, <1>6, LeaveTypes DEF Refused
<1>7. ASSUME NEW t \in Threads, TimesOut(t) PROVE ShipperTypeOK' /\ Bounded'
  <2>1. late' \subseteq Seq(Record)
    BY <1>7, UnservedIs DEF TimesOut
  <2>2. timeouts' \in 0 .. MaxTimeouts
    BY <1>7, Constants DEF TimesOut
  <2>3. buffer' \in Seq(Record) /\ Len(buffer') <= BufferMax
    BY <1>5, <1>7 DEF TimesOut
  <2> QED BY <1>7, <2>1, <2>2, <2>3, LeaveTypes DEF TimesOut
<1>8. ASSUME NEW t \in Threads, Answer(t) PROVE ShipperTypeOK' /\ Bounded'
  BY <1>8, Empty DEF Answer
<1>9. ASSUME NEW b \in late, Late(b) PROVE ShipperTypeOK' /\ Bounded'
  <2>1. stored' \in Seq(Record)
    BY <1>9, ConcatIs DEF Late
  <2> QED BY <1>9, <2>1 DEF Late
<1>10. CASE Exit
  <2>1. late' \subseteq Seq(Record)
    BY <1>10, UnservedIs DEF Exit
  <2> QED BY <1>10, <2>1, Empty DEF Exit
<1>11. CASE Wake \/ Stop \/ Joined
  BY <1>11 DEF Wake, Stop, Joined
<1>12. CASE UNCHANGED vars
  BY <1>12 DEF vars
<1> QED
  BY <1>1, <1>2, <1>3, <1>4, <1>6, <1>7, <1>8, <1>9, <1>10, <1>11, <1>12
  DEF Next, Step

-----------------------------------------------------------------------------
(* Until the last drain, one step after the other.                         *)

\* What follows from the invariant about the sets of records.
LEMMA ShipSets ==
  ASSUME ShipperTypeOK, Ordered
  PROVE  /\ Taken \in Seq(Record) /\ "flusher" \in Threads /\ "main" \in Threads
         /\ Kept = Here /\ Here \subseteq Nat /\ Sent \subseteq Nat
         /\ emitted \in Nat /\ Len(buffer) \in Nat /\ ~Sending("main")
         /\ Here \subseteq Record /\ Sent \subseteq Record
<1>1. Taken \in Seq(Record) /\ "flusher" \in Threads /\ "main" \in Threads
  BY DEF ShipperTypeOK, Taken, Threads
<1>2. batch["main"] = <<>> /\ Range(<<>>) = {}
  BY Empty DEF Ordered, ShipOrder
<1>3. Kept = Here
  BY <1>2 DEF Kept, Here, Taken
<1>4. Here \subseteq Record /\ Sent \subseteq Record /\ Len(buffer) \in Nat
  BY <1>1, RangeIs DEF Here, Sent, ShipperTypeOK
<1>5. emitted \in Nat /\ Here \subseteq Nat /\ Sent \subseteq Nat
  BY <1>4, Constants DEF ShipperTypeOK
<1> QED BY <1>1, <1>2, <1>3, <1>4, <1>5 DEF Sending

\* A record is logged: a full buffer loses its oldest.
LEMMA EmitOrdered ==
  ASSUME ShipperTypeOK, Bounded, Ordered, Emit
  PROVE  Ordered'
<1> DEFINE r == emitted + 1
<1>1. /\ r \in Record /\ r \in Nat /\ emitted \in Nat /\ emitted' = r
      /\ buffer' = Pushed(buffer, r)
      /\ UNCHANGED <<batch, accepted, late, stored, timeouts>>
  BY ShipSets, Constants DEF Emit, ShipperTypeOK, Record
<1> HIDE DEF r
<1>2. r = emitted + 1 BY DEF r
<1>3. PICK kept \in Seq(Record), lost \in Seq(Record) :
        /\ Range(buffer) = Range(lost) \cup Range(kept)
        /\ Increasing(buffer) => /\ Increasing(kept)
                                 /\ Older(Range(lost), Range(kept))
        /\ Pushed(buffer, r) = kept \o <<r>>
        /\ Len(kept) + 1 <= BufferMax /\ Len(buffer) <= Len(kept) + 1
        /\ lost # <<>> => Len(kept) + 1 = BufferMax
  BY <1>1, PushedIs DEF ShipperTypeOK, Bounded
<1>4. /\ Taken' = Taken /\ Sent' = Sent
      /\ Range(buffer') = Range(kept) \cup {r}
      /\ Len(buffer') = Len(kept) + 1 /\ buffer' \in Seq(Record)
      /\ Here' \subseteq Here \cup {r} /\ r \in Here'
  <2>1. Taken' = Taken /\ Sent' = Sent
    BY <1>1 DEF Taken, Sent
  <2>2. /\ <<r>> \in Seq(Record) /\ Len(<<r>>) = 1 /\ Range(<<r>>) = {r}
        /\ buffer' = kept \o <<r>>
    BY <1>1, <1>3, Single
  <2>3. /\ Range(buffer') = Range(kept) \cup {r}
        /\ Len(buffer') = Len(kept) + 1 /\ buffer' \in Seq(Record)
    <3> DEFINE last == <<r>>
    <3>1. last \in Seq(Record) /\ Len(last) = 1 /\ Range(last) = {r}
      BY <2>2
    <3>2. buffer' = kept \o last
      BY <2>2
    <3> HIDE DEF last
    <3>3. /\ Range(kept \o last) = Range(kept) \cup Range(last)
          /\ Len(kept \o last) = Len(kept) + Len(last)
          /\ kept \o last \in Seq(Record)
      BY <3>1, ConcatIs
    <3> QED BY <3>1, <3>2, <3>3, Zenon
  <2>4. Here' = Range(Taken) \cup Range(kept) \cup {r}
    BY <2>1, <2>3 DEF Here
  <2> QED BY <1>3, <2>1, <2>3, <2>4 DEF Here
<1>5. ShipOrder'
  <2>1. Older(Range(kept), {r})
    BY <1>1, <1>2, <1>3 DEF Older, Ordered, ShipOrder, Here
  <2>2. Increasing(buffer')
    BY <1>1, <1>3, <2>1, Single, ConcatIs DEF Ordered, ShipOrder
  <2>3. Older(Range(Taken), Range(buffer'))
    BY <1>1, <1>2, <1>3, <1>4 DEF Older, Ordered, ShipOrder, Here
  <2>4. 1 .. emitted \subseteq 1 .. emitted' /\ r \in 1 .. emitted'
    BY <1>1, <1>2
  <2> QED
    BY <1>1, <1>4, <2>2, <2>3, <2>4 DEF Ordered, ShipOrder
<1>6. ServedDown'
  <2>1. ASSUME NEW S, S \subseteq 1 .. emitted, DownIn(Here, S)
        PROVE  DownIn(Here', S)
    BY <1>1, <1>2, <1>4, <2>1 DEF DownIn
  <2> QED
    BY <1>1, <1>4, <2>1 DEF Ordered, ShipOrder, ServedDown
<1>7. GoneOldest'
  <2> SUFFICES ASSUME NEW l \in Gone'
               PROVE  /\ emitted' - l >= BufferMax
                      /\ \A q \in Range(buffer') : l < q
                      /\ \A q \in Range(Taken) : q < l => Len(buffer') = BufferMax
    BY <1>4 DEF GoneOldest
  <2>1. l \in 1 .. emitted /\ l \in Nat /\ l \notin Sent
    BY <1>1, <1>2, <1>4 DEF Gone
  <2>2. BufferMax \in Nat /\ Len(buffer) \in Nat /\ Len(kept) \in Nat
    BY Constants, LenProperties DEF ShipperTypeOK
  <2>3. CASE l \in Gone
    <3>1. /\ emitted - l >= BufferMax /\ \A q \in Range(buffer) : l < q
          /\ \A q \in Range(Taken) : q < l => Len(buffer) = BufferMax
      BY <2>3 DEF Ordered, GoneOldest
    <3>2. emitted' - l >= BufferMax
      BY <1>1, <1>2, <2>1, <2>2, <3>1
    <3>3. \A q \in Range(buffer') : l < q
      BY <1>1, <1>2, <1>3, <1>4, <2>1, <3>1
    <3>4. Len(buffer) = BufferMax => Len(buffer') = BufferMax
      BY <1>3, <1>4, <2>2
    <3> QED BY <3>1, <3>2, <3>3, <3>4
  <2>4. CASE l \notin Gone
    <3>1. l \in Range(lost)
      BY <1>3, <1>4, <2>1, <2>4 DEF Gone, Here
    <3>2. Len(buffer') = BufferMax
      <4>1. lost # <<>>
        BY <3>1, Empty
      <4> QED BY <1>3, <1>4, <4>1
    <3>3. \A q \in Range(buffer') : l < q
      BY <1>1, <1>2, <1>3, <1>4, <2>1, <3>1 DEF Older, Ordered, ShipOrder
    <3>4. emitted' \in Nat /\ l <= emitted' /\ \A q \in Range(buffer') : q <= emitted'
      BY <1>1, <1>2, <1>4, <1>5, <2>1 DEF ShipOrder, Here
    <3>5. emitted' - l >= BufferMax
      BY <1>4, <1>5, <2>1, <3>2, <3>3, <3>4, CountAbove DEF ShipOrder
    <3> QED BY <3>2, <3>3, <3>5
  <2> QED BY <2>3, <2>4
<1>8. AcceptedStored'
  BY <1>1, <1>4 DEF Ordered, AcceptedStored, Sending
<1>9. StoredOnce'
  <2>1. r \notin Sent
    BY <1>1, <1>2 DEF Ordered, ShipOrder
  <2> QED BY <1>1, <1>3, <1>4, <2>1 DEF Ordered, StoredOnce
<1> QED
  BY <1>5, <1>6, <1>7, <1>8, <1>9 DEF Ordered

\* The thread takes the oldest records.
LEMMA TakeOrdered ==
  ASSUME ShipperTypeOK, Bounded, Ordered, Take("flusher")
  PROVE  Ordered'
<1>1. /\ Taken = <<>> /\ "flusher" \notin accepted
      /\ UNCHANGED <<emitted, accepted, late, stored, timeouts>>
  BY DEF Take, Sending, Taken, Ordered, AcceptedStored
<1>2. PICK n \in 0 .. Len(buffer) :
        /\ batch' = [batch EXCEPT !["flusher"] = SubSeq(buffer, 1, n)]
        /\ buffer' = SubSeq(buffer, n + 1, Len(buffer))
  <2>1. Len(buffer) \in Nat /\ BatchSize \in Nat
    BY Constants, LenProperties DEF ShipperTypeOK
  <2> DEFINE n == IF BatchSize < Len(buffer) THEN BatchSize ELSE Len(buffer)
  <2>2. n \in 0 .. Len(buffer)
    BY <2>1
  <2>3. /\ batch' = [batch EXCEPT !["flusher"] = SubSeq(buffer, 1, n)]
        /\ buffer' = SubSeq(buffer, n + 1, Len(buffer))
    BY DEF Take
  <2> HIDE DEF n
  <2> QED BY <2>2, <2>3
<1>3. /\ Taken' = SubSeq(buffer, 1, n) /\ batch'["main"] = batch["main"]
  BY <1>2 DEF Taken, ShipperTypeOK, Threads
<1>4. /\ Range(buffer) = Range(Taken') \cup Range(buffer')
      /\ Increasing(Taken') /\ Increasing(buffer')
      /\ Older(Range(Taken'), Range(buffer'))
  BY <1>2, <1>3, Split DEF ShipperTypeOK, Ordered, ShipOrder
<1>5. Here' = Here /\ Sent' = Sent /\ Here = Range(buffer)
  BY <1>1, <1>4, Empty DEF Here, Sent
<1>6. ShipOrder'
  BY <1>1, <1>3, <1>4, <1>5 DEF Ordered, ShipOrder
<1>7. ServedDown'
  BY <1>1, <1>5 DEF Ordered, ServedDown
<1>8. GoneOldest'
  <2> SUFFICES ASSUME NEW l \in Gone
               PROVE  /\ emitted - l >= BufferMax
                      /\ \A q \in Range(buffer') : l < q
                      /\ \A q \in Range(Taken') : ~(q < l)
    BY <1>1, <1>5 DEF GoneOldest, Gone
  <2>1. emitted - l >= BufferMax /\ \A q \in Range(buffer) : l < q
    BY DEF Ordered, GoneOldest
  <2>2. \A q \in Range(buffer) : q \in Nat /\ l \in Nat
    BY <1>5, ShipSets DEF Gone
  <2>3. \A q \in Range(buffer) : ~(q < l)
    BY <2>1, <2>2
  <2> QED BY <1>4, <2>1, <2>3
<1>9. AcceptedStored'
  <2>1. \A t \in accepted : t # "flusher" /\ t \in Threads
    BY <1>1 DEF ShipperTypeOK
  <2>2. accepted = {}
    BY <2>1, ShipSets DEF Ordered, AcceptedStored, Threads
  <2> QED BY <1>1, <2>2 DEF AcceptedStored
<1>10. StoredOnce'
  BY <1>1, <1>4, <1>5 DEF Ordered, StoredOnce
<1> QED
  BY <1>6, <1>7, <1>8, <1>9, <1>10 DEF Ordered

\* The API stores the batch: what it stores now lies above what it has.
LEMMA StoreOrdered ==
  ASSUME ShipperTypeOK, Bounded, Ordered, Store("flusher")
  PROVE  Ordered'
<1>1. /\ Taken' = Taken /\ Here' = Here /\ "flusher" \notin accepted
      /\ accepted' = accepted \cup {"flusher"} /\ Sending("flusher")
      /\ UNCHANGED <<emitted, buffer, batch, late, timeouts>>
  BY DEF Store, Taken, Here
<1>2. Sent' = Sent \cup Range(Taken)
  BY ShipSets, ConcatIs DEF Store, Sent, Taken, ShipperTypeOK
<1>3. ShipOrder'
  BY <1>1, <1>2 DEF Ordered, ShipOrder, Here
<1>4. ServedDown'
  <2>1. DownIn(Here, Range(Taken))
    BY ShipSets DEF DownIn, Ordered, ShipOrder, Older, Here
  <2> QED BY <1>1, <1>2, <2>1 DEF Ordered, ServedDown, DownIn
<1>5. Gone' = Gone
  BY <1>1, <1>2 DEF Gone, Here
<1>6. GoneOldest'
  BY <1>1, <1>5 DEF Ordered, GoneOldest
<1>7. AcceptedStored'
  BY <1>1, <1>2 DEF Ordered, AcceptedStored, Sending
<1>8. StoredOnce'
  <2>1. Range(buffer) \cap Range(Taken) = {}
    BY ShipSets DEF Ordered, ShipOrder, Older, Here
  <2> QED BY <1>1, <1>2, <2>1 DEF Ordered, StoredOnce
<1> QED
  BY <1>3, <1>4, <1>6, <1>7, <1>8 DEF Ordered

\* The answer arrives: what the thread lets go of is stored.
LEMMA AnswerOrdered ==
  ASSUME ShipperTypeOK, Bounded, Ordered, Answer("flusher")
  PROVE  Ordered'
<1>1. /\ Taken' = <<>> /\ batch'["main"] = batch["main"]
      /\ "flusher" \in accepted /\ accepted' = accepted \ {"flusher"}
      /\ UNCHANGED <<emitted, buffer, late, stored, timeouts>>
  BY DEF Answer, Taken, ShipperTypeOK, Threads
<1>2. Sent' = Sent /\ Range(Taken') = {} /\ Range(Taken) \subseteq Sent
      /\ Here' = Range(buffer) /\ Here' \subseteq Here
  BY <1>1, Empty DEF Sent, Here, Ordered, AcceptedStored
<1>3. Gone' = Gone
  BY <1>1, <1>2 DEF Gone, Here
<1>4. ShipOrder'
  BY <1>1, <1>2, Empty DEF Ordered, ShipOrder, Older
<1>5. ServedDown'
  BY <1>1, <1>2 DEF Ordered, ServedDown, DownIn
<1>6. GoneOldest'
  BY <1>1, <1>2, <1>3 DEF Ordered, GoneOldest
<1>7. accepted = {"flusher"}
  BY <1>1, ShipSets DEF Ordered, AcceptedStored, ShipperTypeOK, Threads
<1>8. AcceptedStored' /\ StoredOnce'
  BY <1>1, <1>2, <1>7 DEF Ordered, AcceptedStored, StoredOnce
<1> QED
  BY <1>4, <1>5, <1>6, <1>8 DEF Ordered

\* A request is refused or times out: the newest of the batch go back as far
\* as there is room, so what is left out is older than all that is buffered.
LEMMA BackOrdered ==
  ASSUME ShipperTypeOK, Bounded, Ordered, Sending("flusher"),
         buffer' = PutBack(buffer, Taken), Leave("flusher"),
         UNCHANGED <<emitted, stored>>
  PROVE  /\ batch'["main"] = <<>> /\ Taken' = <<>> /\ Sent' = Sent
         /\ accepted' = {} /\ Here' \subseteq Here
         /\ Increasing(buffer') /\ GoneOldest'
         /\ Range(buffer') = Here'
<1>1. /\ Taken' = <<>> /\ batch'["main"] = <<>> /\ Sent' = Sent
      /\ Range(<<>>) = {} /\ accepted' = accepted \ {"flusher"}
  BY Empty DEF Leave, Taken, Sent, ShipperTypeOK, Threads, Ordered, ShipOrder
<1>2. accepted' = {}
  BY <1>1, ShipSets DEF Ordered, AcceptedStored, ShipperTypeOK, Threads
<1>3. PICK back \in Seq(Record), left \in Seq(Record) :
        /\ Range(Taken) = Range(left) \cup Range(back)
        /\ Increasing(Taken) => /\ Increasing(back)
                                /\ Older(Range(left), Range(back))
        /\ PutBack(buffer, Taken) = back \o buffer
        /\ Len(back) + Len(buffer) <= BufferMax
        /\ left # <<>> => Len(back) + Len(buffer) = BufferMax
        /\ Len(buffer) = BufferMax => back = <<>>
  BY ShipSets, PutBackIs DEF ShipperTypeOK, Bounded
<1>4. /\ Range(buffer') = Range(back) \cup Range(buffer)
      /\ Len(buffer') = Len(back) + Len(buffer) /\ buffer' \in Seq(Record)
      /\ Increasing(buffer')
  <2>1. /\ Increasing(back) /\ Increasing(buffer)
        /\ Older(Range(back), Range(buffer))
    BY <1>3 DEF Ordered, ShipOrder, Older
  <2> QED BY <1>3, <2>1, ConcatIs DEF ShipperTypeOK
<1>5. Here' = Range(buffer') /\ Here' \subseteq Here
  BY <1>1, <1>3, <1>4 DEF Here
<1>6. GoneOldest'
  <2> SUFFICES ASSUME NEW l \in Gone'
               PROVE  /\ emitted - l >= BufferMax
                      /\ \A q \in Range(buffer') : l < q
    BY <1>1 DEF GoneOldest
  <2>1. l \in 1 .. emitted /\ l \in Nat /\ l \notin Sent /\ l \notin Range(buffer')
    BY <1>1, <1>5 DEF Gone
  <2>2. CASE l \in Gone
    <3>1. /\ emitted - l >= BufferMax /\ \A q \in Range(buffer) : l < q
          /\ \A q \in Range(Taken) : q < l => Len(buffer) = BufferMax
          /\ l \notin Range(Taken)
      BY <2>2 DEF Ordered, GoneOldest, Gone, Here
    <3>2. ASSUME NEW q \in Range(back) PROVE l < q
      <4>1. back # <<>>
        BY Empty
      <4>2. ~(q < l)
        BY <1>3, <3>1, <4>1
      <4>3. q \in Nat /\ q # l
        BY <1>3, <3>1, ShipSets DEF Here
      <4> QED BY <2>1, <4>2, <4>3
    <3> QED BY <1>4, <3>1, <3>2
  <2>3. CASE l \notin Gone
    <3>1. l \in Range(left)
      BY <1>3, <1>4, <2>1, <2>3 DEF Gone, Here
    <3>2. Len(buffer') = BufferMax
      <4>1. left # <<>>
        BY <3>1, Empty
      <4> QED BY <1>3, <1>4, <4>1
    <3>3. \A q \in Range(buffer') : l < q
      BY <1>3, <1>4, <3>1 DEF Older, Ordered, ShipOrder
    <3>4. emitted \in Nat /\ l <= emitted /\ \A q \in Range(buffer') : q <= emitted
      BY <1>5, <2>1, ShipSets DEF Ordered, ShipOrder
    <3>5. emitted - l >= BufferMax
      BY <1>4, <2>1, <3>2, <3>3, <3>4, CountAbove
    <3> QED BY <3>3, <3>5
  <2> QED BY <2>2, <2>3
<1> QED
  BY <1>1, <1>2, <1>4, <1>5, <1>6

LEMMA RefusedOrdered ==
  ASSUME ShipperTypeOK, Bounded, Ordered, Refused("flusher")
  PROVE  Ordered'
<1>1. /\ Sending("flusher") /\ "flusher" \notin accepted
      /\ buffer' = PutBack(buffer, Taken) /\ Leave("flusher")
      /\ UNCHANGED <<emitted, late, stored, timeouts>>
  BY DEF Refused, Taken
<1>2. /\ batch'["main"] = <<>> /\ Taken' = <<>> /\ Sent' = Sent
      /\ accepted' = {} /\ Here' \subseteq Here
      /\ Increasing(buffer') /\ GoneOldest'
      /\ Range(buffer') = Here' /\ Range(<<>>) = {} /\ Increasing(<<>>)
  BY <1>1, BackOrdered, Empty
<1>3. ShipOrder'
  BY <1>1, <1>2 DEF Ordered, ShipOrder, Older
<1>4. ServedDown'
  BY <1>1, <1>2 DEF Ordered, ServedDown, DownIn
<1>5. AcceptedStored'
  BY <1>2 DEF AcceptedStored
<1>6. StoredOnce'
  BY <1>1, <1>2 DEF Ordered, StoredOnce, Here
<1> QED
  BY <1>2, <1>3, <1>4, <1>5, <1>6 DEF Ordered

LEMMA TimesOutOrdered ==
  ASSUME ShipperTypeOK, Bounded, Ordered, TimesOut("flusher")
  PROVE  Ordered'
<1>1. /\ Sending("flusher") /\ timeouts' # MaxTimeouts
      /\ buffer' = PutBack(buffer, Taken) /\ Leave("flusher")
      /\ late' = late \cup Unserved({"flusher"})
      /\ UNCHANGED <<emitted, stored>>
  <2>1. timeouts - 1 # MaxTimeouts /\ timeouts' = timeouts - 1
    BY Constants DEF TimesOut, ShipperTypeOK
  <2> QED BY <2>1 DEF TimesOut, Taken
<1>2. /\ batch'["main"] = <<>> /\ Taken' = <<>> /\ Sent' = Sent
      /\ accepted' = {} /\ Here' \subseteq Here
      /\ Increasing(buffer') /\ GoneOldest'
      /\ Range(buffer') = Here' /\ Range(<<>>) = {} /\ Increasing(<<>>)
  BY <1>1, BackOrdered, Empty
<1>3. \A b \in late' : b \in late \/ b = Taken
  BY <1>1, ShipSets, UnservedIs DEF Taken
<1>4. ShipOrder'
  <2>1. \A b \in late' : Range(b) \subseteq 1 .. emitted'
    BY <1>1, <1>3 DEF Ordered, ShipOrder, Here
  <2> QED BY <1>1, <1>2, <2>1 DEF Ordered, ShipOrder, Older
<1>5. ServedDown'
  <2>1. DownIn(Here, Range(Taken))
    BY ShipSets DEF DownIn, Ordered, ShipOrder, Older, Here
  <2>2. \A b \in late' : DownIn(Here', Range(b))
    BY <1>2, <1>3, <2>1 DEF Ordered, ServedDown, DownIn
  <2> QED BY <1>2, <2>2 DEF Ordered, ServedDown, DownIn
<1>6. AcceptedStored' /\ StoredOnce'
  BY <1>1, <1>2 DEF AcceptedStored, StoredOnce
<1> QED
  BY <1>2, <1>4, <1>5, <1>6 DEF Ordered

\* A request that was given up is served.
LEMMA LateOrdered ==
  ASSUME ShipperTypeOK, Bounded, Ordered, NEW b \in late, Late(b)
  PROVE  Ordered'
<1>1. /\ Taken' = Taken /\ Here' = Here /\ late' \subseteq late
      /\ UNCHANGED <<emitted, buffer, batch, accepted, timeouts>>
  BY DEF Late, Taken, Here
<1>2. Sent' = Sent \/ Sent' = Sent \cup Range(b)
  <2>1. b \in Seq(Record) /\ stored \in Seq(Record)
    BY DEF ShipperTypeOK
  <2> QED BY <2>1, ConcatIs DEF Late, Sent
<1>3. ShipOrder'
  BY <1>1, <1>2 DEF Ordered, ShipOrder
<1>4. ServedDown'
  <2>1. DownIn(Here, Sent')
    BY <1>2 DEF Ordered, ServedDown, DownIn
  <2> QED BY <1>1, <2>1 DEF Ordered, ServedDown
<1>5. Gone' \subseteq Gone
  BY <1>1, <1>2 DEF Gone
<1>6. GoneOldest'
  BY <1>1, <1>5 DEF Ordered, GoneOldest
<1>7. AcceptedStored'
  BY <1>1, <1>2 DEF Ordered, AcceptedStored, Sending
<1>8. StoredOnce'
  BY <1>1 DEF Ordered, StoredOnce
<1> QED
  BY <1>3, <1>4, <1>6, <1>7, <1>8 DEF Ordered

\* What says nothing of the records keeps their order.
LEMMA SameOrdered ==
  ASSUME Ordered, UNCHANGED <<emitted, buffer, batch, accepted, late, stored, timeouts>>
  PROVE  Ordered'
<1>1. Taken' = Taken /\ Here' = Here /\ Sent' = Sent /\ Gone' = Gone
  BY DEF Taken, Here, Sent, Gone
<1> QED
  BY <1>1 DEF Ordered, ShipOrder, ServedDown, GoneOldest, AcceptedStored,
     StoredOnce, Sending

-----------------------------------------------------------------------------
\* Until the last drain only the flush thread takes a step of a thread.
LEMMA OnlyFlusher ==
  ASSUME ShipperTypeOK, Before, Ordered, NEW t \in Threads, Step(t)
  PROVE  t = "flusher"
<1> SUFFICES ASSUME t = "main" PROVE FALSE
  BY DEF Threads
<1>1. ~Draining("main") /\ ~Sending("main")
  BY ShipSets DEF Before, Draining
<1> QED
  BY <1>1 DEF Step, Take, Drained, Store, Refused, TimesOut, Answer

LEMMA ShipStep ==
  ASSUME ShipInv, [Next]_vars
  PROVE  ShipInv'
<1>1. ShipperTypeOK /\ Bounded /\ ShipperTypeOK' /\ Bounded'
  BY ShipTypes DEF ShipInv
<1> SUFFICES ASSUME Before' PROVE Ordered'
  BY <1>1 DEF ShipInv
<1>2. Before /\ Ordered
  <2>1. Before
    BY <1>1 DEF Before, Next, Step, Emit, Wake, Stop, Joined, Exit, Take,
       Drained, Store, Refused, TimesOut, Answer, Late, Leave, vars,
       ShipperTypeOK
  <2> QED BY <2>1 DEF ShipInv
<1>3. CASE Emit
  BY <1>1, <1>2, <1>3, EmitOrdered
<1>4. ASSUME NEW t \in Threads, Step(t) PROVE Ordered'
  <2>1. t = "flusher"
    BY <1>1, <1>2, <1>4, OnlyFlusher
  <2>2. CASE Drained("flusher")
    <3>1. batch["flusher"] = <<>> /\ batch \in [Threads -> Seq(Record)]
      BY <1>1, <2>2 DEF Drained, Sending, ShipperTypeOK
    <3>2. "flusher" \notin accepted
      BY <1>2, <3>1 DEF Ordered, AcceptedStored, Sending
    <3>3. batch' = batch /\ accepted' = accepted
      BY <2>2, <3>1, <3>2 DEF Drained, Leave
    <3> QED BY <1>2, <2>2, <3>3, SameOrdered DEF Drained
  <2> QED
    BY <1>1, <1>2, <1>4, <2>1, <2>2, TakeOrdered, StoreOrdered,
       RefusedOrdered, TimesOutOrdered, AnswerOrdered DEF Step
<1>5. ASSUME NEW b \in late, Late(b) PROVE Ordered'
  BY <1>1, <1>2, <1>5, LateOrdered
<1>6. CASE Wake \/ Stop \/ Joined \/ UNCHANGED vars
  BY <1>2, <1>6, SameOrdered DEF Wake, Stop, Joined, vars
<1>7. CASE Exit
  BY <1>2, <1>7 DEF Exit, Before
<1> QED
  BY <1>3, <1>4, <1>5, <1>6, <1>7 DEF Next

LEMMA ShipSafe == ShipInv => OldestAreLost
<1> SUFFICES ASSUME ShipInv, Before, NEW l \in Lost
             PROVE  /\ emitted - l >= BufferMax
                    /\ \A i \in DOMAIN buffer : l < buffer[i]
  BY DEF ShipInv, Bounded, OldestAreLost, Before
<1>1. ShipperTypeOK /\ Ordered
  BY DEF ShipInv
<1>2. l \in Gone
  BY <1>1, ShipSets DEF Lost, Gone
<1>3. \A i \in DOMAIN buffer : buffer[i] \in Range(buffer)
  BY <1>1, LenProperties, RangeIs DEF ShipperTypeOK
<1> QED
  BY <1>1, <1>2, <1>3 DEF Ordered, GoneOldest

LEMMA ShipStores ==
  ASSUME ShipInv, [Next]_vars,
         NEW t \in accepted' \ accepted, main \in {"up", "joining"}
  PROVE  LET again == Range(batch[t]) \cap Sent
         IN  /\ \A r \in Range(batch[t]) \ again : \A s \in Sent : s < r
             /\ again # {} => timeouts < MaxTimeouts
<1>1. ShipperTypeOK /\ Ordered /\ Before
  BY DEF ShipInv, Before
<1>2. PICK u \in Threads : Store(u) /\ t = u
  BY DEF Next, Step, Emit, Wake, Stop, Joined, Exit, Take, Drained, Store,
     Refused, TimesOut, Answer, Late, Leave, vars
<1>3. t = "flusher" /\ batch[t] = Taken
  BY <1>1, <1>2, OnlyFlusher DEF Step, Taken
<1>4. ASSUME NEW r \in Range(Taken), r \notin Sent, NEW s \in Sent PROVE s < r
  <2>1. r \in Here /\ ~(r <= s)
    BY <1>1, <1>4 DEF Here, Ordered, ServedDown, DownIn
  <2>2. r \in Nat /\ s \in Nat
    BY <1>1, <2>1, ShipSets
  <2> QED BY <2>1, <2>2
<1>5. Range(Taken) \cap Sent # {} => timeouts < MaxTimeouts
  <2>1. Range(Taken) \cap Sent # {} => timeouts # MaxTimeouts
    BY <1>1, <1>3 DEF Ordered, StoredOnce
  <2> QED BY <1>1, <2>1, Constants DEF ShipperTypeOK
<1> QED
  BY <1>3, <1>4, <1>5

-----------------------------------------------------------------------------
LEMMA ShipAlways == Spec => []ShipInv
<1>1. Init => ShipInv
  BY ShipInitInv
<1>2. ShipInv /\ [Next]_vars => ShipInv'
  BY ShipStep
<1> QED
  BY <1>1, <1>2, PTL DEF Spec

\* Until the last drain a record is lost only by overflow of the buffer, and
\* the oldest first, however batches are refused and put back (emit,
\* _take_batch, _requeue).
THEOREM OldestLost == Spec => []OldestAreLost
<1>1. ShipInv => OldestAreLost
  BY ShipSafe
<1> QED
  BY <1>1, ShipAlways, PTL

\* Until the last drain the API stores records in the order in which they
\* were logged, and stores one again only after a timeout.
THEOREM StoredInOrder == Spec => StoresInOrder
<1>1. ShipInv /\ [Next]_vars =>
        [\A t \in accepted' \ accepted :
           LET again == Range(batch[t]) \cap Sent
           IN  main \in {"up", "joining"} =>
                 /\ \A r \in Range(batch[t]) \ again : \A s \in Sent : s < r
                 /\ again # {} => timeouts < MaxTimeouts]_vars
  BY ShipStores
<1> QED
  BY <1>1, ShipAlways, PTL DEF Spec, StoresInOrder
=============================================================================
