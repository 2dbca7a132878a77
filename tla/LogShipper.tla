----------------------------- MODULE LogShipper -----------------------------
(***************************************************************************)
(* The worker's log shipper (log_shipper.py): log records go into a        *)
(* bounded buffer, a flush thread sends them to the API in batches and     *)
(* puts back what was not accepted; stop() drains the buffer once more     *)
(* from the main thread, also when the flush thread has not ended.         *)
(* Records are numbered in the order in which they are logged.             *)
(***************************************************************************)
EXTENDS Naturals, Sequences, Functions

CONSTANTS
  Records,     \* bound: the number of records that are logged
  BufferMax,   \* log_buffer_max
  BatchSize,   \* log_batch_size
  Oversize,    \* the records whose message is longer than the API accepts
  MaxTimeouts  \* bound: requests whose answer does not come in time

ASSUME ShipperAssumption ==
  /\ Records \in Nat /\ MaxTimeouts \in Nat /\ Oversize \subseteq 1 .. Records
  /\ BufferMax \in Nat \ {0} /\ BatchSize \in Nat \ {0}

VARIABLES
  emitted,   \* how many records have been logged
  buffer,    \* _buffer, the oldest record first
  flusher,   \* what the flush thread does
  main,      \* what the main thread does about the shipper
  batch,     \* per thread: the records it has taken and is sending
  accepted,  \* threads whose request the API has stored, answer under way
  late,      \* requests given up by their sender that still reach the API
  stored,    \* table host_log, in the order of the inserts
  timeouts   \* requests that may still time out

vars == <<emitted, buffer, flusher, main, batch, accepted, late, stored,
          timeouts>>

Record  == 1 .. Records
Threads == {"flusher", "main"}

Init ==
  /\ emitted = 0 /\ buffer = <<>> /\ stored = <<>> /\ late = {}
  /\ flusher = "waiting" /\ main = "up"
  /\ batch = [t \in Threads |-> <<>>] /\ accepted = {}
  /\ timeouts = MaxTimeouts
-----------------------------------------------------------------------------
Draining(t) == IF t = "main" THEN main = "draining" ELSE flusher = "draining"
Sending(t)  == batch[t] # <<>>

\* Mutant: a full buffer drops the record that comes, not the oldest.
PushedNewest(b, r) == IF Len(b) >= BufferMax THEN b ELSE Append(b, r)

\* emit drops the oldest record of a full buffer.
Pushed(b, r) ==
  Append(IF Len(b) >= BufferMax THEN Tail(b) ELSE b, r)

\* Mutant: what was not accepted goes to the end.
PutBackLast(b, taken) ==
  b \o SubSeq(taken, 1, IF Len(taken) <= BufferMax - Len(b) THEN Len(taken)
                        ELSE BufferMax - Len(b))

\* The batch goes back to the front, its newest record first, until the
\* buffer is full.
PutBack(b, taken) ==
  LET room == BufferMax - Len(b)
  IN  SubSeq(taken, IF Len(taken) > room THEN Len(taken) - room + 1 ELSE 1,
             Len(taken)) \o b

\* A record is logged while the handler is attached.
Emit ==
  /\ main \in {"up", "joining"} /\ emitted < Records
  /\ emitted' = emitted + 1
  /\ buffer' = Pushed(buffer, emitted')
  /\ UNCHANGED <<flusher, main, batch, accepted, late, stored, timeouts>>

\* The flush interval is over, or stop() has set the event.
Wake ==
  /\ flusher = "waiting"
  /\ flusher' = IF main = "up" THEN "draining" ELSE "ended"
  /\ UNCHANGED <<emitted, buffer, main, batch, accepted, late, stored,
                 timeouts>>

\* _take_batch, and the request leaves.
Take(t) ==
  /\ Draining(t) /\ ~Sending(t) /\ buffer # <<>>
  /\ LET n == IF BatchSize < Len(buffer) THEN BatchSize ELSE Len(buffer)
     IN  /\ batch' = [batch EXCEPT ![t] = SubSeq(buffer, 1, n)]
         /\ buffer' = SubSeq(buffer, n + 1, Len(buffer))
  /\ UNCHANGED <<emitted, flusher, main, accepted, late, stored, timeouts>>

\* The end of _drain_once: the flush thread waits again, the main thread goes
\* on to mark the host off.
Leave(t) ==
  /\ IF t = "flusher" THEN flusher' = "waiting" /\ UNCHANGED main
     ELSE main' = "closing" /\ UNCHANGED flusher
  /\ batch' = [batch EXCEPT ![t] = <<>>]
  /\ accepted' = accepted \ {t}

\* The requests of some threads that the API has not served yet.
Unserved(S) == {batch[t] : t \in {u \in S : Sending(u) /\ u \notin accepted}}

\* The buffer is empty: the drain is over.
Drained(t) ==
  /\ Draining(t) /\ ~Sending(t) /\ buffer = <<>>
  /\ Leave(t)
  /\ UNCHANGED <<emitted, buffer, late, stored, timeouts>>

Valid(b) == Range(b) \cap Oversize = {}

\* ingestLogs inserts all records of a request ...
Store(t) ==
  /\ Sending(t) /\ t \notin accepted /\ Valid(batch[t])
  /\ stored' = stored \o batch[t]
  /\ accepted' = accepted \cup {t}
  /\ UNCHANGED <<emitted, buffer, flusher, main, batch, late, timeouts>>

\* Mutant: the error escapes and ends the thread.
RefusedFatal(t) ==
  /\ Sending(t) /\ t \notin accepted
  /\ buffer' = PutBack(buffer, batch[t])
  /\ IF t = "flusher" THEN flusher' = "ended" /\ UNCHANGED main
     ELSE main' = "closing" /\ UNCHANGED flusher
  /\ batch' = [batch EXCEPT ![t] = <<>>]
  /\ UNCHANGED <<emitted, accepted, late, stored, timeouts>>

\* ... or refuses all of them, or cannot be reached, and stores none ...
Refused(t) ==
  /\ Sending(t) /\ t \notin accepted
  /\ buffer' = PutBack(buffer, batch[t])
  /\ Leave(t)
  /\ UNCHANGED <<emitted, late, stored, timeouts>>

\* ... or does not answer in time: the request may be served, now or later.
TimesOut(t) ==
  /\ timeouts > 0 /\ timeouts' = timeouts - 1
  /\ Sending(t)
  /\ buffer' = PutBack(buffer, batch[t])
  /\ Leave(t)
  /\ late' = late \cup Unserved({t})
  /\ UNCHANGED <<emitted, stored>>

\* The answer arrives and the drain goes on with the next batch.
Answer(t) ==
  /\ Sending(t) /\ t \in accepted
  /\ batch' = [batch EXCEPT ![t] = <<>>]
  /\ accepted' = accepted \ {t}
  /\ UNCHANGED <<emitted, buffer, flusher, main, late, stored, timeouts>>

\* A request that was given up is served, or never.
Late(b) ==
  /\ b \in late /\ late' = late \ {b}
  /\ \/ Valid(b) /\ stored' = stored \o b
     \/ UNCHANGED stored
  /\ UNCHANGED <<emitted, buffer, flusher, main, batch, accepted, timeouts>>

\* stop(): the event is set ...
Stop ==
  /\ main = "up" /\ main' = "joining"
  /\ UNCHANGED <<emitted, buffer, flusher, batch, accepted, late, stored,
                 timeouts>>

\* ... the join ends with the thread, or after two seconds in which the
\* thread is still sending; the handler is detached, a last drain begins.
Joined ==
  /\ main = "joining" /\ (flusher = "ended" \/ Sending("flusher"))
  /\ main' = "draining"
  /\ UNCHANGED <<emitted, buffer, flusher, batch, accepted, late, stored,
                 timeouts>>

\* The process exits, and the flush thread, a daemon, dies with it; a request
\* it had sent may still be served.
Exit ==
  /\ main = "closing" /\ main' = "exited"
  /\ flusher' = "ended"
  /\ late' = late \cup Unserved(Threads)
  /\ batch' = [t \in Threads |-> <<>>] /\ accepted' = {}
  /\ UNCHANGED <<emitted, buffer, stored, timeouts>>

Step(t) ==
  Take(t) \/ Drained(t) \/ Store(t) \/ Refused(t) \/ TimesOut(t) \/ Answer(t)

Next ==
  \/ Emit \/ Wake \/ Stop \/ Joined \/ Exit
  \/ \E t \in Threads : Step(t)
  \/ \E b \in late : Late(b)

Spec == Init /\ [][Next]_vars
-----------------------------------------------------------------------------
Kept  == Range(buffer) \cup Range(batch["flusher"]) \cup Range(batch["main"])
Sent  == Range(stored)
InFlight == UNION {Range(b) : b \in late}
Lost  == 1 .. emitted \ (Kept \cup Sent \cup InFlight)

\* However records, overflows and batches put back interleave: until the last
\* drain a record is lost only by overflow, and the oldest first.  It is
\* older than all that is buffered ("the oldest entries are dropped"), and
\* at least as many were logged after it as the buffer holds, which is never
\* more than BufferMax.
OldestAreLost ==
  /\ Len(buffer) <= BufferMax
  /\ main \in {"up", "joining"} =>
       \A l \in Lost : /\ emitted - l >= BufferMax
                       /\ \A i \in DOMAIN buffer : l < buffer[i]

\* Until the last drain the API receives the records in order and once: what
\* a thread sends is newer than all that is stored, but for requests that
\* were given up, and records that were stored before come again only when a
\* request timed out (ingestLogs inserts whatever comes).
StoresInOrder ==
  [][\A t \in accepted' \ accepted :
       LET again == Range(batch[t]) \cap Sent
       IN  main \in {"up", "joining"} =>
             /\ \A r \in Range(batch[t]) \ again : \A s \in Sent : s < r
             /\ again # {} => timeouts < MaxTimeouts]_vars
-----------------------------------------------------------------------------
(* The threads run, a request is answered or times out, and the API is     *)
(* not down for ever.                                                      *)
Fairness ==
  /\ WF_vars(Wake) /\ WF_vars(Joined) /\ WF_vars(Exit)
  /\ \A t \in Threads :
       /\ WF_vars(Take(t) \/ Drained(t) \/ Answer(t) \/ Store(t) \/ Refused(t))
       /\ WF_vars(Answer(t))

ApiRecovers == \A t \in Threads : SF_vars(Store(t))

FairSpec == Spec /\ Fairness /\ ApiRecovers

\* A record is stored or displaced, unless the worker stops or it holds a record
\* that the API refuses: the batch of that one is put back for ever, once it
\* stands in front of the others.
RecordsShip ==
  \A r \in Record :
    r <= emitted ~> \/ r \in Sent \cup Lost
                    \/ main # "up"
                    \/ Kept \cap Oversize # {}
=============================================================================
