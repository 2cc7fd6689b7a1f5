--------------------------- MODULE ReporterProofs ---------------------------
(***************************************************************************)
(* Theorems about Reporter, for every set of keys and every size of its    *)
(* queue, batches, window and map: the safety properties, and that the     *)
(* upload implements the lossy channel of LossyUpload.  The inductive      *)
(* invariant IInv says where sendLoop's variables may be filled, that an   *)
(* event on its way to the Console left batch and queue for good, and what *)
(* the suppression map remembers.                                          *)
(***************************************************************************)
EXTENDS Reporter, TLAPS

Sorted(s) == \A i, j \in DOMAIN s : i < j => s[i] < s[j]

Stored == {i \in Ids : stored[i] > 0}

(* Which of sendLoop's variables may hold events, by where it is. *)
Stages ==
  /\ pc \in {"select", "stopped"} => inflight = <<>>
  /\ pc \in {"closing", "stopped"} => batch = <<>>
  /\ ~up => (pc = "stopped" /\ queue = <<>>)

(* The pipeline holds the live events in the order of their reports. *)
Recorded == \A i \in Ids : fate[i] = "none" <=> i \notin DOMAIN log

(* An event sent is neither in batch nor in queue; it is in one request at *)
(* most, or stored once.  An answer under way is to the events in flight.  *)
Outbound ==
  /\ UNION wire \subseteq DOMAIN log /\ Stored \subseteq DOMAIN log
  /\ \A b \in wire : b \cap Stored = {}
  /\ \A b, c \in wire : b = c \/ b \cap c = {}
  /\ \A i \in IdsIn(batch) \cup IdsIn(queue) : i \notin UNION wire /\ i \notin Stored
  /\ replied => (inflight # <<>> /\ IdsIn(inflight) \subseteq Stored)

(* The map remembers, in the process that reported it, when an event was   *)
(* let through, unless that was a window ago.                              *)
Stamps ==
  /\ \A i \in DOMAIN log : log[i].time \in 1..now /\ log[i].boot <= boot
  /\ \A k \in Keys : dedup[k] <= now
  /\ up => \A i \in DOMAIN log :
             (PassedDedup(i) /\ log[i].boot = boot)
             => \/ dedup[log[i].key] >= log[i].time
                \/ now - log[i].time >= DedupWindow

IInv ==
  /\ TypeOK /\ Stages /\ Recorded /\ Conservation /\ Outbound /\ Stamps
  /\ StoredAtMostOnce /\ AckedWasStored /\ DedupWindowRespected

-----------------------------------------------------------------------------
(* Sequences of events. *)
LEMMA IdsInEmpty == IdsIn(<<>>) = {}
BY DEF IdsIn

LEMMA IdsInAppend ==
  ASSUME NEW s \in Seq(Ids), NEW x \in Ids
  PROVE  IdsIn(Append(s, x)) = IdsIn(s) \cup {x}
<1> DEFINE t == Append(s, x)
<1>1. /\ t \in Seq(Ids) /\ Len(t) = Len(s) + 1 /\ Len(s) \in Nat
      /\ \A i \in 1..Len(s) : t[i] = s[i]
      /\ t[Len(s) + 1] = x
  OBVIOUS
<1>2. DOMAIN s = 1..Len(s) /\ DOMAIN t = 1..(Len(s) + 1)
  BY <1>1
<1> HIDE DEF t
<1>3. ASSUME NEW y \in IdsIn(t) PROVE y \in IdsIn(s) \cup {x}
  BY <1>1, <1>2, <1>3 DEF IdsIn
<1>4. ASSUME NEW y \in IdsIn(s) \cup {x} PROVE y \in IdsIn(t)
  BY <1>1, <1>2, <1>4 DEF IdsIn
<1> QED
  BY <1>3, <1>4 DEF t

LEMMA IdsInConcat ==
  ASSUME NEW s \in Seq(Ids), NEW t \in Seq(Ids)
  PROVE  IdsIn(s \o t) = IdsIn(s) \cup IdsIn(t)
<1>1. ASSUME NEW x \in IdsIn(s \o t) PROVE x \in IdsIn(s) \cup IdsIn(t)
  BY <1>1 DEF IdsIn
<1>2. ASSUME NEW x \in IdsIn(s) PROVE x \in IdsIn(s \o t)
  BY <1>2 DEF IdsIn
<1>3. ASSUME NEW x \in IdsIn(t) PROVE x \in IdsIn(s \o t)
  <2>1. PICK i \in 1..Len(t) : x = t[i]
    BY <1>3 DEF IdsIn
  <2>2. (s \o t)[Len(s) + i] = x /\ Len(s) + i \in DOMAIN (s \o t)
    BY <2>1
  <2> QED
    BY <2>2 DEF IdsIn
<1> QED
  BY <1>1, <1>2, <1>3

LEMMA HeadTail ==
  ASSUME NEW s \in Seq(Ids), s # <<>>
  PROVE  /\ Head(s) \in Ids /\ Tail(s) \in Seq(Ids) /\ Len(Tail(s)) = Len(s) - 1
         /\ IdsIn(s) = {Head(s)} \cup IdsIn(Tail(s))
<1>1. Head(s) \in Ids /\ Tail(s) \in Seq(Ids) /\ Len(Tail(s)) = Len(s) - 1
  OBVIOUS
<1>2. ASSUME NEW x \in IdsIn(s) PROVE x \in {Head(s)} \cup IdsIn(Tail(s))
  <2>1. PICK i \in 1..Len(s) : x = s[i]
    BY <1>2 DEF IdsIn
  <2>2. CASE i = 1
    BY <2>1, <2>2
  <2>3. CASE i # 1
    <3>1. Tail(s)[i - 1] = x /\ i - 1 \in DOMAIN Tail(s)
      BY <2>1, <2>3
    <3> QED
      BY <3>1 DEF IdsIn
  <2> QED
    BY <2>2, <2>3
<1>3. Head(s) \in IdsIn(s)
  <2>1. 1 \in DOMAIN s /\ Head(s) = s[1]
    OBVIOUS
  <2> QED
    BY <2>1 DEF IdsIn
<1>4. ASSUME NEW x \in IdsIn(Tail(s)) PROVE x \in IdsIn(s)
  BY <1>4 DEF IdsIn
<1> QED
  BY <1>1, <1>2, <1>3, <1>4

LEMMA UnionAdd ==
  ASSUME NEW A, NEW B
  PROVE  UNION (A \cup {B}) = (UNION A) \cup B
OBVIOUS

(* Moving the head of the queue to the end of the batch changes nothing. *)
LEMMA MoveHead ==
  ASSUME NEW s \in Seq(Ids), NEW t \in Seq(Ids), t # <<>>
  PROVE  Append(s, Head(t)) \o Tail(t) = s \o t
OBVIOUS

LEMMA ConcatAppend ==
  ASSUME NEW s \in Seq(Ids), NEW t \in Seq(Ids), NEW x \in Ids
  PROVE  s \o Append(t, x) = Append(s \o t, x)
OBVIOUS

LEMMA SortedAppend ==
  ASSUME NEW s \in Seq(Ids), Sorted(s), NEW n \in Ids, (\A x \in IdsIn(s) : x < n)
  PROVE  Sorted(Append(s, n))
BY DEF Sorted, IdsIn, Ids

(* A sorted sequence consists of sorted parts without a common element. *)
LEMMA SortedParts ==
  ASSUME NEW s \in Seq(Ids), NEW t \in Seq(Ids), Sorted(s \o t)
  PROVE  Sorted(t) /\ IdsIn(s) \cap IdsIn(t) = {}
<1>1. Sorted(t)
  <2> SUFFICES ASSUME NEW i \in DOMAIN t, NEW j \in DOMAIN t, i < j PROVE t[i] < t[j]
    BY DEF Sorted
  <2>1. /\ Len(s) + i \in DOMAIN (s \o t) /\ Len(s) + j \in DOMAIN (s \o t)
        /\ (s \o t)[Len(s) + i] = t[i] /\ (s \o t)[Len(s) + j] = t[j]
        /\ Len(s) + i < Len(s) + j
    OBVIOUS
  <2> QED
    BY <2>1 DEF Sorted
<1>2. ASSUME NEW x \in IdsIn(s), x \in IdsIn(t) PROVE FALSE
  <2>1. PICK i \in 1..Len(s) : x = s[i]
    BY DEF IdsIn
  <2>2. PICK j \in 1..Len(t) : x = t[j]
    BY <1>2 DEF IdsIn
  <2>3. /\ i \in DOMAIN (s \o t) /\ Len(s) + j \in DOMAIN (s \o t) /\ i < Len(s) + j
        /\ (s \o t)[i] = s[i] /\ (s \o t)[Len(s) + j] = t[j]
    OBVIOUS
  <2>4. s[i] < t[j]
    BY <2>3 DEF Sorted
  <2>5. s[i] \in Nat
    <3>1. s[i] \in Ids
      OBVIOUS
    <3> QED
      BY <3>1, ReporterAssumption DEF ReporterAssumption, Ids
  <2> QED
    BY <2>1, <2>2, <2>4, <2>5
<1> QED
  BY <1>1, <1>2

-----------------------------------------------------------------------------
(* The parts of the pipeline: they share no event, and all of theirs are   *)
(* live and in the log.                                                    *)
LEMMA PipelineParts ==
  ASSUME IInv
  PROVE  /\ pipeline \in Seq(Ids) /\ Sorted(pipeline)
         /\ inflight \in Seq(Ids) /\ batch \in Seq(Ids) /\ queue \in Seq(Ids)
         /\ IdsIn(pipeline) = IdsIn(inflight) \cup IdsIn(batch) \cup IdsIn(queue)
         /\ IdsIn(inflight) \cap (IdsIn(batch) \cup IdsIn(queue)) = {}
         /\ IdsIn(batch) \cap IdsIn(queue) = {}
         /\ \A i \in IdsIn(pipeline) : i \in Ids /\ fate[i] = "live" /\ i \in DOMAIN log
<1>1. inflight \in Seq(Ids) /\ batch \in Seq(Ids) /\ queue \in Seq(Ids)
  BY DEF IInv, TypeOK
<1>2. inflight \o batch \in Seq(Ids) /\ batch \o queue \in Seq(Ids) /\ pipeline \in Seq(Ids)
  BY <1>1 DEF pipeline
<1>3. Sorted(pipeline)
  BY DEF IInv, Conservation, Sorted
<1>4. IdsIn(inflight \o batch) = IdsIn(inflight) \cup IdsIn(batch)
  BY <1>1, IdsInConcat
<1>5. IdsIn(batch \o queue) = IdsIn(batch) \cup IdsIn(queue)
  BY <1>1, IdsInConcat
<1>6. IdsIn(pipeline) = IdsIn(inflight) \cup IdsIn(batch) \cup IdsIn(queue)
  <2>1. pipeline = (inflight \o batch) \o queue
    BY DEF pipeline
  <2>2. IdsIn((inflight \o batch) \o queue) = IdsIn(inflight \o batch) \cup IdsIn(queue)
    BY <1>1, <1>2, IdsInConcat
  <2> QED
    BY <1>4, <2>1, <2>2
<1>7. pipeline = inflight \o (batch \o queue)
  BY <1>1 DEF pipeline
<1>8. Sorted(batch \o queue) /\ IdsIn(inflight) \cap IdsIn(batch \o queue) = {}
  BY <1>1, <1>2, <1>3, <1>7, SortedParts
<1>9. IdsIn(batch) \cap IdsIn(queue) = {}
  BY <1>1, <1>8, SortedParts
<1>10. IdsIn(pipeline) \subseteq Ids
  BY <1>2 DEF IdsIn
<1>11. \A i \in IdsIn(pipeline) : i \in Ids /\ fate[i] = "live" /\ i \in DOMAIN log
  BY <1>10 DEF IInv, Conservation, Recorded
<1> QED
  BY <1>1, <1>2, <1>3, <1>5, <1>6, <1>8, <1>9, <1>11

(* The pipeline stays the pipeline: Conservation when nothing is settled. *)
LEMMA ConservationKept ==
  ASSUME IInv, pipeline' = pipeline, fate' = fate
  PROVE  Conservation'
BY DEF IInv, Conservation

(* Stamps and the window speak of the log, and of fate only as far as it   *)
(* tells suppressed events.                                                *)
LEMMA WindowKept ==
  ASSUME IInv, UNCHANGED <<now, boot, up, dedup, log>>,
         \A i \in Ids : fate'[i] = "suppressed" <=> fate[i] = "suppressed"
  PROVE  Stamps' /\ DedupWindowRespected'
<1>1. DOMAIN log \subseteq Ids
  BY ReporterAssumption DEF ReporterAssumption, IInv, TypeOK, Ids
<1>2. \A i \in DOMAIN log : PassedDedup(i)' <=> PassedDedup(i)
  BY <1>1 DEF PassedDedup
<1> QED
  BY <1>2 DEF IInv, Stamps, DedupWindowRespected

(* Posting the batch b, which was on top of the pipeline. *)
LEMMA FlushOutbound ==
  ASSUME IInv, inflight = <<>>, NEW b \in Seq(Ids), batch' = <<>>, inflight' = b,
         wire' = wire \cup {IdsIn(b)}, UNCHANGED <<stored, log, replied>>,
         IdsIn(b) \cup IdsIn(queue') = IdsIn(batch) \cup IdsIn(queue),
         IdsIn(b) \cap IdsIn(queue') = {}
  PROVE  Outbound'
<1>1. replied = FALSE
  BY DEF IInv, TypeOK, Outbound
<1>2. IdsIn(b) \subseteq DOMAIN log
  BY PipelineParts
<1>3. \A i \in IdsIn(b) : i \notin UNION wire /\ i \notin Stored
  BY DEF IInv, Outbound
<1>4. Stored' = Stored /\ UNION wire' = (UNION wire) \cup IdsIn(b)
  BY UnionAdd DEF Stored
<1>5. \A i \in IdsIn(batch') \cup IdsIn(queue') : i \notin UNION wire' /\ i \notin Stored'
  BY <1>4, IdsInEmpty DEF IInv, Outbound
<1>6. \A c \in wire : c \cap IdsIn(b) = {}
  BY <1>3
<1> QED
  BY <1>1, <1>2, <1>3, <1>4, <1>5, <1>6 DEF IInv, Outbound

LEMMA InitIInv == Init => IInv
<1> SUFFICES ASSUME Init PROVE IInv
  OBVIOUS
<1>1. pipeline = <<>>
  BY DEF Init, pipeline
<1>2. TypeOK
  <2>1. now \in Nat \ {0} /\ boot \in Nat
    BY DEF Init
  <2>2. /\ up \in BOOLEAN /\ closed \in BOOLEAN /\ replied \in BOOLEAN
        /\ pc \in {"select", "posting", "closing", "stopped"}
    BY DEF Init
  <2>3. wire \in SUBSET (SUBSET Ids)
    BY Zenon DEF Init
  <2>4. dedup \in [Keys -> Nat] /\ stored \in [Ids -> Nat] /\ fate \in [Ids -> Fates]
    BY DEF Init, Absent, Fates
  <2>5. /\ queue \in Seq(Ids) /\ Len(queue) <= QueueSize
        /\ batch \in Seq(Ids) /\ Len(batch) < BatchSize
        /\ inflight \in Seq(Ids) /\ Len(inflight) <= BatchSize
        /\ log \in Seq(Event) /\ Len(log) <= MaxEvents
    BY ReporterAssumption DEF ReporterAssumption, Init
  <2> QED
    BY <2>1, <2>2, <2>3, <2>4, <2>5, Zenon DEF TypeOK
<1>3. Stages /\ Recorded /\ Stamps
  BY DEF Init, Stages, Recorded, Stamps, Absent
<1>4. Conservation
  BY <1>1, IdsInEmpty DEF Init, Conservation
<1>5. Outbound
  BY IdsInEmpty DEF Init, Outbound, Stored
<1>6. StoredAtMostOnce /\ AckedWasStored /\ DedupWindowRespected
  BY DEF Init, StoredAtMostOnce, AckedWasStored, DedupWindowRespected
<1> QED
  BY <1>2, <1>3, <1>4, <1>5, <1>6 DEF IInv

-----------------------------------------------------------------------------
(* The steps of sendLoop. *)

(* A batch goes out: what Receive, Tick and Done have in common. *)
LEMMA FlushIInv ==
  ASSUME IInv, pc = "select", up, NEW b \in Seq(Ids), Len(b) <= BatchSize,
         NEW next \in {"posting", "closing"}, Flush(b, next),
         queue' \in Seq(Ids), Len(queue') <= QueueSize,
         b \o queue' = batch \o queue,
         UNCHANGED <<now, boot, up, closed, dedup, replied, stored, log, fate>>
  PROVE  IInv'
<1>1. inflight = <<>>
  BY DEF IInv, Stages
<1>2. batch' = <<>> /\ inflight' = b /\ wire' = wire \cup {IdsIn(b)} /\ pc' = next
  BY DEF Flush
<1>3. batch \in Seq(Ids) /\ queue \in Seq(Ids)
  BY DEF IInv, TypeOK
<1>4. pipeline = batch \o queue /\ pipeline' = b \o queue'
  <2>1. <<>> \o batch = batch /\ b \o <<>> = b
    BY <1>3
  <2> QED
    BY <1>1, <1>2, <2>1 DEF pipeline
<1>5. TypeOK'
  <2>1. IdsIn(b) \subseteq Ids
    BY DEF IdsIn
  <2>2. wire' \in SUBSET (SUBSET Ids)
    BY <1>2, <2>1 DEF IInv, TypeOK
  <2>3. batch' \in Seq(Ids) /\ Len(batch') < BatchSize
    BY <1>2, ReporterAssumption DEF ReporterAssumption
  <2>4. pc' \in {"select", "posting", "closing", "stopped"}
    BY <1>2
  <2> QED
    BY <1>2, <2>2, <2>3, <2>4, Zenon DEF IInv, TypeOK
<1>6. Stages'
  BY <1>2 DEF IInv, Stages
<1>7. Recorded'
  BY DEF IInv, Recorded
<1>8. Conservation'
  BY <1>4, ConservationKept
<1>9. Outbound'
  <2>1. Sorted(b \o queue') /\ IdsIn(batch \o queue) = IdsIn(batch) \cup IdsIn(queue)
    BY <1>3, <1>4, PipelineParts, IdsInConcat
  <2>2. IdsIn(b \o queue') = IdsIn(b) \cup IdsIn(queue')
    BY IdsInConcat
  <2>3. IdsIn(b) \cap IdsIn(queue') = {}
    BY <2>1, SortedParts
  <2>4. IdsIn(b) \cup IdsIn(queue') = IdsIn(batch) \cup IdsIn(queue)
    BY <2>1, <2>2
  <2> QED
    BY <1>1, <1>2, <2>3, <2>4, FlushOutbound
<1>10. Stamps' /\ DedupWindowRespected'
  BY WindowKept
<1>11. StoredAtMostOnce' /\ AckedWasStored'
  BY DEF IInv, StoredAtMostOnce, AckedWasStored
<1> QED
  BY <1>5, <1>6, <1>7, <1>8, <1>9, <1>10, <1>11 DEF IInv

LEMMA ReceiveIInv == IInv /\ Receive => IInv'
<1> SUFFICES ASSUME IInv, Receive PROVE IInv'
  OBVIOUS
<1> DEFINE b == Append(batch, Head(queue))
<1>1. /\ batch \in Seq(Ids) /\ Len(batch) < BatchSize /\ queue \in Seq(Ids) /\ queue # <<>>
      /\ Len(queue) <= QueueSize /\ queue' = Tail(queue) /\ pc = "select" /\ up
      /\ UNCHANGED <<now, boot, up, closed, dedup, replied, stored, log, fate>>
  BY DEF IInv, TypeOK, Receive
<1>2. BatchSize \in Nat /\ QueueSize \in Nat
  BY ReporterAssumption DEF ReporterAssumption
<1>3. /\ Head(queue) \in Ids /\ Tail(queue) \in Seq(Ids) /\ Len(Tail(queue)) = Len(queue) - 1
      /\ IdsIn(queue) = {Head(queue)} \cup IdsIn(Tail(queue))
  BY <1>1, HeadTail
<1>4. b \in Seq(Ids) /\ Len(b) = Len(batch) + 1 /\ Len(batch) \in Nat
  BY <1>1, <1>3
<1>5. b \o queue' = batch \o queue
  BY <1>1, MoveHead
<1>6. queue' \in Seq(Ids) /\ Len(queue') <= QueueSize
  BY <1>1, <1>2, <1>3
<1>7. CASE Len(b) >= BatchSize
  <2>1. Flush(b, "posting")
    BY <1>7 DEF Receive
  <2>2. Len(b) <= BatchSize
    BY <1>1, <1>2, <1>4
  <2> HIDE DEF b
  <2> QED
    BY <1>1, <1>4, <1>5, <1>6, <2>1, <2>2, FlushIInv
<1>8. CASE ~(Len(b) >= BatchSize)
  <2>1. batch' = b /\ UNCHANGED <<inflight, wire, pc>>
    BY <1>8 DEF Receive
  <2>2. TypeOK'
    <3>1. Len(b) < BatchSize
      BY <1>2, <1>4, <1>8
    <3> HIDE DEF b
    <3> QED
      BY <1>1, <1>4, <1>6, <2>1, <3>1, Zenon DEF IInv, TypeOK
  <2>3. Stages' /\ Recorded'
    BY <1>1, <2>1 DEF IInv, Stages, Recorded
  <2>4. pipeline' = pipeline
    <3>1. inflight = <<>>
      BY <1>1 DEF IInv, Stages
    <3>2. <<>> \o b = b /\ <<>> \o batch = batch
      BY <1>1, <1>4
    <3> HIDE DEF b
    <3>3. pipeline = batch \o queue /\ pipeline' = b \o queue'
      BY <2>1, <3>1, <3>2 DEF pipeline
    <3> QED
      BY <1>5, <3>3
  <2>5. Conservation'
    BY <1>1, <2>4, ConservationKept
  <2>6. Outbound'
    <3>1. IdsIn(batch') \cup IdsIn(queue') = IdsIn(batch) \cup IdsIn(queue)
      BY <1>1, <1>3, <2>1, IdsInAppend
    <3>2. Stored' = Stored
      BY <1>1 DEF Stored
    <3>3. IdsIn(inflight') = IdsIn(inflight)
      BY <2>1
    <3> HIDE DEF b
    <3> QED
      BY <1>1, <2>1, <3>1, <3>2, <3>3 DEF IInv, Outbound
  <2>7. Stamps' /\ DedupWindowRespected'
    BY <1>1, WindowKept
  <2>8. StoredAtMostOnce' /\ AckedWasStored'
    BY <1>1 DEF IInv, StoredAtMostOnce, AckedWasStored
  <2> QED
    BY <2>2, <2>3, <2>5, <2>6, <2>7, <2>8 DEF IInv
<1> QED
  BY <1>7, <1>8

LEMMA TickIInv == IInv /\ Tick => IInv'
<1> SUFFICES ASSUME IInv, Tick PROVE IInv'
  OBVIOUS
<1>1. /\ batch \in Seq(Ids) /\ Len(batch) < BatchSize /\ queue \in Seq(Ids)
      /\ Len(queue) <= QueueSize /\ queue' = queue /\ pc = "select" /\ up
      /\ Flush(batch, "posting")
      /\ UNCHANGED <<now, boot, up, closed, dedup, replied, stored, log, fate>>
  BY DEF IInv, TypeOK, Tick
<1>2. Len(batch) <= BatchSize
  BY <1>1, ReporterAssumption DEF ReporterAssumption
<1> QED
  BY <1>1, <1>2, FlushIInv

LEMMA DoneIInv == IInv /\ Done => IInv'
<1> SUFFICES ASSUME IInv, Done PROVE IInv'
  OBVIOUS
<1>1. /\ batch \in Seq(Ids) /\ Len(batch) < BatchSize /\ queue \in Seq(Ids)
      /\ Len(queue) <= QueueSize /\ queue' = queue /\ pc = "select" /\ up
      /\ UNCHANGED <<now, boot, up, closed, dedup, replied, stored, log, fate>>
  BY DEF IInv, TypeOK, Done
<1>2. CASE batch # <<>>
  <2>1. Len(batch) <= BatchSize
    BY <1>1, ReporterAssumption DEF ReporterAssumption
  <2>2. Flush(batch, "closing")
    BY <1>2 DEF Done
  <2> QED
    BY <1>1, <2>1, <2>2, FlushIInv
<1>3. CASE batch = <<>>
  <2>1. pc' = "stopped" /\ UNCHANGED <<batch, inflight, wire>>
    BY <1>3 DEF Done
  <2>2. TypeOK'
    BY <1>1, <2>1 DEF IInv, TypeOK
  <2>3. Stages' /\ Recorded'
    BY <1>1, <1>3, <2>1 DEF IInv, Stages, Recorded
  <2>4. Conservation'
    BY <1>1, <2>1, ConservationKept DEF pipeline
  <2>5. Outbound'
    BY <1>1, <2>1 DEF IInv, Outbound, Stored, IdsIn
  <2>6. Stamps' /\ DedupWindowRespected'
    BY <1>1, WindowKept
  <2>7. StoredAtMostOnce' /\ AckedWasStored'
    BY <1>1 DEF IInv, StoredAtMostOnce, AckedWasStored
  <2> QED
    BY <2>2, <2>3, <2>4, <2>5, <2>6, <2>7 DEF IInv
<1> QED
  BY <1>2, <1>3

(* A post returns: the events in flight are settled, and acknowledged only *)
(* when an answer came.                                                    *)
LEMMA PostReturnsIInv ==
  ASSUME IInv, NEW f \in {"acked", "failed"}, f = "acked" => replied, PostReturns(f)
  PROVE  IInv'
<1>1. /\ pc \in {"posting", "closing"} /\ inflight' = <<>> /\ replied' = FALSE
      /\ fate' = Mark(IdsIn(inflight), f)
      /\ pc' = IF pc = "posting" THEN "select" ELSE "stopped"
      /\ UNCHANGED <<now, boot, up, closed, dedup, queue, batch, wire, stored, log>>
  BY DEF PostReturns
<1>2. fate \in [Ids -> Fates] /\ batch \in Seq(Ids) /\ queue \in Seq(Ids)
      /\ inflight \in Seq(Ids)
  BY DEF IInv, TypeOK
<1>3. \A i \in Ids : fate'[i] = IF i \in IdsIn(inflight) THEN f ELSE fate[i]
  BY <1>1 DEF Mark
<1>4. \A i \in IdsIn(inflight) : i \in Ids /\ fate[i] = "live" /\ i \in DOMAIN log
  BY PipelineParts
<1>5. TypeOK'
  <2>1. fate' \in [Ids -> Fates]
    BY <1>1, <1>2 DEF Mark, Fates
  <2>2. pc' \in {"select", "posting", "closing", "stopped"}
    BY <1>1
  <2>3. inflight' \in Seq(Ids) /\ Len(inflight') <= BatchSize
    BY <1>1, ReporterAssumption DEF ReporterAssumption
  <2> QED
    BY <1>1, <2>1, <2>2, <2>3, Zenon DEF IInv, TypeOK
<1>6. Stages'
  BY <1>1 DEF IInv, Stages
<1>7. Recorded'
  BY <1>1, <1>3, <1>4 DEF IInv, Recorded
<1>8. Conservation'
  <2>1. pipeline' = batch \o queue /\ pipeline = inflight \o (batch \o queue)
    BY <1>1, <1>2 DEF pipeline
  <2>2. batch \o queue \in Seq(Ids)
    BY <1>2
  <2>3. Sorted(pipeline')
    BY <1>2, <2>1, <2>2, PipelineParts, SortedParts
  <2>4. IdsIn(batch \o queue) = IdsIn(batch) \cup IdsIn(queue)
    BY <1>2, IdsInConcat
  <2>5. \A i \in Ids : fate'[i] = "live" <=> i \in IdsIn(batch) \cup IdsIn(queue)
    BY <1>3, PipelineParts DEF IInv, Conservation
  <2>6. \A i \in Ids : fate'[i] = "live" <=> i \in IdsIn(pipeline')
    BY <2>1, <2>4, <2>5
  <2> QED
    BY <2>3, <2>6 DEF Conservation, Sorted, IdsIn
<1>9. Outbound'
  <2>1. Stored' = Stored
    BY <1>1 DEF Stored
  <2> QED
    BY <1>1, <2>1 DEF IInv, Outbound, IdsIn
<1>10. Stamps' /\ DedupWindowRespected'
  <2>1. \A i \in Ids : fate'[i] = "suppressed" <=> fate[i] = "suppressed"
    BY <1>3, <1>4
  <2> QED
    BY <1>1, <2>1, WindowKept
<1>11. StoredAtMostOnce'
  BY <1>1 DEF IInv, StoredAtMostOnce
<1>12. AckedWasStored'
  BY <1>1, <1>3 DEF IInv, AckedWasStored, Outbound, Stored
<1> QED
  BY <1>5, <1>6, <1>7, <1>8, <1>9, <1>10, <1>11, <1>12 DEF IInv

LEMMA PostIInv == IInv /\ (PostOk \/ PostErr) => IInv'
BY PostReturnsIInv DEF PostOk, PostErr

-----------------------------------------------------------------------------
(* Network, process and clock. *)
LEMMA ConsoleStoresIInv ==
  ASSUME IInv, NEW b \in wire, ConsoleStores(b)
  PROVE  IInv'
<1>1. /\ wire' = wire \ {b}
      /\ stored' = [i \in Ids |-> IF i \in b THEN stored[i] + 1 ELSE stored[i]]
      /\ replied' = (replied \/ (up /\ inflight # <<>> /\ b = IdsIn(inflight)))
      /\ UNCHANGED <<now, boot, up, closed, dedup, queue, batch, inflight, pc, log, fate>>
  BY DEF ConsoleStores
<1>2. stored \in [Ids -> Nat] /\ b \subseteq Ids
  BY DEF IInv, TypeOK
<1>3. b \cap Stored = {} /\ b \subseteq DOMAIN log
  BY DEF IInv, Outbound
<1>4. Stored' = Stored \cup b
  BY <1>1, <1>2 DEF Stored
<1>5. TypeOK'
  <2>1. stored' \in [Ids -> Nat]
    BY <1>1, <1>2
  <2>2. wire' \in SUBSET (SUBSET Ids)
    BY <1>1 DEF IInv, TypeOK
  <2>3. replied' \in BOOLEAN
    BY <1>1 DEF IInv, TypeOK
  <2> QED
    BY <1>1, <2>1, <2>2, <2>3, Zenon DEF IInv, TypeOK
<1>6. Stages' /\ Recorded'
  BY <1>1 DEF IInv, Stages, Recorded
<1>7. Conservation'
  BY <1>1, ConservationKept DEF pipeline
<1>8. Outbound'
  <2>1. \A c \in wire' : c \in wire /\ c \cap b = {} /\ c \cap Stored = {}
    BY <1>1 DEF IInv, Outbound
  <2>2. UNION wire' \subseteq UNION wire
    BY <1>1
  <2>3. \A i \in IdsIn(batch) \cup IdsIn(queue) : i \notin b
    BY DEF IInv, Outbound
  <2>4. replied' => (inflight # <<>> /\ IdsIn(inflight) \subseteq Stored \cup b)
    BY <1>1 DEF IInv, Outbound
  <2>5. IdsIn(batch') = IdsIn(batch) /\ IdsIn(queue') = IdsIn(queue)
        /\ IdsIn(inflight') = IdsIn(inflight)
    BY <1>1
  <2>6. UNION wire' \subseteq DOMAIN log' /\ Stored' \subseteq DOMAIN log'
    BY <1>1, <1>3, <1>4, <2>2 DEF IInv, Outbound
  <2>7. \A c \in wire' : c \cap Stored' = {}
    BY <1>4, <2>1
  <2>8. \A c, d \in wire' : c = d \/ c \cap d = {}
    BY <2>1 DEF IInv, Outbound
  <2>9. \A i \in IdsIn(batch') \cup IdsIn(queue') : i \notin UNION wire' /\ i \notin Stored'
    BY <1>4, <2>2, <2>3, <2>5 DEF IInv, Outbound
  <2> QED
    BY <1>1, <1>4, <2>4, <2>5, <2>6, <2>7, <2>8, <2>9 DEF Outbound
<1>9. Stamps' /\ DedupWindowRespected'
  BY <1>1, WindowKept
<1>10. StoredAtMostOnce' /\ AckedWasStored'
  <2>1. \A i \in b : stored[i] = 0
    BY <1>2, <1>3 DEF Stored
  <2> QED
    BY <1>1, <1>2, <2>1 DEF IInv, StoredAtMostOnce, AckedWasStored
<1> QED
  BY <1>5, <1>6, <1>7, <1>8, <1>9, <1>10 DEF IInv

LEMMA RequestLostIInv ==
  ASSUME IInv, NEW b \in wire, RequestLost(b)
  PROVE  IInv'
<1>1. /\ wire' = wire \ {b}
      /\ UNCHANGED <<now, boot, up, closed, dedup, queue, batch, inflight, pc,
                     replied, stored, log, fate>>
  BY DEF RequestLost
<1>2. TypeOK'
  <2>1. wire' \in SUBSET (SUBSET Ids)
    BY <1>1 DEF IInv, TypeOK
  <2> QED
    BY <1>1, <2>1, Zenon DEF IInv, TypeOK
<1>3. Stages' /\ Recorded'
  BY <1>1 DEF IInv, Stages, Recorded
<1>4. Conservation'
  BY <1>1, ConservationKept DEF pipeline
<1>5. Outbound'
  <2>1. wire' \subseteq wire /\ UNION wire' \subseteq UNION wire
    BY <1>1
  <2>2. Stored' = Stored /\ IdsIn(batch') = IdsIn(batch) /\ IdsIn(queue') = IdsIn(queue)
        /\ IdsIn(inflight') = IdsIn(inflight)
    BY <1>1 DEF Stored
  <2> QED
    BY <1>1, <2>1, <2>2 DEF IInv, Outbound
<1>6. Stamps' /\ DedupWindowRespected'
  BY <1>1, WindowKept
<1>7. StoredAtMostOnce' /\ AckedWasStored'
  BY <1>1 DEF IInv, StoredAtMostOnce, AckedWasStored
<1> QED
  BY <1>2, <1>3, <1>4, <1>5, <1>6, <1>7 DEF IInv

LEMMA DieIInv == IInv /\ Die => IInv'
<1> SUFFICES ASSUME IInv, Die PROVE IInv'
  OBVIOUS
<1>1. /\ up' = FALSE /\ closed' = FALSE /\ fate' = Mark(IdsIn(pipeline), "lost")
      /\ dedup' = [k \in Keys |-> Absent]
      /\ queue' = <<>> /\ batch' = <<>> /\ inflight' = <<>> /\ pc' = "stopped"
      /\ replied' = FALSE
      /\ UNCHANGED <<now, boot, wire, stored, log>>
  BY DEF Die
<1>2. \A i \in Ids : fate'[i] = IF i \in IdsIn(pipeline) THEN "lost" ELSE fate[i]
  BY <1>1 DEF Mark
<1>3. \A i \in IdsIn(pipeline) : i \in Ids /\ fate[i] = "live" /\ i \in DOMAIN log
  BY PipelineParts
<1>4. TypeOK'
  <2>1. fate' \in [Ids -> Fates]
    BY <1>1 DEF IInv, TypeOK, Mark, Fates
  <2>2. dedup' \in [Keys -> Nat]
    BY <1>1 DEF Absent
  <2>3. /\ queue' \in Seq(Ids) /\ Len(queue') <= QueueSize
        /\ batch' \in Seq(Ids) /\ Len(batch') < BatchSize
        /\ inflight' \in Seq(Ids) /\ Len(inflight') <= BatchSize
    BY <1>1, ReporterAssumption DEF ReporterAssumption
  <2>4. up' \in BOOLEAN /\ closed' \in BOOLEAN /\ replied' \in BOOLEAN
        /\ pc' \in {"select", "posting", "closing", "stopped"}
    BY <1>1
  <2> QED
    BY <1>1, <2>1, <2>2, <2>3, <2>4, Zenon DEF IInv, TypeOK
<1>5. Stages'
  BY <1>1 DEF Stages
<1>6. Recorded'
  BY <1>1, <1>2, <1>3 DEF IInv, Recorded
<1>7. Conservation'
  <2>1. pipeline' = <<>>
    BY <1>1 DEF pipeline
  <2>2. \A i \in Ids : fate'[i] # "live"
    BY <1>2 DEF IInv, Conservation
  <2>3. IdsIn(pipeline') = {}
    BY <2>1, IdsInEmpty
  <2> QED
    BY <2>1, <2>2, <2>3 DEF Conservation, IdsIn
<1>8. Outbound'
  <2>1. Stored' = Stored /\ IdsIn(batch') = {} /\ IdsIn(queue') = {}
    BY <1>1, IdsInEmpty DEF Stored
  <2> QED
    BY <1>1, <2>1 DEF IInv, Outbound
<1>9. Stamps' /\ DedupWindowRespected'
  <2>1. DOMAIN log \subseteq Ids
    BY ReporterAssumption DEF ReporterAssumption, IInv, TypeOK, Ids
  <2>2. \A i \in DOMAIN log : PassedDedup(i)' <=> PassedDedup(i)
    BY <1>1, <1>2, <1>3, <2>1 DEF PassedDedup
  <2>3. \A k \in Keys : dedup'[k] <= now
    BY <1>1 DEF Absent, IInv, TypeOK
  <2> QED
    BY <1>1, <2>2, <2>3 DEF IInv, Stamps, DedupWindowRespected
<1>10. StoredAtMostOnce' /\ AckedWasStored'
  BY <1>1, <1>2 DEF IInv, StoredAtMostOnce, AckedWasStored
<1> QED
  BY <1>4, <1>5, <1>6, <1>7, <1>8, <1>9, <1>10 DEF IInv

LEMMA CloseIInv == IInv /\ Close => IInv'
<1> SUFFICES ASSUME IInv, Close PROVE IInv'
  OBVIOUS
<1>1. /\ closed' = TRUE
      /\ UNCHANGED <<now, boot, up, dedup, queue, batch, inflight, pc, wire, replied,
                     stored, log, fate>>
  BY DEF Close
<1>2. TypeOK' /\ Stages' /\ Recorded' /\ StoredAtMostOnce' /\ AckedWasStored'
  BY <1>1 DEF IInv, TypeOK, Stages, Recorded, StoredAtMostOnce, AckedWasStored
<1>3. Conservation'
  BY <1>1, ConservationKept DEF pipeline
<1>4. Outbound'
  BY <1>1 DEF IInv, Outbound, Stored, IdsIn
<1>5. Stamps' /\ DedupWindowRespected'
  BY <1>1, WindowKept
<1> QED
  BY <1>2, <1>3, <1>4, <1>5 DEF IInv

(* A new process has no event of its own yet: every boot in the log is an  *)
(* earlier one.                                                            *)
LEMMA RestartIInv == IInv /\ Restart => IInv'
<1> SUFFICES ASSUME IInv, Restart PROVE IInv'
  OBVIOUS
<1>1. /\ ~up /\ up' = TRUE /\ boot' = boot + 1 /\ pc' = "select"
      /\ UNCHANGED <<now, closed, dedup, queue, batch, inflight, wire, replied,
                     stored, log, fate>>
  BY DEF Restart
<1>2. TypeOK' /\ Recorded' /\ StoredAtMostOnce' /\ AckedWasStored'
  BY <1>1 DEF IInv, TypeOK, Recorded, StoredAtMostOnce, AckedWasStored
<1>3. Stages'
  BY <1>1 DEF IInv, Stages
<1>4. Conservation'
  BY <1>1, ConservationKept DEF pipeline
<1>5. Outbound'
  BY <1>1 DEF IInv, Outbound, Stored, IdsIn
<1>6. \A i \in DOMAIN log : log[i].boot \in Nat /\ log[i].boot <= boot /\ boot \in Nat
  <2>1. \A i \in DOMAIN log : log[i] \in Event
    BY DEF IInv, TypeOK
  <2> QED
    BY <2>1 DEF IInv, TypeOK, Stamps, Event
<1>7. Stamps'
  BY <1>1, <1>6 DEF IInv, Stamps
<1>8. DedupWindowRespected'
  BY <1>1 DEF IInv, DedupWindowRespected, PassedDedup
<1> QED
  BY <1>2, <1>3, <1>4, <1>5, <1>7, <1>8 DEF IInv

LEMMA ElapseIInv == IInv /\ Elapse => IInv'
<1> SUFFICES ASSUME IInv, Elapse PROVE IInv'
  OBVIOUS
<1>1. /\ now' = now + 1
      /\ UNCHANGED <<boot, up, closed, dedup, queue, batch, inflight, pc, wire, replied,
                     stored, log, fate>>
  BY DEF Elapse, pvars
<1>2. TypeOK' /\ Stages' /\ Recorded' /\ StoredAtMostOnce' /\ AckedWasStored'
  BY <1>1 DEF IInv, TypeOK, Stages, Recorded, StoredAtMostOnce, AckedWasStored
<1>3. Conservation'
  BY <1>1, ConservationKept DEF pipeline
<1>4. Outbound'
  BY <1>1 DEF IInv, Outbound, Stored, IdsIn
<1>5. /\ now \in Nat /\ DedupWindow \in Nat
      /\ \A i \in DOMAIN log : log[i].time \in 1..now /\ log[i].boot <= boot
      /\ \A k \in Keys : dedup[k] \in Nat /\ dedup[k] <= now
  BY ReporterAssumption DEF ReporterAssumption, IInv, TypeOK, Stamps
<1>6. Stamps'
  <2>1. \A i \in DOMAIN log : log[i].time \in 1..now'
    BY <1>1, <1>5
  <2>2. \A k \in Keys : dedup[k] <= now'
    BY <1>1, <1>5
  <2>3. \A i \in DOMAIN log : now - log[i].time >= DedupWindow
                              => now' - log[i].time >= DedupWindow
    BY <1>1, <1>5
  <2> QED
    BY <1>1, <2>1, <2>2, <2>3 DEF IInv, Stamps, PassedDedup
<1>7. DedupWindowRespected'
  BY <1>1 DEF IInv, DedupWindowRespected, PassedDedup
<1> QED
  BY <1>2, <1>3, <1>4, <1>6, <1>7 DEF IInv

LEMMA StutterIInv == IInv /\ UNCHANGED vars => IInv'
<1> SUFFICES ASSUME IInv, UNCHANGED vars PROVE IInv'
  OBVIOUS
<1>1. UNCHANGED <<now, boot, up, closed, dedup, queue, batch, inflight, pc, wire,
                  replied, stored, log, fate>>
  BY DEF vars
<1>2. TypeOK' /\ Stages' /\ Recorded' /\ StoredAtMostOnce' /\ AckedWasStored'
  BY <1>1 DEF IInv, TypeOK, Stages, Recorded, StoredAtMostOnce, AckedWasStored
<1>3. Conservation'
  BY <1>1, ConservationKept DEF pipeline
<1>4. Outbound'
  BY <1>1 DEF IInv, Outbound, Stored, IdsIn
<1>5. Stamps' /\ DedupWindowRespected'
  BY <1>1, WindowKept
<1> QED
  BY <1>2, <1>3, <1>4, <1>5 DEF IInv

-----------------------------------------------------------------------------
(* The suppression map. *)

(* What Remember leaves in the map: the new stamp, and for every other key *)
(* the old one or, if that is a window old, possibly nothing.              *)
LEMMA RememberMap ==
  ASSUME IInv, NEW k \in Keys, DedupWindow > 0
  PROVE  /\ Remember(k) \in [Keys -> Nat]
         /\ Remember(k)[k] = now
         /\ \A j \in Keys : \/ Remember(k)[j] = now /\ j = k
                            \/ Remember(k)[j] = dedup[j]
                            \/ Remember(k)[j] = 0 /\ now - dedup[j] >= DedupWindow
<1> DEFINE marked == [dedup EXCEPT ![k] = now]
           kept == [j \in Keys |-> IF now - marked[j] >= DedupWindow THEN Absent
                                                                   ELSE marked[j]]
<1>1. dedup \in [Keys -> Nat] /\ now \in Nat /\ DedupWindow \in Nat
  BY ReporterAssumption DEF ReporterAssumption, IInv, TypeOK
<1>2. Remember(k) = kept \/ Remember(k) = marked
  BY DEF Remember
<1>3. CASE Remember(k) = kept
  <2>1. marked[k] = now /\ ~(now - now >= DedupWindow)
    BY <1>1
  <2>2. \A j \in Keys : j # k => marked[j] = dedup[j]
    BY <1>1
  <2> QED
    BY <1>1, <1>3, <2>1, <2>2 DEF Absent
<1>4. CASE Remember(k) = marked
  BY <1>1, <1>4
<1> QED
  BY <1>2, <1>3, <1>4

LEMMA ReportIInv ==
  ASSUME IInv, NEW k \in Keys, NEW b \in BOOLEAN, Report(k, b)
  PROVE  IInv'
<1> DEFINE n == Len(log) + 1
           e == [key |-> k, blocked |-> b, time |-> now, boot |-> boot]
<1>1. /\ up /\ Len(log) < MaxEvents /\ log' = Append(log, e)
      /\ UNCHANGED <<now, boot, up, closed, batch, inflight, pc, wire, replied, stored>>
  BY DEF Report
<1>2. /\ log \in Seq(Event) /\ now \in Nat \ {0} /\ boot \in Nat /\ e \in Event
      /\ fate \in [Ids -> Fates] /\ dedup \in [Keys -> Nat] /\ queue \in Seq(Ids)
      /\ DedupWindow \in Nat /\ MaxEvents \in Nat /\ QueueSize \in Nat
  BY ReporterAssumption DEF ReporterAssumption, IInv, TypeOK, Event
<1>3. /\ DOMAIN log' = DOMAIN log \cup {n} /\ log' \in Seq(Event) /\ Len(log') = n
      /\ n \in Nat /\ \A i \in DOMAIN log : i \in Nat /\ i < n /\ log'[i] = log[i]
      /\ log'[n] = e
  <2> HIDE DEF e
  <2> QED
    BY <1>1, <1>2
<1>4. n \in Ids /\ n \notin DOMAIN log /\ DOMAIN log \subseteq Ids
  BY <1>1, <1>2 DEF Ids
<1>5. fate[n] = "none" /\ n \notin IdsIn(pipeline)
  BY <1>4, PipelineParts DEF IInv, Recorded
<1>6. /\ now \in Nat \ {0} /\ DedupWindow \in Nat /\ boot \in Nat
      /\ \A j \in Keys : dedup[j] \in Nat
  BY <1>2
(* The three outcomes. *)
<1>7. /\ \/ DedupHit(k, b) /\ fate' = Mark({n}, "suppressed")
            /\ dedup' = dedup /\ queue' = queue
         \/ ~DedupHit(k, b) /\ fate' = Mark({n}, "live")
            /\ Len(queue) < QueueSize /\ queue' = Append(queue, n)
         \/ ~DedupHit(k, b) /\ fate' = Mark({n}, "dropped") /\ queue' = queue
      /\ DedupHit(k, b) \/ dedup' = IF b \/ DedupWindow = 0 THEN dedup ELSE Remember(k)
  BY DEF Report, Enqueue
<1>8. \A i \in Ids : i # n => fate'[i] = fate[i]
  BY <1>7 DEF Mark
<1>9. /\ fate'[n] \in {"suppressed", "live", "dropped"}
      /\ fate'[n] = "suppressed" <=> DedupHit(k, b)
      /\ IF fate'[n] = "live" THEN Len(queue) < QueueSize /\ queue' = Append(queue, n)
                              ELSE queue' = queue
  BY <1>4, <1>7 DEF Mark
<1>10. fate' \in [Ids -> Fates]
  BY <1>2, <1>7 DEF Mark, Fates
<1>11. /\ dedup' \in [Keys -> Nat]
       /\ \A j \in Keys : \/ dedup'[j] = now
                          \/ dedup'[j] = dedup[j]
                          \/ dedup'[j] = 0 /\ now - dedup[j] >= DedupWindow
       /\ (~b /\ DedupWindow > 0 /\ ~DedupHit(k, b)) => dedup'[k] = now
  BY <1>2, <1>7, RememberMap
<1> HIDE DEF e, n
<1>12. TypeOK'
  <2>1. queue' \in Seq(Ids) /\ Len(queue') <= QueueSize
    <3>1. queue \in Seq(Ids) /\ Len(queue) <= QueueSize /\ Len(queue) \in Nat
      BY <1>2 DEF IInv, TypeOK
    <3>2. Append(queue, n) \in Seq(Ids) /\ Len(Append(queue, n)) = Len(queue) + 1
      BY <1>4, <3>1
    <3>3. CASE fate'[n] = "live"
      <4>1. QueueSize \in Nat /\ Len(queue) < QueueSize /\ queue' = Append(queue, n)
        BY <1>2, <1>9, <3>3
      <4>2. Len(queue) + 1 <= QueueSize
        BY <3>1, <4>1
      <4> QED
        BY <3>2, <4>1, <4>2
    <3>4. CASE fate'[n] # "live"
      BY <1>9, <3>1, <3>4
    <3> QED
      BY <3>3, <3>4
  <2>2. log' \in Seq(Event) /\ Len(log') <= MaxEvents
    BY <1>1, <1>2, <1>3
  <2> QED
    BY <1>1, <1>10, <1>11, <2>1, <2>2, Zenon DEF IInv, TypeOK
<1>13. Stages'
  BY <1>1 DEF IInv, Stages
<1>14. Recorded'
  BY <1>3, <1>4, <1>8, <1>9 DEF IInv, Recorded
<1>15. Conservation'
  <2>1. inflight \o batch \in Seq(Ids) /\ pipeline \in Seq(Ids) /\ Sorted(pipeline)
    BY PipelineParts
  <2>2. CASE fate'[n] = "live"
    <3>1. pipeline' = Append(pipeline, n)
      <4>1. queue' = Append(queue, n)
        BY <1>9, <2>2
      <4>2. (inflight \o batch) \o Append(queue, n) = Append((inflight \o batch) \o queue, n)
        BY <1>2, <1>4, <2>1, ConcatAppend
      <4> QED
        BY <1>1, <4>1, <4>2 DEF pipeline
    <3>2. \A x \in IdsIn(pipeline) : x < n
      BY <1>3, PipelineParts
    <3>3. Sorted(pipeline') /\ IdsIn(pipeline') = IdsIn(pipeline) \cup {n}
      BY <1>4, <2>1, <3>1, <3>2, SortedAppend, IdsInAppend
    <3>4. \A i \in Ids : fate'[i] = "live" <=> i \in IdsIn(pipeline')
      BY <1>8, <2>2, <3>3 DEF IInv, Conservation
    <3> QED
      BY <3>3, <3>4 DEF Conservation, Sorted, IdsIn
  <2>3. CASE fate'[n] # "live"
    <3>1. pipeline' = pipeline
      BY <1>1, <1>9, <2>3 DEF pipeline
    <3>2. \A i \in Ids : fate'[i] = "live" <=> i \in IdsIn(pipeline)
      BY <1>5, <1>8, <2>3 DEF IInv, Conservation
    <3> QED
      BY <2>1, <3>1, <3>2 DEF Conservation, Sorted, IdsIn
  <2> QED
    BY <2>2, <2>3
<1>16. Outbound'
  <2>1. Stored' = Stored /\ IdsIn(batch') = IdsIn(batch) /\ IdsIn(inflight') = IdsIn(inflight)
    BY <1>1 DEF Stored
  <2>2. IdsIn(queue') \subseteq IdsIn(queue) \cup {n}
    BY <1>2, <1>4, <1>9, IdsInAppend
  <2>3. n \notin UNION wire /\ n \notin Stored
    BY <1>4 DEF IInv, Outbound
  <2> QED
    BY <1>1, <1>3, <2>1, <2>2, <2>3 DEF IInv, Outbound
<1>17. /\ \A i \in DOMAIN log : PassedDedup(i)' <=> PassedDedup(i)
       /\ \A i \in DOMAIN log' : i = n => (PassedDedup(i)' <=> (~b /\ ~DedupHit(k, b)))
  <2>1. ASSUME NEW i \in DOMAIN log PROVE PassedDedup(i)' <=> PassedDedup(i)
    <3>1. i \in DOMAIN log' /\ log'[i] = log[i] /\ fate'[i] = fate[i]
      BY <1>3, <1>4, <1>8
    <3> QED
      BY <3>1 DEF PassedDedup
  <2>2. ASSUME NEW i \in DOMAIN log', i = n
        PROVE  PassedDedup(i)' <=> (~b /\ ~DedupHit(k, b))
    <3>1. log'[i].blocked = b
      BY <1>3, <2>2 DEF e
    <3>2. fate'[i] # "suppressed" <=> ~DedupHit(k, b)
      BY <1>9, <2>2
    <3> QED
      BY <3>1, <3>2 DEF PassedDedup
  <2> QED
    BY <2>1, <2>2
<1>18. \A i \in DOMAIN log : /\ log[i] \in Event /\ log[i].key \in Keys
                             /\ log[i].time \in 1..now /\ log[i].boot <= boot
  <2>1. \A i \in DOMAIN log : log[i] \in Event
    BY <1>2
  <2> QED
    BY <2>1 DEF IInv, Stamps, Event
<1>19. /\ e.key = k /\ e.time = now /\ e.boot = boot /\ e.blocked = b
  BY DEF e
<1>20. ASSUME NEW i \in DOMAIN log, PassedDedup(i), log[i].boot = boot
       PROVE  \/ dedup[log[i].key] >= log[i].time
              \/ now - log[i].time >= DedupWindow
  BY <1>1, <1>20 DEF IInv, Stamps
<1>21. Stamps'
  <2>1. \A i \in DOMAIN log' : log'[i].time \in 1..now' /\ log'[i].boot <= boot'
    BY <1>1, <1>2, <1>3, <1>18, <1>19
  <2>2. \A j \in Keys : dedup'[j] <= now'
    <3>1. \A j \in Keys : dedup[j] <= now
      BY DEF IInv, Stamps
    <3> QED
      BY <1>1, <1>6, <1>11, <3>1
  <2>3. ASSUME NEW i \in DOMAIN log', PassedDedup(i)', log'[i].boot = boot'
        PROVE  \/ dedup'[log'[i].key] >= log'[i].time
               \/ now' - log'[i].time >= DedupWindow
    <3>1. CASE i = n
      <4>1. log'[i].key = k /\ log'[i].time = now /\ ~b /\ ~DedupHit(k, b)
        BY <1>3, <1>17, <1>19, <2>3, <3>1
      <4>2. CASE DedupWindow = 0
        BY <1>1, <1>6, <4>1, <4>2
      <4>3. CASE DedupWindow > 0
        BY <1>1, <1>6, <1>11, <4>1, <4>3
      <4> QED
        BY <1>6, <4>2, <4>3
    <3>2. CASE i \in DOMAIN log
      <4>1. PassedDedup(i) /\ log[i].boot = boot /\ log'[i] = log[i] /\ log[i].key \in Keys
            /\ log[i].time \in 1..now
        BY <1>1, <1>3, <1>17, <1>18, <2>3, <3>2
      <4>2. dedup[log[i].key] >= log[i].time \/ now - log[i].time >= DedupWindow
        BY <1>20, <3>2, <4>1
      <4>3. \/ dedup'[log[i].key] = now
            \/ dedup'[log[i].key] = dedup[log[i].key]
            \/ dedup'[log[i].key] = 0 /\ now - dedup[log[i].key] >= DedupWindow
        BY <1>11, <4>1
      <4>4. dedup[log[i].key] \in Nat
        BY <1>2, <4>1
      <4>5. \/ dedup'[log[i].key] >= log[i].time
            \/ now - log[i].time >= DedupWindow
        BY <1>6, <4>1, <4>2, <4>3, <4>4
      <4> QED
        BY <1>1, <4>1, <4>5
    <3> QED
      BY <1>3, <3>1, <3>2
  <2> QED
    BY <2>1, <2>2, <2>3 DEF Stamps
<1>22. DedupWindowRespected'
  <2> SUFFICES ASSUME NEW i \in DOMAIN log', NEW j \in DOMAIN log', i < j,
                      PassedDedup(i)', PassedDedup(j)',
                      log'[i].key = log'[j].key, log'[i].boot = log'[j].boot
               PROVE  log'[j].time - log'[i].time >= DedupWindow
    BY DEF DedupWindowRespected
  <2>1. CASE j \in DOMAIN log
    <3>1. i \in DOMAIN log
      BY <1>3, <2>1
    <3> QED
      BY <1>3, <1>17, <2>1, <3>1 DEF IInv, DedupWindowRespected
  <2>2. CASE j = n
    <3>1. i \in DOMAIN log
      BY <1>3, <2>2
    <3>2. /\ PassedDedup(i) /\ log[i].boot = boot /\ log[i].key = k
          /\ log[i].time \in 1..now /\ ~b /\ ~DedupHit(k, b)
      <4>1. PassedDedup(i) /\ log'[i] = log[i] /\ log[i].time \in 1..now
        BY <1>3, <1>17, <1>18, <3>1
      <4>2. ~b /\ ~DedupHit(k, b) /\ log'[i].key = log'[n].key /\ log'[i].boot = log'[n].boot
        BY <1>17, <2>2
      <4>3. log'[n].key = k /\ log'[n].boot = boot
        BY <1>3, <1>19
      <4> QED
        BY <4>1, <4>2, <4>3
    <3>3. dedup[k] >= log[i].time \/ now - log[i].time >= DedupWindow
      BY <1>20, <3>1, <3>2
    <3>4. DedupWindow = 0 \/ dedup[k] = 0 \/ now - dedup[k] >= DedupWindow
      BY <1>2, <3>2 DEF DedupHit, Absent
    <3>5. now - log[i].time >= DedupWindow
      BY <1>2, <3>2, <3>3, <3>4
    <3> QED
      BY <1>3, <1>19, <2>2, <3>1, <3>5
  <2> QED
    BY <1>3, <2>1, <2>2
<1>23. StoredAtMostOnce'
  BY <1>1 DEF IInv, StoredAtMostOnce
<1>24. AckedWasStored'
  BY <1>1, <1>4, <1>8, <1>9 DEF IInv, AckedWasStored
<1> QED
  BY <1>12, <1>13, <1>14, <1>15, <1>16, <1>21, <1>22, <1>23, <1>24 DEF IInv

-----------------------------------------------------------------------------
(* The inductive invariant holds in every reachable state of Reporter.     *)
THEOREM Invariance == Spec => []IInv
<1>1. Init => IInv
  BY InitIInv
<1>2. IInv /\ [Next]_vars => IInv'
  BY ReportIInv, ReceiveIInv, TickIInv, DoneIInv, PostIInv, ConsoleStoresIInv,
     RequestLostIInv, CloseIInv, DieIInv, RestartIInv, ElapseIInv, StutterIInv DEF Next
<1> QED
  BY <1>1, <1>2, PTL DEF Spec

(* Every variable keeps its type; the channel never exceeds its capacity   *)
(* and a batch is posted before it exceeds its size (report.go:51, 153).   *)
THEOREM TypeCorrect == Spec => []TypeOK
<1>1. IInv => TypeOK
  BY DEF IInv
<1> QED
  BY <1>1, Invariance, PTL

(* No event is lost from sight, duplicated or overtaken inside the process *)
(* (report.go:100-105, 137-159).                                           *)
THEOREM EventsConserved == Spec => []Conservation
<1>1. IInv => Conservation
  BY DEF IInv
<1> QED
  BY <1>1, Invariance, PTL

(* The Console stores no event twice, whatever the network delays.         *)
THEOREM StoredOnce == Spec => []StoredAtMostOnce
<1>1. IInv => StoredAtMostOnce
  BY DEF IInv
<1> QED
  BY <1>1, Invariance, PTL

(* What the program logs as delivered is stored (report.go:180-184).       *)
THEOREM AcksAreHonest == Spec => []AckedWasStored
<1>1. IInv => AckedWasStored
  BY DEF IInv
<1> QED
  BY <1>1, Invariance, PTL

(* Two events of a key that pass the suppression of one process are a full *)
(* window apart, however small the map (report.go:79, 119-129).            *)
THEOREM RepeatsAreApart == Spec => []DedupWindowRespected
<1>1. IInv => DedupWindowRespected
  BY DEF IInv
<1> QED
  BY <1>1, Invariance, PTL

(* A loop that returned in a living process has posted its partial batch.  *)
THEOREM StopFlushes == Spec => []FlushedOnStop
<1>1. IInv => FlushedOnStop
  BY DEF IInv, Stages, FlushedOnStop
<1> QED
  BY <1>1, Invariance, PTL

-----------------------------------------------------------------------------
(* The causes of suppression.  Every stamp in the map is the time at which *)
(* an event of its key was let through in this process, which is what      *)
(* makes SuppressionHasCause inductive.                                    *)
StampedBy(k, j) ==
  PassedDedup(j) /\ log[j].key = k /\ log[j].boot = boot /\ log[j].time = dedup[k]

Causes ==
  /\ SuppressionHasCause
  /\ up \/ \A k \in Keys : dedup[k] = Absent
  /\ \A k \in Keys : dedup[k] # Absent => \E j \in DOMAIN log : StampedBy(k, j)

(* Nothing but Report suppresses, and what was suppressed stays so. *)
LEMMA MarkSettled ==
  ASSUME IInv, NEW S, S \subseteq IdsIn(pipeline), NEW f \in Fates \ {"suppressed"},
         fate' = Mark(S, f)
  PROVE  \A i \in Ids : fate'[i] = "suppressed" <=> fate[i] = "suppressed"
<1>1. \A i \in S : i \in Ids /\ fate[i] = "live"
  BY PipelineParts
<1> QED
  BY <1>1 DEF Mark

LEMMA CausesKept ==
  ASSUME IInv, Causes, log' = log,
         \A i \in Ids : fate'[i] = "suppressed" <=> fate[i] = "suppressed",
         \/ UNCHANGED <<boot, up, dedup>>
         \/ dedup' = [k \in Keys |-> Absent]
  PROVE  Causes'
<1>1. DOMAIN log \subseteq Ids
  BY ReporterAssumption DEF ReporterAssumption, IInv, TypeOK, Ids
<1>2. \A i \in DOMAIN log : PassedDedup(i)' <=> PassedDedup(i)
  BY <1>1 DEF PassedDedup
<1>3. SuppressionHasCause'
  <2> SUFFICES ASSUME NEW i \in DOMAIN log', fate'[i] = "suppressed"
               PROVE  /\ ~log'[i].blocked
                      /\ \E j \in 1..(i - 1) :
                           /\ PassedDedup(j)'
                           /\ log'[j].key = log'[i].key /\ log'[j].boot = log'[i].boot
                           /\ log'[i].time - log'[j].time < DedupWindow
    BY DEF SuppressionHasCause
  <2>1. i \in DOMAIN log /\ fate[i] = "suppressed"
    BY <1>1
  <2>2. ~log[i].blocked
    BY <2>1 DEF Causes, SuppressionHasCause
  <2>3. PICK j \in 1..(i - 1) :
          /\ PassedDedup(j)
          /\ log[j].key = log[i].key /\ log[j].boot = log[i].boot
          /\ log[i].time - log[j].time < DedupWindow
    BY <2>1 DEF Causes, SuppressionHasCause
  <2>4. PassedDedup(j)'
    BY <1>2, <2>3 DEF PassedDedup
  <2> QED
    BY <2>2, <2>3, <2>4
<1>4. CASE UNCHANGED <<boot, up, dedup>>
  <2>1. up' \/ \A k \in Keys : dedup'[k] = Absent
    BY <1>4 DEF Causes
  <2>2. ASSUME NEW k \in Keys, dedup'[k] # Absent
        PROVE  \E j \in DOMAIN log' : StampedBy(k, j)'
    <3>1. PICK j \in DOMAIN log : StampedBy(k, j)
      BY <1>4, <2>2 DEF Causes
    <3>2. StampedBy(k, j)'
      BY <1>2, <1>4, <3>1 DEF StampedBy
    <3> QED
      BY <3>1, <3>2
  <2> QED
    BY <1>3, <2>1, <2>2 DEF Causes
<1>5. CASE dedup' = [k \in Keys |-> Absent]
  BY <1>3, <1>5 DEF Causes
<1> QED
  BY <1>4, <1>5

LEMMA ReportCauses ==
  ASSUME IInv, Causes, NEW k \in Keys, NEW b \in BOOLEAN, Report(k, b)
  PROVE  Causes'
<1> DEFINE n == Len(log) + 1
           e == [key |-> k, blocked |-> b, time |-> now, boot |-> boot]
<1>1. up /\ Len(log) < MaxEvents /\ log' = Append(log, e) /\ UNCHANGED <<now, boot, up>>
  BY DEF Report
<1>2. /\ log \in Seq(Event) /\ now \in Nat \ {0} /\ boot \in Nat /\ e \in Event
      /\ fate \in [Ids -> Fates] /\ dedup \in [Keys -> Nat] /\ DedupWindow \in Nat
  BY ReporterAssumption DEF ReporterAssumption, IInv, TypeOK, Event
<1>3. /\ DOMAIN log' = DOMAIN log \cup {n} /\ n \in Nat /\ log'[n] = e
      /\ \A i \in DOMAIN log : i \in 1..(n - 1) /\ log'[i] = log[i]
  <2> HIDE DEF e
  <2> QED
    BY <1>1, <1>2
<1>4. n \in Ids /\ n \notin DOMAIN log /\ DOMAIN log \subseteq Ids
  BY <1>1, <1>2, ReporterAssumption DEF ReporterAssumption, Ids
<1>5. /\ \E f \in {"suppressed", "live", "dropped"} :
           fate' = Mark({n}, f) /\ (f = "suppressed" <=> DedupHit(k, b))
      /\ DedupHit(k, b) => dedup' = dedup
      /\ ~DedupHit(k, b) => dedup' = IF b \/ DedupWindow = 0 THEN dedup ELSE Remember(k)
  BY DEF Report, Enqueue
<1>6. /\ \A i \in Ids : i # n => fate'[i] = fate[i]
      /\ fate'[n] = "suppressed" <=> DedupHit(k, b)
  BY <1>4, <1>5 DEF Mark
<1>7. \A j \in Keys : \/ dedup'[j] = now /\ j = k /\ ~b /\ ~DedupHit(k, b)
                      \/ dedup'[j] = dedup[j]
                      \/ dedup'[j] = Absent
  BY <1>2, <1>5, RememberMap DEF Absent
<1>8. e.key = k /\ e.blocked = b /\ e.time = now /\ e.boot = boot
  OBVIOUS
<1> HIDE DEF e, n
<1>9. ASSUME NEW i \in DOMAIN log, PassedDedup(i) PROVE PassedDedup(i)'
  <2>1. i \in DOMAIN log' /\ log'[i] = log[i] /\ fate'[i] = fate[i]
    BY <1>3, <1>4, <1>6
  <2> QED
    BY <1>9, <2>1 DEF PassedDedup
<1>10. SuppressionHasCause'
  <2> SUFFICES ASSUME NEW i \in DOMAIN log', fate'[i] = "suppressed"
               PROVE  /\ ~log'[i].blocked
                      /\ \E j \in 1..(i - 1) :
                           /\ PassedDedup(j)'
                           /\ log'[j].key = log'[i].key /\ log'[j].boot = log'[i].boot
                           /\ log'[i].time - log'[j].time < DedupWindow
    BY DEF SuppressionHasCause
  <2>1. CASE i \in DOMAIN log
    <3>1. fate[i] = "suppressed" /\ log'[i] = log[i] /\ i \in Nat
      BY <1>2, <1>3, <1>4, <1>6, <2>1
    <3>2. ~log[i].blocked
      BY <2>1, <3>1 DEF Causes, SuppressionHasCause
    <3>3. PICK j \in 1..(i - 1) :
            /\ PassedDedup(j)
            /\ log[j].key = log[i].key /\ log[j].boot = log[i].boot
            /\ log[i].time - log[j].time < DedupWindow
      BY <2>1, <3>1 DEF Causes, SuppressionHasCause
    <3>4. j \in DOMAIN log
      BY <3>3 DEF PassedDedup
    <3>5. PassedDedup(j)' /\ log'[j] = log[j]
      BY <1>3, <1>9, <3>3, <3>4
    <3> QED
      BY <3>1, <3>2, <3>3, <3>5
  <2>2. CASE i = n
    <3>1. ~b /\ dedup[k] # Absent /\ now - dedup[k] < DedupWindow
      BY <1>6, <2>2 DEF DedupHit
    <3>2. PICK j \in DOMAIN log : StampedBy(k, j)
      BY <3>1 DEF Causes
    <3>3. j \in 1..(n - 1) /\ log'[j] = log[j] /\ PassedDedup(j)'
      BY <1>3, <1>9, <3>2 DEF StampedBy
    <3>4. log'[j].key = k /\ log'[j].boot = boot /\ log'[j].time = dedup[k]
      BY <3>2, <3>3 DEF StampedBy
    <3>5. /\ ~log'[i].blocked /\ log'[i].key = k /\ log'[i].boot = boot /\ log'[i].time = now
      BY <1>3, <1>8, <2>2, <3>1
    <3> QED
      BY <2>2, <3>1, <3>3, <3>4, <3>5
  <2> QED
    BY <1>3, <2>1, <2>2
<1>11. ASSUME NEW c \in Keys, dedup'[c] # Absent
       PROVE  \E j \in DOMAIN log' : StampedBy(c, j)'
  <2>1. CASE dedup'[c] = now /\ c = k /\ ~b /\ ~DedupHit(k, b)
    <3>1. PICK m \in DOMAIN log' : m = n
      BY <1>3
    <3>2. log'[m].key = k /\ log'[m].blocked = b /\ log'[m].time = now /\ log'[m].boot = boot
      BY <1>3, <1>8, <3>1
    <3>3. fate'[m] # "suppressed"
      BY <1>6, <2>1, <3>1
    <3>4. PassedDedup(m)'
      BY <2>1, <3>2, <3>3 DEF PassedDedup
    <3>5. StampedBy(c, m)'
      BY <1>1, <2>1, <3>2, <3>4 DEF StampedBy
    <3> QED
      BY <3>5
  <2>2. CASE dedup'[c] = dedup[c]
    <3>1. PICK j \in DOMAIN log : StampedBy(c, j)
      BY <1>11, <2>2 DEF Causes
    <3>2. j \in DOMAIN log' /\ log'[j] = log[j] /\ PassedDedup(j)'
      BY <1>3, <1>9, <3>1 DEF StampedBy
    <3>3. StampedBy(c, j)'
      BY <1>1, <2>2, <3>1, <3>2 DEF StampedBy
    <3> QED
      BY <3>2, <3>3
  <2> QED
    BY <1>7, <1>11, <2>1, <2>2
<1> QED
  BY <1>1, <1>10, <1>11 DEF Causes

LEMMA OtherCauses ==
  ASSUME IInv, Causes,
         \/ Receive \/ Tick \/ Done \/ PostOk \/ PostErr
         \/ \E b \in wire : ConsoleStores(b) \/ RequestLost(b)
         \/ Close \/ Die \/ Restart \/ Elapse \/ UNCHANGED vars
  PROVE  Causes'
<1>1. CASE Receive \/ Tick \/ Done \/ Close \/ Elapse \/ UNCHANGED vars
           \/ \E b \in wire : ConsoleStores(b) \/ RequestLost(b)
  <2>1. UNCHANGED <<log, fate, boot, up, dedup>>
    BY <1>1 DEF Receive, Tick, Done, Close, Elapse, vars, pvars, ConsoleStores, RequestLost
  <2> QED
    BY <2>1, CausesKept
<1>2. CASE PostOk \/ PostErr
  <2>1. UNCHANGED <<log, boot, up, dedup>>
        /\ \E f \in {"acked", "failed"} : fate' = Mark(IdsIn(inflight), f)
    BY <1>2 DEF PostOk, PostErr, PostReturns
  <2>2. PICK f \in {"acked", "failed"} : fate' = Mark(IdsIn(inflight), f)
    BY <2>1
  <2>3. IdsIn(inflight) \subseteq IdsIn(pipeline) /\ f \in Fates \ {"suppressed"}
    BY PipelineParts DEF Fates
  <2>4. \A i \in Ids : fate'[i] = "suppressed" <=> fate[i] = "suppressed"
    BY <2>2, <2>3, MarkSettled
  <2> QED
    BY <2>1, <2>4, CausesKept
<1>3. CASE Die
  <2>1. log' = log /\ dedup' = [k \in Keys |-> Absent] /\ fate' = Mark(IdsIn(pipeline), "lost")
    BY <1>3 DEF Die
  <2>2. "lost" \in Fates \ {"suppressed"}
    BY DEF Fates
  <2>3. \A i \in Ids : fate'[i] = "suppressed" <=> fate[i] = "suppressed"
    BY <2>1, <2>2, MarkSettled
  <2> QED
    BY <2>1, <2>3, CausesKept
<1>4. CASE Restart
  <2>1. log' = log /\ fate' = fate /\ dedup' = dedup /\ ~up
    BY <1>4 DEF Restart
  <2>2. dedup' = [k \in Keys |-> Absent]
    <3>1. dedup \in [Keys -> Nat] /\ \A k \in Keys : dedup[k] = Absent
      BY <2>1 DEF IInv, TypeOK, Causes
    <3> QED
      BY <2>1, <3>1
  <2> QED
    BY <2>1, <2>2, CausesKept
<1> QED
  BY <1>1, <1>2, <1>3, <1>4

(* Only repeats are suppressed: each has a cause in the same process and   *)
(* window, whatever the size of the map (report.go:119-123).               *)
THEOREM OnlyRepeatsSuppressed == Spec => []SuppressionHasCause
<1>1. Init => Causes
  BY DEF Init, Causes, SuppressionHasCause
<1>2. IInv /\ Causes /\ [Next]_vars => Causes'
  BY ReportCauses, OtherCauses DEF Next
<1>3. Causes => SuppressionHasCause
  BY DEF Causes
<1> QED
  BY <1>1, <1>2, <1>3, Invariance, PTL DEF Spec

-----------------------------------------------------------------------------
(* Refinement: every step of Reporter is a step of LossyUpload or leaves   *)
(* what LossyUpload sees unchanged.                                        *)
Pending == IdsIn(queue) \cup IdsIn(batch) \cup UNION wire

LEMMA InitRefines == Init => Upload!UInit
<1> SUFFICES ASSUME Init PROVE Upload!UInit
  OBVIOUS
<1>1. /\ log = <<>> /\ IdsIn(queue) = {} /\ IdsIn(batch) = {} /\ wire = {}
      /\ \A i \in Ids : stored[i] = 0
  BY IdsInEmpty DEF Init
<1>2. DOMAIN log = {} /\ IdsIn(queue) \cup IdsIn(batch) \cup UNION wire = {}
  BY <1>1
<1>3. {i \in Ids : stored[i] > 0} = {}
  BY <1>1
<1> QED
  BY <1>2, <1>3 DEF Upload!UInit

LEMMA Invisible ==
  ASSUME log' = log, Pending' = Pending, stored' = stored
  PROVE  UNCHANGED Upload!uvars
BY DEF Upload!uvars, Pending

LEMMA ReportRefines ==
  ASSUME IInv, NEW k \in Keys, NEW b \in BOOLEAN, Report(k, b)
  PROVE  Upload!UNext
<1>1. PICK n : n = Len(log) + 1
  OBVIOUS
<1>2. /\ Len(log) < MaxEvents /\ DOMAIN log' = DOMAIN log \cup {n}
      /\ UNCHANGED <<batch, wire, stored>>
  BY <1>1 DEF Report, IInv, TypeOK
<1>3. n \in Ids /\ n \notin DOMAIN log
  BY <1>1, <1>2, ReporterAssumption DEF ReporterAssumption, IInv, TypeOK, Ids
<1>4. queue' = queue \/ queue' = Append(queue, n)
  BY <1>1 DEF Report, Enqueue
<1>5. IdsIn(queue') = IdsIn(queue) \/ IdsIn(queue') = IdsIn(queue) \cup {n}
  BY <1>3, <1>4, IdsInAppend DEF IInv, TypeOK
<1>6. Pending' = Pending \/ Pending' = Pending \cup {n}
  BY <1>2, <1>5 DEF Pending
<1>7. Upload!Offer(n)
  BY <1>2, <1>3, <1>6 DEF Upload!Offer, Pending
<1> QED
  BY <1>3, <1>7 DEF Upload!UNext

LEMMA FlushPending ==
  ASSUME NEW b \in Seq(Ids), NEW next, Flush(b, next)
  PROVE  IdsIn(batch') \cup UNION wire' = IdsIn(b) \cup UNION wire
<1>1. IdsIn(batch') = {} /\ wire' = wire \cup {IdsIn(b)}
  BY IdsInEmpty DEF Flush
<1>2. UNION wire' = (UNION wire) \cup IdsIn(b)
  BY <1>1, UnionAdd
<1> QED
  BY <1>1, <1>2

LEMMA LoopRefines == IInv /\ (Receive \/ Tick \/ Done) => UNCHANGED Upload!uvars
<1> SUFFICES ASSUME IInv, Receive \/ Tick \/ Done PROVE UNCHANGED Upload!uvars
  OBVIOUS
<1>1. queue \in Seq(Ids) /\ batch \in Seq(Ids)
  BY DEF IInv, TypeOK
<1>2. CASE Receive
  <2> DEFINE b == Append(batch, Head(queue))
  <2>1. /\ queue # <<>> /\ queue' = Tail(queue) /\ UNCHANGED <<stored, log>>
        /\ Flush(b, "posting") \/ (batch' = b /\ wire' = wire)
    BY <1>2 DEF Receive
  <2>2. Head(queue) \in Ids /\ IdsIn(queue) = {Head(queue)} \cup IdsIn(queue')
    BY <1>1, <2>1, HeadTail
  <2>3. b \in Seq(Ids) /\ IdsIn(b) = IdsIn(batch) \cup {Head(queue)}
    BY <1>1, <2>2, IdsInAppend
  <2>4. IdsIn(batch') \cup UNION wire' = IdsIn(b) \cup UNION wire
    BY <2>1, <2>3, FlushPending
  <2> HIDE DEF b
  <2>5. Pending' = Pending
    BY <2>2, <2>3, <2>4 DEF Pending
  <2> QED
    BY <2>1, <2>5, Invisible
<1>3. CASE Tick \/ Done
  <2>1. /\ UNCHANGED <<queue, stored, log>>
        /\ \/ Flush(batch, "posting") \/ Flush(batch, "closing")
           \/ UNCHANGED <<batch, wire>>
    BY <1>3 DEF Tick, Done
  <2>2. IdsIn(batch') \cup UNION wire' = IdsIn(batch) \cup UNION wire
    BY <1>1, <2>1, FlushPending
  <2>3. Pending' = Pending
    BY <2>1, <2>2 DEF Pending
  <2> QED
    BY <2>1, <2>3, Invisible
<1> QED
  BY <1>2, <1>3

LEMMA ConsoleStoresRefines ==
  ASSUME IInv, NEW b \in wire, ConsoleStores(b)
  PROVE  Upload!UNext
<1>1. /\ wire' = wire \ {b} /\ UNCHANGED <<queue, batch, log>>
      /\ stored' = [i \in Ids |-> IF i \in b THEN stored[i] + 1 ELSE stored[i]]
  BY DEF ConsoleStores
<1>2. \A c \in wire : b = c \/ b \cap c = {}
  BY DEF IInv, Outbound
<1>3. UNION wire' = (UNION wire) \ b
  BY <1>1, <1>2
<1>4. b \cap (IdsIn(batch) \cup IdsIn(queue)) = {}
  BY DEF IInv, Outbound
<1>5. Pending' = Pending \ b /\ b \subseteq Pending
  BY <1>1, <1>3, <1>4 DEF Pending
<1>6. b \subseteq Ids /\ \A i \in Ids : stored[i] \in Nat
  <2>1. wire \in SUBSET (SUBSET Ids) /\ stored \in [Ids -> Nat]
    BY DEF IInv, TypeOK
  <2> QED
    BY <2>1
<1>7. \A i \in Ids : stored'[i] > 0 <=> (i \in b \/ stored[i] > 0)
  BY <1>1, <1>6
<1>8. {i \in Ids : stored'[i] > 0} = {i \in Ids : stored[i] > 0} \cup b
  BY <1>6, <1>7
<1>9. Upload!Store(b)
  BY <1>1, <1>5, <1>8 DEF Upload!Store, Pending
<1> QED
  BY <1>5, <1>9 DEF Upload!UNext, Pending

LEMMA RequestLostRefines ==
  ASSUME IInv, NEW b \in wire, RequestLost(b)
  PROVE  Upload!UNext
<1>1. wire' = wire \ {b} /\ UNCHANGED <<queue, batch, log, stored>>
  BY DEF RequestLost
<1>2. \A c \in wire : b = c \/ b \cap c = {}
  BY DEF IInv, Outbound
<1>3. UNION wire' = (UNION wire) \ b
  BY <1>1, <1>2
<1>4. b \cap (IdsIn(batch) \cup IdsIn(queue)) = {}
  BY DEF IInv, Outbound
<1>5. Pending' = Pending \ b /\ b \subseteq Pending
  BY <1>1, <1>3, <1>4 DEF Pending
<1>6. Upload!Lose(b)
  BY <1>1, <1>5 DEF Upload!Lose, Pending
<1> QED
  BY <1>5, <1>6 DEF Upload!UNext, Pending

LEMMA DieRefines == IInv /\ Die => Upload!UNext
<1> SUFFICES ASSUME IInv, Die PROVE Upload!UNext
  OBVIOUS
<1>1. PICK B : B = IdsIn(queue) \cup IdsIn(batch)
  OBVIOUS
<1>2. IdsIn(queue') = {} /\ IdsIn(batch') = {} /\ UNCHANGED <<wire, stored, log>>
  BY IdsInEmpty DEF Die
<1>3. B \cap UNION wire = {}
  BY <1>1 DEF IInv, Outbound
<1>4. Pending' = Pending \ B /\ B \subseteq Pending
  BY <1>1, <1>2, <1>3 DEF Pending
<1>5. Upload!Lose(B)
  BY <1>2, <1>4 DEF Upload!Lose, Pending
<1> QED
  BY <1>4, <1>5 DEF Upload!UNext, Pending

LEMMA OthersRefine ==
  PostOk \/ PostErr \/ Close \/ Restart \/ Elapse \/ UNCHANGED vars
  => UNCHANGED Upload!uvars
<1> SUFFICES ASSUME PostOk \/ PostErr \/ Close \/ Restart \/ Elapse \/ UNCHANGED vars
             PROVE  UNCHANGED Upload!uvars
  OBVIOUS
<1>1. UNCHANGED <<queue, batch, wire, stored, log>>
  BY DEF PostOk, PostErr, PostReturns, Close, Restart, Elapse, pvars, vars
<1> QED
  BY <1>1, Invisible DEF Pending, IdsIn

(* The bounded queue, the batches, the HTTP requests, their timeouts and   *)
(* the restarts together are a channel that may refuse or lose an event    *)
(* but delivers none twice and none it lost.                               *)
THEOREM Refinement == Spec => ImplementsUpload
<1>1. Init => Upload!UInit
  BY InitRefines
<1>2. IInv /\ [Next]_vars => [Upload!UNext]_(Upload!uvars)
  <2> SUFFICES ASSUME IInv, [Next]_vars PROVE Upload!UNext \/ UNCHANGED Upload!uvars
    OBVIOUS
  <2>1. CASE \E k \in Keys, b \in BOOLEAN : Report(k, b)
    BY <2>1, ReportRefines
  <2>2. CASE Receive \/ Tick \/ Done
    BY <2>2, LoopRefines
  <2>3. CASE \E b \in wire : ConsoleStores(b) \/ RequestLost(b)
    BY <2>3, ConsoleStoresRefines, RequestLostRefines
  <2>4. CASE Die
    BY <2>4, DieRefines
  <2>5. CASE PostOk \/ PostErr \/ Close \/ Restart \/ Elapse \/ UNCHANGED vars
    BY <2>5, OthersRefine
  <2> QED
    BY <2>1, <2>2, <2>3, <2>4, <2>5 DEF Next
<1> QED
  BY <1>1, <1>2, Invariance, PTL DEF Spec, ImplementsUpload, Upload!USpec
=============================================================================
