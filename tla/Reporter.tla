------------------------------ MODULE Reporter ------------------------------
(***************************************************************************)
(* bypass-guard/report.go: the capture goroutine hands events to Report,   *)
(* which suppresses repeats, and puts the rest on a bounded channel; the   *)
(* sendLoop goroutine gathers them into batches and posts each batch to    *)
(* the Console over HTTP, once, with an 8 second client timeout.           *)
(*                                                                         *)
(* An event is its position in `log`, the history of all calls of Report;  *)
(* queue, batch and inflight hold positions.  Nothing is persisted: when   *)
(* the process dies everything but the requests already on the network is  *)
(* gone, and systemd starts a new process with empty tables.               *)
(***************************************************************************)
EXTENDS Naturals, Sequences, FiniteSets

CONSTANTS
  Keys,        \* the (protocol, domain, source IP) triples seen in traffic
  QueueSize,   \* reportQueueSize (4096)
  BatchSize,   \* events per request (20)
  DedupWindow, \* ReportDedupSeconds in clock ticks, 0 turns suppression off
  DedupLimit,  \* size of the dedup map that triggers its cleanup (4096)
  MaxEvents,   \* bound: calls of Report in a behaviour
  MaxTime,     \* bound: last clock tick
  MaxBoots     \* bound: number of times the process is started

ASSUME ReporterAssumption ==
  /\ QueueSize \in Nat /\ BatchSize \in Nat \ {0}
  /\ DedupWindow \in Nat /\ DedupLimit \in Nat
  /\ MaxEvents \in Nat /\ MaxTime \in Nat /\ MaxBoots \in Nat

VARIABLES
  now,      \* clock, starts at 1
  boot,     \* number of the current process
  up,       \* the process is running
  closed,   \* Reporter.Close was called: channel r.done is closed
  dedup,    \* key -> time it was last let through, Absent when not in the map
  queue,    \* channel r.queue
  batch,    \* local variable batch of sendLoop
  inflight, \* the events postBatch is posting
  pc,       \* where sendLoop is
  wire,     \* bodies of requests on the network the Console has not handled
  replied,  \* a 200/201 answer to the request in flight is under way
  stored,   \* event -> how often the Console stored it
  log,      \* history: every event given to Report
  fate      \* history: what became of each event

pvars == <<dedup, queue, batch, inflight, pc>>
vars == <<now, boot, up, closed, dedup, queue, batch, inflight, pc, wire,
          replied, stored, log, fate>>

Ids == 1..MaxEvents
Absent == 0
Event == [key : Keys, blocked : BOOLEAN, time : Nat, boot : Nat]
Fates == {"none", "suppressed", "dropped", "live", "acked", "failed", "lost"}
IdsIn(s) == {s[i] : i \in DOMAIN s}

(* The events of the process on their way out, oldest first. *)
pipeline == inflight \o batch \o queue

(* fate with the events of S moved to f *)
Mark(S, f) == [i \in Ids |-> IF i \in S THEN f ELSE fate[i]]

Init ==
  /\ now = 1 /\ boot = 1 /\ up = TRUE /\ closed = FALSE
  /\ dedup = [k \in Keys |-> Absent]
  /\ queue = <<>> /\ batch = <<>> /\ inflight = <<>> /\ pc = "select"
  /\ wire = {} /\ replied = FALSE
  /\ stored = [i \in Ids |-> 0]
  /\ log = <<>> /\ fate = [i \in Ids |-> "none"]

-----------------------------------------------------------------------------
(* Capture goroutine: Report.                                              *)

(* Fault: a key is suppressed for one tick more than the window. *)
DedupHitLate(k, b) ==
  /\ ~b /\ DedupWindow > 0
  /\ dedup[k] # Absent /\ now - dedup[k] <= DedupWindow

(* dedupHit's verdict.  The map is consulted for unblocked events only. *)
DedupHit(k, b) ==
  /\ ~b /\ DedupWindow > 0
  /\ dedup[k] # Absent /\ now - dedup[k] < DedupWindow

(* Fault: the cleanup empties the map instead of dropping expired keys. *)
RememberForgetsAll(k) ==
  LET marked == [dedup EXCEPT ![k] = now] IN
  IF Cardinality({j \in Keys : marked[j] # Absent}) > DedupLimit
  THEN [j \in Keys |-> Absent]
  ELSE marked

(* dedupHit on a miss: the key is stamped, and an oversized map is rid of *)
(* its expired keys.                                                      *)
Remember(k) ==
  LET marked == [dedup EXCEPT ![k] = now] IN
  IF Cardinality({j \in Keys : marked[j] # Absent}) > DedupLimit
  THEN [j \in Keys |-> IF now - marked[j] >= DedupWindow THEN Absent
                                                         ELSE marked[j]]
  ELSE marked

(* Fault: the send on the channel is taken to succeed although it is full. *)
EnqueueUnbounded(i) == queue' = Append(queue, i) /\ fate' = Mark({i}, "live")

(* select { case r.queue <- body: default: bypassDropped.Inc() } *)
Enqueue(i) ==
  \/ /\ Len(queue) < QueueSize
     /\ queue' = Append(queue, i)
     /\ fate' = Mark({i}, "live")
  \/ /\ Len(queue) >= QueueSize
     /\ fate' = Mark({i}, "dropped")
     /\ UNCHANGED queue

Report(k, b) ==
  /\ up /\ Len(log) < MaxEvents
  /\ log' = Append(log, [key |-> k, blocked |-> b, time |-> now, boot |-> boot])
  /\ IF DedupHit(k, b)
     THEN /\ fate' = Mark({Len(log) + 1}, "suppressed")
          /\ UNCHANGED <<dedup, queue>>
     ELSE /\ dedup' = IF b \/ DedupWindow = 0 THEN dedup ELSE Remember(k)
          /\ Enqueue(Len(log) + 1)
  /\ UNCHANGED <<now, boot, up, closed, batch, inflight, pc, wire, replied, stored>>

-----------------------------------------------------------------------------
(* sendLoop goroutine.                                                     *)

(* Fault: the slice handed to postBatch is not replaced by a fresh one. *)
FlushKeepsBatch(b, next) ==
  /\ batch' = b /\ inflight' = b /\ wire' = wire \cup {IdsIn(b)} /\ pc' = next

(* flush: the batch b becomes the body of a request; sendLoop waits for   *)
(* its outcome and goes on at next.                                       *)
Flush(b, next) ==
  /\ batch' = <<>> /\ inflight' = b /\ wire' = wire \cup {IdsIn(b)} /\ pc' = next

Receive ==
  /\ up /\ pc = "select" /\ queue # <<>>
  /\ queue' = Tail(queue)
  /\ LET b == Append(batch, Head(queue)) IN
       IF Len(b) >= BatchSize
       THEN Flush(b, "posting")
       ELSE batch' = b /\ UNCHANGED <<inflight, wire, pc>>
  /\ UNCHANGED <<now, boot, up, closed, dedup, replied, stored, log, fate>>

(* Fault: the ticker case of the select is missing its flush. *)
TickNoFlush == FALSE /\ UNCHANGED vars

(* The 5 second ticker; with an empty batch the flush is a no-op. *)
Tick ==
  /\ up /\ pc = "select" /\ batch # <<>>
  /\ Flush(batch, "posting")
  /\ UNCHANGED <<now, boot, up, closed, dedup, queue, replied, stored, log, fate>>

(* Fault: the loop returns on done without the final flush. *)
DoneNoFlush ==
  /\ up /\ pc = "select" /\ closed
  /\ pc' = "stopped"
  /\ UNCHANGED <<now, boot, up, closed, dedup, queue, batch, inflight, wire,
                 replied, stored, log, fate>>

(* case <-r.done: the current batch is flushed, then the loop returns.    *)
(* What is still in the channel stays there.                              *)
Done ==
  /\ up /\ pc = "select" /\ closed
  /\ IF batch # <<>> THEN Flush(batch, "closing")
                     ELSE pc' = "stopped" /\ UNCHANGED <<batch, inflight, wire>>
  /\ UNCHANGED <<now, boot, up, closed, dedup, queue, replied, stored, log, fate>>

(* postBatch returns, the outcome of its events being f. *)
PostReturns(f) ==
  /\ up /\ pc \in {"posting", "closing"}
  /\ inflight' = <<>> /\ replied' = FALSE
  /\ fate' = Mark(IdsIn(inflight), f)
  /\ pc' = IF pc = "posting" THEN "select" ELSE "stopped"
  /\ UNCHANGED <<now, boot, up, closed, dedup, queue, batch, wire, stored, log>>

(* Fault: the status code of the answer is not looked at. *)
PostOkUnchecked == PostReturns("acked")

PostOk == replied /\ PostReturns("acked")

(* Fault: a failed batch is put back for another attempt. *)
PostErrRetries ==
  /\ up /\ pc \in {"posting", "closing"}
  /\ batch' = inflight \o batch
  /\ inflight' = <<>> /\ replied' = FALSE
  /\ pc' = IF pc = "posting" THEN "select" ELSE "stopped"
  /\ UNCHANGED <<now, boot, up, closed, dedup, queue, wire, stored, log, fate>>

(* No connection, another status, or 8 seconds without an answer: also    *)
(* when the Console has stored the events or is yet to do so.  The events *)
(* are logged and forgotten.                                              *)
PostErr == PostReturns("failed")

-----------------------------------------------------------------------------
(* Network and Console (outside the repository).                           *)

(* The Console stores the events of a request.  If its sender still waits *)
(* for it, an answer is on the way.                                       *)
ConsoleStores(b) ==
  /\ b \in wire
  /\ wire' = wire \ {b}
  /\ stored' = [i \in Ids |-> IF i \in b THEN stored[i] + 1 ELSE stored[i]]
  /\ replied' = (replied \/ (up /\ inflight # <<>> /\ b = IdsIn(inflight)))
  /\ UNCHANGED <<now, boot, up, closed, dedup, queue, batch, inflight, pc, log, fate>>

RequestLost(b) ==
  /\ b \in wire
  /\ wire' = wire \ {b}
  /\ UNCHANGED <<now, boot, up, closed, dedup, queue, batch, inflight, pc,
                 replied, stored, log, fate>>

-----------------------------------------------------------------------------
(* Process and clock.                                                      *)

Close ==
  /\ up /\ ~closed
  /\ closed' = TRUE
  /\ UNCHANGED <<now, boot, up, dedup, queue, batch, inflight, pc, wire, replied,
                 stored, log, fate>>

(* main returns after its deferred Close calls without waiting for        *)
(* sendLoop, or the process is killed.                                    *)
Die ==
  /\ up
  /\ up' = FALSE /\ closed' = FALSE
  /\ fate' = Mark(IdsIn(pipeline), "lost")
  /\ dedup' = [k \in Keys |-> Absent]
  /\ queue' = <<>> /\ batch' = <<>> /\ inflight' = <<>> /\ pc' = "stopped"
  /\ replied' = FALSE
  /\ UNCHANGED <<now, boot, wire, stored, log>>

(* NewReporter in a new process. *)
Restart ==
  /\ ~up /\ boot < MaxBoots
  /\ up' = TRUE /\ boot' = boot + 1 /\ pc' = "select"
  /\ UNCHANGED <<now, closed, dedup, queue, batch, inflight, wire, replied, stored, log, fate>>

Elapse ==
  /\ now < MaxTime
  /\ now' = now + 1
  /\ UNCHANGED <<boot, up, closed, pvars, wire, replied, stored, log, fate>>

Next ==
  \/ \E k \in Keys, b \in BOOLEAN : Report(k, b)
  \/ Receive \/ Tick \/ Done \/ PostOk \/ PostErr
  \/ \E b \in wire : ConsoleStores(b) \/ RequestLost(b)
  \/ Close \/ Die \/ Restart \/ Elapse

Spec == Init /\ [][Next]_vars

(* The goroutine is scheduled, the ticker fires, and the client timeout   *)
(* ends every post.  Neither the Console nor the network owes anything.   *)
Fairness == WF_vars(Receive) /\ WF_vars(Tick) /\ WF_vars(Done)
            /\ WF_vars(PostOk \/ PostErr)
FairSpec == Spec /\ Fairness

-----------------------------------------------------------------------------
(* Type invariant.  The channel never holds more than its capacity and a  *)
(* batch is posted the moment it is full (report.go:51, 153).             *)
TypeOK ==
  /\ now \in Nat \ {0} /\ boot \in Nat /\ up \in BOOLEAN /\ closed \in BOOLEAN
  /\ dedup \in [Keys -> Nat]
  /\ queue \in Seq(Ids) /\ Len(queue) <= QueueSize
  /\ batch \in Seq(Ids) /\ Len(batch) < BatchSize
  /\ inflight \in Seq(Ids) /\ Len(inflight) <= BatchSize
  /\ pc \in {"select", "posting", "closing", "stopped"}
  /\ wire \in SUBSET (SUBSET Ids) /\ replied \in BOOLEAN
  /\ stored \in [Ids -> Nat]
  /\ log \in Seq(Event) /\ Len(log) <= MaxEvents
  /\ fate \in [Ids -> Fates]

(* Conservation and order: an event that was let through and not yet      *)
(* settled is in exactly one place of the process, and the places hold    *)
(* the events in the order Report was called - through flushes, timeouts, *)
(* shutdown and crashes (report.go:100-105, 137-159).                     *)
Conservation ==
  /\ \A i, j \in DOMAIN pipeline : i < j => pipeline[i] < pipeline[j]
  /\ \A i \in Ids : fate[i] = "live" <=> i \in IdsIn(pipeline)

(* The Console never stores an event twice, although a request whose      *)
(* client gave up may still arrive: a failed batch is never sent again    *)
(* (report.go:174-178).                                                   *)
StoredAtMostOnce == \A i \in Ids : stored[i] <= 1

(* An event logged as delivered was stored (report.go:180-184). *)
AckedWasStored == \A i \in Ids : fate[i] = "acked" => stored[i] > 0

(* Within one process, two unblocked events of a key that both pass the   *)
(* suppression are a full window apart, cleanups of the map included      *)
(* (report.go:79, 119-129).                                               *)
PassedDedup(i) ==
  i \in DOMAIN log /\ ~log[i].blocked /\ fate[i] # "suppressed"
DedupWindowRespected ==
  \A i, j \in DOMAIN log :
    (/\ i < j /\ PassedDedup(i) /\ PassedDedup(j)
     /\ log[i].key = log[j].key /\ log[i].boot = log[j].boot)
    => log[j].time - log[i].time >= DedupWindow

(* Suppression hides repeats only: within the window before a suppressed  *)
(* event the same process let an event of its key through.  A chain of    *)
(* suppressed events does not extend itself, and no state survives a      *)
(* restart (report.go:119-123).  The event let through may itself have    *)
(* found the channel full (report.go:79, 101).                            *)
SuppressionHasCause ==
  \A i \in DOMAIN log :
    fate[i] = "suppressed" =>
      /\ ~log[i].blocked
      /\ \E j \in 1..(i - 1) :
           /\ PassedDedup(j)
           /\ log[j].key = log[i].key /\ log[j].boot = log[i].boot
           /\ log[i].time - log[j].time < DedupWindow

(* When the loop has returned in a process still alive, its partial batch *)
(* was posted; only the channel may hold events (report.go:148-150).      *)
FlushedOnStop ==
  (up /\ pc = "stopped") => (batch = <<>> /\ inflight = <<>>)

(* The pipeline drains: with no further call of Report every event put on *)
(* the channel leaves the process, acknowledged or given up, even if none *)
(* follows to fill its batch, unless the process is closed or dies first  *)
(* (report.go:135, 156-157).                                              *)
EventsLeave == pipeline # <<>> ~> (pipeline = <<>> \/ closed \/ ~up)

(* The upload implements the abstract lossy channel. *)
Upload == INSTANCE LossyUpload WITH
  offered <- DOMAIN log,
  pending <- IdsIn(queue) \cup IdsIn(batch) \cup UNION wire,
  stored  <- {i \in Ids : stored[i] > 0}
ImplementsUpload == Upload!USpec

(* report.go:77-78 says of blocked events that they are always recorded   *)
(* and, being the security audit, cannot be lost.                         *)
BlockedEventsRecorded ==
  \A i \in DOMAIN log : log[i].blocked => fate[i] \notin {"dropped", "failed"}
=============================================================================
