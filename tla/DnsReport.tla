----------------------------- MODULE DnsReport -----------------------------
(***************************************************************************)
(* dns-collector/collector.py: the capture thread turns the DNS queries    *)
(* for AI domains that tshark prints into counters and into a window of    *)
(* aggregated events; the report thread empties the window every 15        *)
(* seconds and posts its events, with those of failed posts, to the        *)
(* Console.  A failed post leaves its events in a buffer of limited size,  *)
(* from which they are posted again: delivery is at least once.            *)
(*                                                                         *)
(* A query is its position in `log`.  Each lock section is one action.     *)
(***************************************************************************)
EXTENDS Naturals, Sequences, FiniteSets, Functions

CONSTANTS
  Domains,      \* the known domains match_category finds
  Policies,     \* what the Console says: [mode, enabled, authorized], the
                \* last being the known domains that is_authorized accepts
  PendingLimit, \* PENDING_LIMIT (500)
  MaxQueries,   \* bound: queries in a behaviour
  MaxPolicies,  \* bound: changes of the policy snapshot in a process
  MaxBoots      \* bound: starts of the process

ASSUME DnsReportAssumption ==
  /\ \A p \in Policies : p.enabled \in BOOLEAN /\ p.authorized \subseteq Domains
  /\ PendingLimit \in Nat \ {0} /\ MaxQueries \in Nat
  /\ MaxPolicies \in Nat /\ MaxBoots \in Nat

VARIABLES
  boot, up,  \* number of the process; it runs
  running,   \* DnsCapture.running: no SIGTERM yet
  snapshot, changes, \* the policy in force; how often it changed
  cpc, cur,  \* capture thread: where _process_line is, its query
  counters,  \* domain -> queries counted for /metrics
  window,    \* DnsCapture.window, in the order its keys were inserted
  pending,   \* DnsCapture.pending
  rpc,       \* report thread: where report_loop is
  events,    \* its local list of events
  request,   \* "sent", or "stored" once the Console handled it
  late,      \* bodies of requests given up that may still be handled
  stored,    \* events the Console has stored
  log,       \* history: the queries counted
  fate       \* history: what became of each query

reporting == <<rpc, events, request, late, stored>>
vars == <<boot, up, running, snapshot, changes, cpc, cur, counters, window,
          pending, reporting, log, fate>>

Ids == 1..MaxQueries
Statuses == {"blocked", "allowed"}
Query == [domain : Domains, status : Statuses]

(* time: number of queries counted when the event was made, for eventTime. *)
Event == [domain : Domains, status : Statuses, ids : SUBSET Ids, time : 0..MaxQueries]

DefaultPolicy == [mode |-> "monitoring", enabled |-> TRUE, authorized |-> {}]
NoQuery == [domain |-> "none", status |-> "none"]

IdsOf(s) == UNION {s[i].ids : i \in DOMAIN s}
Mark(S, f) == [i \in Ids |-> IF i \in S THEN f ELSE fate[i]]

Init ==
  /\ boot = 1 /\ up = TRUE /\ running = TRUE
  /\ snapshot = DefaultPolicy /\ changes = 0
  /\ cpc = "read" /\ cur = NoQuery
  /\ counters = [d \in Domains |-> 0]
  /\ window = <<>> /\ pending = <<>>
  /\ rpc = "sleep" /\ events = <<>> /\ request = "none" /\ late = {} /\ stored = {}
  /\ log = <<>> /\ fate = [i \in Ids |-> "none"]

-----------------------------------------------------------------------------
(* Policy thread: the lock section that installs a fetched policy.         *)
InstallPolicy(p) ==
  /\ up /\ changes < MaxPolicies
  /\ snapshot' = p /\ changes' = changes + 1
  /\ UNCHANGED <<boot, up, running, cpc, cur, counters, window, pending, reporting, log, fate>>

(* Capture thread: _process_line.                                          *)

Status(p, d) ==
  IF p.enabled /\ p.mode = "enforcement" /\ d \notin p.authorized
  THEN "blocked" ELSE "allowed"

(* The section under policy_lock. *)
Decide(d) ==
  /\ up /\ cpc = "read" /\ Len(log) < MaxQueries
  /\ cur' = [domain |-> d, status |-> Status(snapshot, d)]
  /\ cpc' = "count"
  /\ UNCHANGED <<boot, up, running, snapshot, changes, counters, window, pending,
                 reporting, log, fate>>

(* The entry of the window for the domain and status of q, with one more   *)
(* query.                                                                  *)
Added(q, i) ==
  LET Same(j) == window[j].domain = q.domain /\ window[j].status = q.status
      old == {j \in DOMAIN window : Same(j)}
  IN IF old = {}
     THEN Append(window, [domain |-> q.domain, status |-> q.status, ids |-> {i}])
     ELSE [j \in DOMAIN window |->
             IF j \in old THEN [window[j] EXCEPT !.ids = @ \cup {i}] ELSE window[j]]

(* Fault: only a new entry of the window is counted. *)
CountEntries ==
  /\ up /\ cpc = "count"
  /\ log' = Append(log, [domain |-> cur.domain, status |-> cur.status, boot |-> boot])
  /\ window' = Added(cur, Len(log) + 1)
  /\ counters' = [counters EXCEPT ![cur.domain] = @ + Len(window') - Len(window)]
  /\ fate' = Mark({Len(log) + 1}, "live")
  /\ cpc' = "read" /\ cur' = NoQuery
  /\ UNCHANGED <<boot, up, running, snapshot, changes, pending, reporting>>

(* The section under lock. *)
Count ==
  /\ up /\ cpc = "count"
  /\ log' = Append(log, [domain |-> cur.domain, status |-> cur.status, boot |-> boot])
  /\ window' = Added(cur, Len(log) + 1)
  /\ counters' = [counters EXCEPT ![cur.domain] = @ + 1]
  /\ fate' = Mark({Len(log) + 1}, "live")
  /\ cpc' = "read" /\ cur' = NoQuery
  /\ UNCHANGED <<boot, up, running, snapshot, changes, pending, reporting>>

-----------------------------------------------------------------------------
(* Report thread: report_loop.                                             *)

Events(w) ==
  [j \in DOMAIN w |-> [domain |-> w[j].domain, status |-> w[j].status,
                       ids |-> w[j].ids, time |-> Len(log)]]

(* The test of running at the head of the loop. *)
Again == IF running THEN "sleep" ELSE "ended"

(* Fault: the window is read but not cleared. *)
TakeKeepsWindow ==
  /\ up /\ rpc = "sleep" /\ window \o pending # <<>>
  /\ events' = Events(window) \o pending
  /\ rpc' = "post" /\ request' = "sent"
  /\ pending' = <<>>
  /\ UNCHANGED <<boot, up, running, snapshot, changes, cpc, cur, counters, window,
                 late, stored, log, fate>>

(* Fault: the buffer of failed posts is not picked up. *)
TakeWindowOnly ==
  /\ up /\ rpc = "sleep" /\ window # <<>>
  /\ events' = Events(window)
  /\ rpc' = "post" /\ request' = "sent"
  /\ window' = <<>>
  /\ UNCHANGED <<boot, up, running, snapshot, changes, cpc, cur, counters, pending,
                 late, stored, log, fate>>

(* The sleep is over; window and buffer are emptied under the lock, and    *)
(* what they held is posted, the window's events first.                    *)
Take ==
  /\ up /\ rpc = "sleep" /\ window \o pending # <<>>
  /\ events' = Events(window) \o pending
  /\ rpc' = "post" /\ request' = "sent"
  /\ window' = <<>> /\ pending' = <<>>
  /\ UNCHANGED <<boot, up, running, snapshot, changes, cpc, cur, counters,
                 late, stored, log, fate>>

(* There was nothing to post. *)
TakeNothing ==
  /\ up /\ rpc = "sleep" /\ window \o pending = <<>> /\ ~running
  /\ rpc' = "ended"
  /\ UNCHANGED <<boot, up, running, snapshot, changes, cpc, cur, counters, window,
                 pending, events, request, late, stored, log, fate>>

(* The answer has status 200. *)
PostReturns ==
  /\ up /\ rpc = "post"
  /\ fate' = Mark(IdsOf(events), "sent")
  /\ events' = <<>> /\ request' = "none" /\ rpc' = Again
  /\ UNCHANGED <<boot, up, running, snapshot, changes, cpc, cur, counters, window,
                 pending, late, stored, log>>

PostOk == request = "stored" /\ PostReturns

(* Fault: the first ones are kept. *)
KeptFirst(s) == IF Len(s) <= PendingLimit THEN s ELSE SubSeq(s, 1, PendingLimit)

(* Fault: the buffer has no limit. *)
KeptAll(s) == s

(* What stays in the buffer: the last of the old buffer and the events.    *)
Kept(s) == IF Len(s) <= PendingLimit THEN s
           ELSE SubSeq(s, Len(s) - PendingLimit + 1, Len(s))

(* No answer in 8 seconds, no connection, or a status other than 200.  The *)
(* request may have been handled, or be handled later.                     *)
PostErr ==
  /\ up /\ rpc = "post"
  /\ pending' = Kept(pending \o events)
  /\ fate' = Mark(IdsOf(pending \o events) \ IdsOf(pending'), "cut")
  /\ late' = IF request = "sent" THEN late \cup {Range(events)} ELSE late
  /\ events' = <<>> /\ request' = "none" /\ rpc' = Again
  /\ UNCHANGED <<boot, up, running, snapshot, changes, cpc, cur, counters, window,
                 stored, log>>

-----------------------------------------------------------------------------
(* Console and network (outside the repository).                           *)

ConsoleStores ==
  /\ rpc = "post" /\ request = "sent"
  /\ request' = "stored" /\ stored' = stored \cup Range(events)
  /\ UNCHANGED <<boot, up, running, snapshot, changes, cpc, cur, counters, window,
                 pending, rpc, events, late, log, fate>>

(* A request its sender gave up is handled, or lost. *)
LateRequest(b) ==
  /\ b \in late /\ late' = late \ {b}
  /\ stored' \in {stored, stored \cup b}
  /\ UNCHANGED <<boot, up, running, snapshot, changes, cpc, cur, counters, window,
                 pending, rpc, events, request, log, fate>>

-----------------------------------------------------------------------------
(* Process.                                                                *)

(* SIGTERM or SIGINT: only the flag is cleared. *)
Stop ==
  /\ up /\ running /\ running' = FALSE
  /\ UNCHANGED <<boot, up, snapshot, changes, cpc, cur, counters, window, pending,
                 reporting, log, fate>>

(* A crash, or the end of run after a stop, when tshark has ended: the     *)
(* other threads are daemons and end with the main thread.                 *)
Die ==
  /\ up
  /\ up' = FALSE /\ running' = FALSE
  /\ fate' = Mark({i \in Ids : fate[i] = "live"}, "lost")
  /\ snapshot' = DefaultPolicy /\ changes' = 0
  /\ cpc' = "read" /\ cur' = NoQuery /\ counters' = [d \in Domains |-> 0]
  /\ window' = <<>> /\ pending' = <<>> /\ rpc' = "ended"
  /\ late' = IF rpc = "post" /\ request = "sent" THEN late \cup {Range(events)} ELSE late
  /\ events' = <<>> /\ request' = "none"
  /\ UNCHANGED <<boot, stored, log>>

Restart ==
  /\ ~up /\ boot < MaxBoots
  /\ up' = TRUE /\ running' = TRUE /\ boot' = boot + 1 /\ rpc' = "sleep"
  /\ UNCHANGED <<snapshot, changes, cpc, cur, counters, window, pending, events,
                 request, late, stored, log, fate>>

Next ==
  \/ \E p \in Policies : InstallPolicy(p)
  \/ \E d \in Domains : Decide(d)
  \/ Count \/ Take \/ TakeNothing \/ PostOk \/ PostErr
  \/ ConsoleStores \/ \E b \in late : LateRequest(b)
  \/ Stop \/ Die \/ Restart

Spec == Init /\ [][Next]_vars

(* The threads are scheduled, the sleep and the timeout end.  Delivery     *)
(* also needs the Console to answer a post every so often.                 *)
Fairness == /\ WF_vars(Take) /\ WF_vars(PostOk \/ PostErr)
            /\ SF_vars(ConsoleStores)
FairSpec == Spec /\ Fairness

-----------------------------------------------------------------------------
Entry == [domain : Domains, status : Statuses, ids : SUBSET Ids]

(* Type invariant.  The buffer of failed posts keeps within its limit      *)
(* (collector.py:321).                                                     *)
TypeOK ==
  /\ boot \in Nat /\ up \in BOOLEAN /\ running \in BOOLEAN
  /\ snapshot \in Policies \cup {DefaultPolicy} /\ changes \in 0..MaxPolicies
  /\ cpc \in {"read", "count"} /\ cur \in Query \cup {NoQuery}
  /\ counters \in [Domains -> Nat]
  /\ window \in Seq(Entry)
  /\ pending \in Seq(Event) /\ Len(pending) <= PendingLimit
  /\ rpc \in {"sleep", "post", "ended"} /\ events \in Seq(Event)
  /\ request \in {"none", "sent", "stored"}
  /\ late \subseteq SUBSET Event /\ stored \subseteq Event
  /\ log \in Seq([domain : Domains, status : Statuses, boot : Nat])
  /\ fate \in [Ids -> {"none", "live", "sent", "cut", "lost"}]

(* Every query of the process that is neither confirmed nor cut is in the  *)
(* window, in the post under way or in the buffer, and in one of them only *)
(* (collector.py:290-295, 310, 321).                                       *)
QueriesConserved ==
  LET w == IdsOf(window)  e == IdsOf(events)  p == IdsOf(pending) IN
  /\ {i \in Ids : fate[i] = "live"} = w \cup e \cup p
  /\ w \cap e = {} /\ w \cap p = {} /\ e \cap p = {}

(* The counter of a domain on /metrics is the number of the process's      *)
(* queries, whatever became of their reports (collector.py:260-266).       *)
CountersAgree ==
  up => \A d \in Domains :
    counters[d] = Cardinality({i \in DOMAIN log : log[i].domain = d /\ log[i].boot = boot})

(* A query is in one event only, however often that event is posted and    *)
(* stored: a repeat can be told by the Console, and no count is split over *)
(* two overlapping events (collector.py:291-295).                          *)
EventsDisjoint ==
  LET seen == stored \cup (UNION late) \cup Range(events) \cup Range(pending)
  IN \A e, f \in seen : e = f \/ e.ids \cap f.ids = {}

(* The limit of the buffer falls upon the newest events: a query cut after *)
(* a failed post was reported no earlier than any that is kept, so what    *)
(* survived one failed post survives them all (collector.py:310, 321).     *)
BacklogKeepsOldest ==
  [][\A i \in Ids : (fate[i] = "live" /\ fate'[i] = "cut") =>
       \A e \in Range(events) : \A f \in Range(pending') :
          i \in e.ids => e.time >= f.time]_vars

(* While the process runs and the Console answers a post every so often,   *)
(* every query counted is stored or cut.                                   *)
QueriesArrive ==
  \A i \in Ids : fate[i] = "live" ~>
    (~up \/ ~running \/ fate[i] = "cut" \/ \E e \in stored : i \in e.ids)
=============================================================================
