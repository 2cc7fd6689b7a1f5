--------------------------- MODULE DnsReportProofs --------------------------
(***************************************************************************)
(* Theorems about DnsReport, for every set of domains, every sequence of   *)
(* policies, every limit of the buffer and any number of queries and       *)
(* starts.  The inductive invariant says where an event can be at each     *)
(* point of report_loop, that an event in the window has no query in       *)
(* common with any other, and that the buffer is ordered by time.          *)
(***************************************************************************)
EXTENDS DnsReport, FiniteSetTheorems, SequenceTheorems, TLAPS

(* What the points of the two loops say of the other variables: there are  *)
(* events under way only during a post, and then the buffer is empty.      *)
Stages ==
  /\ rpc = "post" => pending = <<>>
  /\ rpc # "post" => (events = <<>> /\ request = "none")
  /\ cpc = "count" => (cur \in Query /\ Len(log) < MaxQueries)
  /\ ~up => /\ window = <<>> /\ pending = <<>> /\ rpc = "ended"
            /\ cpc = "read" /\ counters = [d \in Domains |-> 0]

(* A query has a fate once it is counted, in this boot or one before. *)
Recorded ==
  /\ Len(log) <= MaxQueries
  /\ \A i \in Ids : fate[i] = "none" <=> i > Len(log)
  /\ \A i \in DOMAIN log : log[i].boot <= boot

(* The events that left the window. *)
Seen == stored \cup (UNION late) \cup Range(events) \cup Range(pending)

(* An event that left the window keeps its queries to itself; so does an   *)
(* entry of the window, which still grows.                                 *)
Apart ==
  /\ \A e \in Seen : e.ids \subseteq 1..Len(log)
  /\ \A e, f \in Seen : e = f \/ e.ids \cap f.ids = {}
  /\ \A j \in DOMAIN window : window[j].ids \subseteq 1..Len(log)
  /\ \A j, k \in DOMAIN window : j # k => window[j].ids \cap window[k].ids = {}
  /\ \A j, k \in DOMAIN window : j # k =>
       (window[j].domain # window[k].domain \/ window[j].status # window[k].status)
  /\ \A j \in DOMAIN window : \A e \in Seen : window[j].ids \cap e.ids = {}

(* The newest events come first. *)
NewestFirst(s) == \A j, k \in DOMAIN s : j < k => s[j].time >= s[k].time

Timed ==
  /\ \A j \in DOMAIN events : events[j].time <= Len(log)
  /\ \A j \in DOMAIN pending : pending[j].time <= Len(log)
  /\ NewestFirst(events) /\ NewestFirst(pending)

(* The queries not settled are those in the program's three places. *)
LiveHeld ==
  {i \in Ids : fate[i] = "live"} = IdsOf(window) \cup IdsOf(events) \cup IdsOf(pending)

IInv == TypeOK /\ Stages /\ Recorded /\ Apart /\ Timed /\ LiveHeld /\ CountersAgree

(* The parts that are about queries and events alone. *)
Data == Recorded /\ Apart /\ Timed /\ LiveHeld
data == <<boot, window, pending, events, late, stored, log, fate>>

-----------------------------------------------------------------------------
LEMMA IdsOfMember ==
  ASSUME NEW s, NEW x
  PROVE  x \in IdsOf(s) <=> \E i \in DOMAIN s : x \in s[i].ids
BY DEF IdsOf

LEMMA IdsOfEmpty == IdsOf(<<>>) = {}
BY DEF IdsOf

LEMMA RangeMember ==
  ASSUME NEW s, NEW x
  PROVE  x \in Range(s) <=> \E i \in DOMAIN s : x = s[i]
BY DEF Range

LEMMA RangeEmpty == Range(<<>>) = {}
BY DEF Range

LEMMA EventParts ==
  ASSUME NEW s \in Seq(Event), NEW j \in DOMAIN s
  PROVE  s[j].time \in Nat /\ s[j].ids \subseteq Ids
<1>1. s[j] \in Event
  OBVIOUS
<1> QED
  BY <1>1, DnsReportAssumption DEF Event, DnsReportAssumption

(* The window becomes as many events of this moment. *)
LEMMA EventsType ==
  ASSUME NEW w \in Seq(Entry), Len(log) \in 0..MaxQueries
  PROVE  /\ Events(w) \in Seq(Event) /\ Len(Events(w)) = Len(w)
         /\ \A j \in 1..Len(w) : Events(w)[j].ids = w[j].ids /\ Events(w)[j].time = Len(log)
<1>1. \A j \in 1..Len(w) : w[j] \in Entry
  OBVIOUS
<1> DEFINE ev(j) == [domain |-> w[j].domain, status |-> w[j].status,
                     ids |-> w[j].ids, time |-> Len(log)]
<1>2. \A j \in 1..Len(w) : ev(j) \in Event
  BY <1>1 DEF Entry, Event
<1>3. Events(w) = [j \in 1..Len(w) |-> ev(j)]
  BY DEF Events
<1>4. \A j \in 1..Len(w) : Events(w)[j] = ev(j)
  BY <1>3
<1>5. \A j \in 1..Len(w) : ev(j).ids = w[j].ids /\ ev(j).time = Len(log)
  OBVIOUS
<1>6. Events(w) \in Seq(Event) /\ Len(Events(w)) = Len(w)
  <2> HIDE DEF ev
  <2>1. Len(w) \in Nat
    OBVIOUS
  <2> QED
    BY <1>2, <1>3, <2>1
<1> QED
  BY <1>4, <1>5, <1>6

(* What is kept of a sequence is its end, in the same order. *)
LEMMA KeptIsTail ==
  ASSUME NEW s \in Seq(Event)
  PROVE  /\ Kept(s) \in Seq(Event) /\ Len(Kept(s)) <= PendingLimit
         /\ \E c \in Nat : /\ Len(Kept(s)) = Len(s) - c
                           /\ \A j \in 1..Len(Kept(s)) :
                                j + c \in 1..Len(s) /\ Kept(s)[j] = s[j + c]
<1>1. PendingLimit \in Nat /\ Len(s) \in Nat
  BY DnsReportAssumption DEF DnsReportAssumption
<1>2. CASE Len(s) <= PendingLimit
  BY <1>1, <1>2 DEF Kept
<1>3. CASE Len(s) > PendingLimit
  <2> DEFINE c == Len(s) - PendingLimit
  <2>1. c \in Nat /\ c + 1 \in 1..Len(s) + 1
    BY <1>1, <1>3
  <2>2. Kept(s) = SubSeq(s, c + 1, Len(s))
    BY <1>1, <1>3 DEF Kept
  <2>3. /\ Kept(s) \in Seq(Event) /\ Len(Kept(s)) = Len(s) - c
        /\ \A j \in 1..(Len(s) - c) : Kept(s)[j] = s[j + c]
    <3>1. \A i \in c + 1..Len(s) : s[i] \in Event
      BY <1>1, <2>1
    <3>2. /\ SubSeq(s, c + 1, Len(s)) \in Seq(Event)
          /\ Len(SubSeq(s, c + 1, Len(s))) = IF c + 1 <= Len(s) THEN Len(s) - (c + 1) + 1 ELSE 0
          /\ \A j \in 1..Len(s) - (c + 1) + 1 : SubSeq(s, c + 1, Len(s))[j] = s[c + 1 + j - 1]
      <4> HIDE DEF c
      <4> QED
        BY <1>1, <2>1, <3>1, SubSeqProperties
    <3>3. c < Len(s)
      BY <1>1, <1>3, DnsReportAssumption DEF DnsReportAssumption
    <3> HIDE DEF c
    <3>4. Len(s) - (c + 1) + 1 = Len(s) - c /\ c + 1 <= Len(s)
      BY <1>1, <2>1, <3>3
    <3>5. \A j \in 1..(Len(s) - c) : c + 1 + j - 1 = j + c
      BY <1>1, <2>1
    <3>6. \A j \in 1..(Len(s) - c) : Kept(s)[j] = s[j + c]
      BY <2>2, <3>2, <3>4, <3>5
    <3> QED
      BY <2>2, <3>2, <3>4, <3>6
  <2>4. Len(s) - c = PendingLimit /\ \A j \in 1..(Len(s) - c) : j + c \in 1..Len(s)
    BY <1>1, <2>1
  <2>5. /\ Len(Kept(s)) <= PendingLimit
        /\ \A j \in 1..Len(Kept(s)) : j + c \in 1..Len(s) /\ Kept(s)[j] = s[j + c]
    <3> HIDE DEF c
    <3> QED
      BY <1>1, <2>3, <2>4
  <2> HIDE DEF c
  <2> QED
    BY <2>1, <2>3, <2>5, Zenon
<1> QED
  BY <1>1, <1>2, <1>3

(* Window v is w with query n in the entry m of the key of q. *)
Grown(w, v, q, n, m) ==
  /\ v[m].domain = q.domain /\ v[m].status = q.status
  /\ \A j \in DOMAIN v : j # m => (j \in DOMAIN w /\ v[j] = w[j])
  /\ \/ m \in DOMAIN w /\ w[m].domain = q.domain /\ w[m].status = q.status
        /\ v[m].ids = w[m].ids \cup {n}
     \/ m \notin DOMAIN w /\ v[m].ids = {n}
        /\ \A j \in DOMAIN w : w[j].domain # q.domain \/ w[j].status # q.status

(* A query joins the entry of its domain and status, or a new one. *)
LEMMA AddedGrows ==
  ASSUME window \in Seq(Entry), NEW q \in Query, NEW n \in Ids,
         \A j, k \in DOMAIN window : j # k =>
           (window[j].domain # window[k].domain \/ window[j].status # window[k].status)
  PROVE  /\ Added(q, n) \in Seq(Entry) /\ DOMAIN window \subseteq DOMAIN Added(q, n)
         /\ \E m \in DOMAIN Added(q, n) : Grown(window, Added(q, n), q, n, m)
<1> DEFINE Same(j) == window[j].domain = q.domain /\ window[j].status = q.status
           old == {j \in DOMAIN window : Same(j)}
           fresh == [domain |-> q.domain, status |-> q.status, ids |-> {n}]
<1>1. CASE old = {}
  <2>1. Added(q, n) = Append(window, fresh)
    BY <1>1 DEF Added
  <2>2. fresh \in Entry
    BY DEF Entry, Query
  <2>3. /\ Append(window, fresh) \in Seq(Entry) /\ Len(Append(window, fresh)) = Len(window) + 1
        /\ Append(window, fresh)[Len(window) + 1] = fresh
        /\ \A j \in 1..Len(window) : Append(window, fresh)[j] = window[j]
    <3> HIDE DEF fresh
    <3> QED
      BY <2>2
  <2>4. fresh.domain = q.domain /\ fresh.status = q.status /\ fresh.ids = {n}
    OBVIOUS
  <2>5. \A j \in 1..Len(window) : ~Same(j)
    BY <1>1
  <2>6. Len(window) \in Nat
    OBVIOUS
  <2> HIDE DEF fresh
  <2>7. /\ DOMAIN Added(q, n) = 1..(Len(window) + 1) /\ DOMAIN window = 1..Len(window)
        /\ Len(window) + 1 \in 1..(Len(window) + 1) /\ Len(window) + 1 \notin 1..Len(window)
        /\ 1..Len(window) \subseteq 1..(Len(window) + 1)
    BY <2>1, <2>3, <2>6
  <2>8. \A j \in 1..(Len(window) + 1) : j # Len(window) + 1 =>
          (j \in 1..Len(window) /\ Added(q, n)[j] = window[j])
    BY <2>1, <2>3, <2>6
  <2>9. Grown(window, Added(q, n), q, n, Len(window) + 1)
    BY <2>1, <2>3, <2>4, <2>5, <2>7, <2>8 DEF Grown
  <2> QED
    BY <2>1, <2>3, <2>7, <2>9
<1>2. CASE old # {}
  <2>1. PICK m \in 1..Len(window) : Same(m)
    BY <1>2
  <2>2. \A j \in 1..Len(window) : j \in old <=> j = m
    BY <2>1
  <2> DEFINE more(j) == [window[j] EXCEPT !.ids = @ \cup {n}]
             new == [j \in 1..Len(window) |-> IF j = m THEN more(j) ELSE window[j]]
  <2>3. Added(q, n) = [j \in DOMAIN window |-> IF j \in old THEN more(j) ELSE window[j]]
    BY <1>2 DEF Added
  <2>4. Added(q, n) = new
    BY <2>2, <2>3
  <2>5. \A j \in 1..Len(window) : window[j] \in Entry
    OBVIOUS
  <2>6. /\ more(m) \in Entry /\ more(m).ids = window[m].ids \cup {n}
        /\ more(m).domain = q.domain /\ more(m).status = q.status
    BY <2>1, <2>5 DEF Entry
  <2>7. /\ new \in Seq(Entry) /\ Len(new) = Len(window) /\ new[m] = more(m)
        /\ \A j \in 1..Len(window) : j # m => new[j] = window[j]
    <3> HIDE DEF more
    <3>1. Len(window) \in Nat
      OBVIOUS
    <3> QED
      BY <2>1, <2>5, <2>6, <3>1
  <2> HIDE DEF new, more
  <2>8. DOMAIN new = DOMAIN window /\ m \in DOMAIN new
    BY <2>1, <2>7
  <2>9. Grown(window, new, q, n, m)
    BY <2>1, <2>6, <2>7, <2>8 DEF Grown
  <2> QED
    BY <2>4, <2>7, <2>8, <2>9
<1> QED
  BY <1>1, <1>2

-----------------------------------------------------------------------------
LEMMA TypeCounts ==
  ASSUME IInv
  PROVE  Len(log) \in 0..MaxQueries /\ Len(log) \in Nat /\ DOMAIN log = 1..Len(log)
BY DnsReportAssumption DEF IInv, TypeOK, Recorded, DnsReportAssumption

(* Events are forgotten, or move among the buffer, the requests and the    *)
(* Console.                                                                *)
LEMMA ApartShrinks ==
  ASSUME Apart, Seen' \subseteq Seen, window' = window \/ window' = <<>>, log' = log
  PROVE  Apart'
<1>1. /\ \A e \in Seen' : e.ids \subseteq 1..Len(log)
      /\ \A e, f \in Seen' : e = f \/ e.ids \cap f.ids = {}
  BY DEF Apart
<1>2. CASE window' = window
  BY <1>1, <1>2 DEF Apart
<1>3. CASE window' = <<>>
  BY <1>1, <1>3 DEF Apart
<1> QED
  BY <1>2, <1>3

(* What is under way was counted. *)
LEMMA EventsCounted ==
  ASSUME IInv, NEW i \in IdsOf(events)
  PROVE  i <= Len(log)
<1>1. PICK j \in DOMAIN events : i \in events[j].ids
  BY IdsOfMember
<1>2. i \in 1..Len(log)
  BY <1>1, RangeMember DEF IInv, Apart, Seen
<1> QED
  BY <1>2, TypeCounts

(* Window, post under way and buffer hold no query twice. *)
LEMMA HeldApart ==
  ASSUME IInv
  PROVE  /\ IdsOf(window) \cap IdsOf(events) = {} /\ IdsOf(window) \cap IdsOf(pending) = {}
         /\ IdsOf(events) \cap IdsOf(pending) = {}
<1>1. ASSUME NEW i \in IdsOf(window), i \in IdsOf(events) \/ i \in IdsOf(pending)
      PROVE  FALSE
  <2>1. PICK j \in DOMAIN window : i \in window[j].ids
    BY IdsOfMember
  <2>2. PICK e \in Range(events) \cup Range(pending) : i \in e.ids
    BY <1>1, IdsOfMember, RangeMember
  <2>3. e \in Seen
    BY DEF Seen
  <2> QED
    BY <2>1, <2>2, <2>3 DEF IInv, Apart
<1>2. IdsOf(events) = {} \/ IdsOf(pending) = {}
  BY IdsOfEmpty DEF IInv, Stages
<1> QED
  BY <1>1, <1>2

LEMMA DataUnchanged ==
  ASSUME Data, UNCHANGED data
  PROVE  Data'
<1>1. /\ boot' = boot /\ window' = window /\ pending' = pending /\ events' = events
      /\ late' = late /\ stored' = stored /\ log' = log /\ fate' = fate
  BY DEF data
<1>2. Recorded'
  BY <1>1 DEF Data, Recorded
<1>3. Seen' = Seen
  BY <1>1 DEF Seen
<1>4. Apart'
  BY <1>1, <1>3, ApartShrinks DEF Data
<1>5. Timed'
  BY <1>1 DEF Data, Timed, NewestFirst
<1>6. LiveHeld'
  BY <1>1 DEF Data, LiveHeld, IdsOf
<1> QED
  BY <1>2, <1>4, <1>5, <1>6 DEF Data

LEMMA CountersUnchanged ==
  ASSUME CountersAgree, UNCHANGED <<up, boot, counters, log>>
  PROVE  CountersAgree'
BY DEF CountersAgree

(* Steps that leave the reports alone. *)
LEMMA InstallPolicyKeeps ==
  ASSUME IInv, NEW p \in Policies, InstallPolicy(p)
  PROVE  IInv'
<1>1. UNCHANGED data /\ UNCHANGED <<up, boot, counters, log>>
  BY DEF InstallPolicy, data, reporting
<1>2. Data' /\ CountersAgree'
  BY <1>1, DataUnchanged, CountersUnchanged DEF IInv, Data
<1>3. changes' \in 0..MaxPolicies
  BY DnsReportAssumption DEF IInv, TypeOK, InstallPolicy, DnsReportAssumption
<1>4. TypeOK'
  BY <1>3 DEF IInv, TypeOK, InstallPolicy, reporting
<1>5. Stages'
  BY DEF IInv, Stages, InstallPolicy, reporting
<1> QED
  BY <1>2, <1>4, <1>5 DEF IInv, Data

LEMMA DecideKeeps ==
  ASSUME IInv, NEW d \in Domains, Decide(d)
  PROVE  IInv'
<1>1. UNCHANGED data /\ UNCHANGED <<up, boot, counters, log>>
  BY DEF Decide, data, reporting
<1>2. Data' /\ CountersAgree'
  BY <1>1, DataUnchanged, CountersUnchanged DEF IInv, Data
<1>3. cur' \in Query
  BY DEF Decide, Query, Status, Statuses
<1>4. TypeOK'
  BY <1>3 DEF IInv, TypeOK, Decide, reporting
<1>5. Stages'
  BY <1>3 DEF IInv, Stages, Decide, reporting
<1> QED
  BY <1>2, <1>4, <1>5 DEF IInv, Data

LEMMA TakeNothingKeeps ==
  ASSUME IInv, TakeNothing
  PROVE  IInv'
<1>1. UNCHANGED data /\ UNCHANGED <<up, boot, counters, log>>
  BY DEF TakeNothing, data
<1>2. Data' /\ CountersAgree'
  BY <1>1, DataUnchanged, CountersUnchanged DEF IInv, Data
<1>3. TypeOK'
  BY DEF IInv, TypeOK, TakeNothing
<1>4. Stages'
  BY DEF IInv, Stages, TakeNothing
<1> QED
  BY <1>2, <1>3, <1>4 DEF IInv, Data

LEMMA StopKeeps ==
  ASSUME IInv, Stop
  PROVE  IInv'
<1>1. UNCHANGED data /\ UNCHANGED <<up, boot, counters, log>>
  BY DEF Stop, data, reporting
<1>2. Data' /\ CountersAgree'
  BY <1>1, DataUnchanged, CountersUnchanged DEF IInv, Data
<1>3. TypeOK'
  BY DEF IInv, TypeOK, Stop, reporting
<1>4. Stages'
  BY DEF IInv, Stages, Stop, reporting
<1> QED
  BY <1>2, <1>3, <1>4 DEF IInv, Data

LEMMA StutterKeeps ==
  ASSUME IInv, UNCHANGED vars
  PROVE  IInv'
<1>1. UNCHANGED data /\ UNCHANGED <<up, boot, counters, log>>
  BY DEF vars, data, reporting
<1>2. Data' /\ CountersAgree'
  BY <1>1, DataUnchanged, CountersUnchanged DEF IInv, Data
<1>3. TypeOK'
  BY DEF IInv, TypeOK, vars, reporting
<1>4. Stages'
  BY DEF IInv, Stages, vars, reporting
<1> QED
  BY <1>2, <1>3, <1>4 DEF IInv, Data

-----------------------------------------------------------------------------
(* A query is counted. *)
LEMMA CountKeepsType ==
  ASSUME IInv, Count
  PROVE  /\ TypeOK' /\ Stages' /\ Recorded' /\ Len(log') = Len(log) + 1
         /\ Len(log) + 1 \in Ids /\ cur \in Query
<1> DEFINE n == Len(log) + 1
           q == [domain |-> cur.domain, status |-> cur.status, boot |-> boot]
<1>1. cur \in Query /\ Len(log) < MaxQueries /\ MaxQueries \in Nat /\ Len(log) \in Nat
  BY TypeCounts, DnsReportAssumption DEF IInv, Stages, Count, DnsReportAssumption
<1>2. n \in Ids
  BY <1>1 DEF Ids
<1>3. Added(cur, n) \in Seq(Entry)
  BY <1>1, <1>2, AddedGrows DEF IInv, TypeOK, Apart
<1>4. q \in [domain : Domains, status : Statuses, boot : Nat]
  BY <1>1 DEF IInv, TypeOK, Query
<1>5. /\ log' \in Seq([domain : Domains, status : Statuses, boot : Nat])
      /\ Len(log') = n /\ log'[n] = q /\ \A i \in 1..Len(log) : log'[i] = log[i]
  <2> HIDE DEF q
  <2>1. log' = Append(log, q)
    BY DEF Count, q
  <2> QED
    BY <1>4, <2>1 DEF IInv, TypeOK
<1>6. counters' \in [Domains -> Nat]
  BY <1>1 DEF IInv, TypeOK, Count, Query
<1>7. fate' \in [Ids -> {"none", "live", "sent", "cut", "lost"}]
  BY DEF IInv, TypeOK, Count, Mark
<1>8. TypeOK'
  <2>1. cpc' = "read" /\ cur' = NoQuery /\ window' = Added(cur, n)
    BY DEF Count
  <2>2. UNCHANGED <<boot, up, running, snapshot, changes, pending, reporting>>
    BY DEF Count
  <2> HIDE DEF n, q
  <2> QED
    BY <1>3, <1>5, <1>6, <1>7, <2>1, <2>2 DEF IInv, TypeOK, reporting
<1>9. Stages'
  BY DEF IInv, Stages, Count, reporting
<1>10. Recorded'
  <2>1. Len(log') <= MaxQueries
    BY <1>1, <1>5
  <2>2. \A i \in Ids : fate'[i] = "none" <=> i > Len(log')
    <3> TAKE i \in Ids
    <3>1. fate'[i] = IF i = n THEN "live" ELSE fate[i]
      BY DEF Count, Mark
    <3>2. fate[i] = "none" <=> i > Len(log)
      BY DEF IInv, Recorded
    <3>3. i \in Nat
      BY DEF Ids
    <3> QED
      BY <1>1, <1>5, <3>1, <3>2, <3>3
  <2>3. \A i \in DOMAIN log' : log'[i].boot <= boot'
    <3>1. DOMAIN log' = 1..n /\ boot' = boot /\ boot \in Nat
      BY <1>5 DEF Count, IInv, TypeOK
    <3>2. q.boot <= boot
      BY <3>1
    <3>3. \A i \in 1..Len(log) : log[i].boot <= boot
      BY TypeCounts DEF IInv, Recorded
    <3> HIDE DEF q
    <3>4. \A i \in 1..n : i \in 1..Len(log) \/ i = n
      BY <1>1
    <3> QED
      BY <1>5, <3>1, <3>2, <3>3, <3>4
  <2> QED
    BY <2>1, <2>2, <2>3 DEF Recorded
<1> QED
  BY <1>1, <1>2, <1>5, <1>8, <1>9, <1>10

LEMMA CountKeepsApart ==
  ASSUME IInv, Count
  PROVE  Apart'
<1> DEFINE n == Len(log) + 1
<1>1. /\ Len(log') = n /\ n \in Ids /\ cur \in Query /\ Len(log) \in Nat
      /\ n \notin 1..Len(log) /\ 1..Len(log) \subseteq 1..n
  BY CountKeepsType, TypeCounts
<1>2. Seen' = Seen
  BY DEF Count, Seen, reporting
<1>3. window \in Seq(Entry) /\ window' = Added(cur, n)
  BY DEF IInv, TypeOK, Count
<1> HIDE DEF n
<1>5. PICK m \in DOMAIN window' : Grown(window, window', cur, n, m)
  BY <1>1, <1>3, AddedGrows DEF IInv, Apart
<1>6. /\ \A e \in Seen : e.ids \subseteq 1..Len(log)
      /\ \A e, f \in Seen : e = f \/ e.ids \cap f.ids = {}
      /\ \A j \in DOMAIN window : window[j].ids \subseteq 1..Len(log)
      /\ \A j, k \in DOMAIN window : j # k => window[j].ids \cap window[k].ids = {}
      /\ \A j, k \in DOMAIN window : j # k =>
           (window[j].domain # window[k].domain \/ window[j].status # window[k].status)
      /\ \A j \in DOMAIN window : \A e \in Seen : window[j].ids \cap e.ids = {}
  BY DEF IInv, Apart
<1>7. \A j \in DOMAIN window' : j # m => n \notin window'[j].ids
  BY <1>1, <1>5, <1>6 DEF Grown
<1>8. \A e \in Seen : n \notin e.ids
  BY <1>1, <1>6
<1>9. n \in 1..n
  BY <1>1 DEF Ids
<1>10. \A j \in DOMAIN window' : window'[j].ids \subseteq 1..n
  BY <1>1, <1>5, <1>6, <1>9 DEF Grown
<1>11. \A j, k \in DOMAIN window' : j # k =>
         /\ window'[j].ids \cap window'[k].ids = {}
         /\ window'[j].domain # window'[k].domain \/ window'[j].status # window'[k].status
  <2> SUFFICES ASSUME NEW j \in DOMAIN window', NEW k \in DOMAIN window', j # k
               PROVE  /\ window'[j].ids \cap window'[k].ids = {}
                      /\ \/ window'[j].domain # window'[k].domain
                         \/ window'[j].status # window'[k].status
    OBVIOUS
  <2>1. CASE j # m /\ k # m
    BY <1>5, <1>6, <2>1 DEF Grown
  <2>2. CASE j = m
    BY <1>5, <1>6, <1>7, <2>2 DEF Grown
  <2>3. CASE k = m
    BY <1>5, <1>6, <1>7, <2>3 DEF Grown
  <2> QED
    BY <2>1, <2>2, <2>3
<1>12. \A j \in DOMAIN window' : \A e \in Seen : window'[j].ids \cap e.ids = {}
  BY <1>5, <1>6, <1>8 DEF Grown
<1>13. \A e \in Seen : e.ids \subseteq 1..n
  BY <1>1, <1>6
<1> QED
  BY <1>1, <1>2, <1>6, <1>10, <1>11, <1>12, <1>13 DEF Apart

LEMMA CountKeepsHeld ==
  ASSUME IInv, Count
  PROVE  Timed' /\ LiveHeld'
<1> DEFINE n == Len(log) + 1
<1>1. /\ Len(log') = n /\ n \in Ids /\ cur \in Query /\ Len(log) \in Nat
  BY CountKeepsType, TypeCounts
<1>2. /\ events' = events /\ pending' = pending /\ window' = Added(cur, n)
      /\ window \in Seq(Entry) /\ fate' = Mark({n}, "live")
      /\ events \in Seq(Event) /\ pending \in Seq(Event)
  BY DEF IInv, TypeOK, Count, reporting
<1>3. Timed'
  <2>1. /\ \A j \in DOMAIN events : events[j].time <= Len(log) /\ events[j].time \in Nat
        /\ \A j \in DOMAIN pending : pending[j].time <= Len(log) /\ pending[j].time \in Nat
    BY <1>2, EventParts DEF IInv, Timed
  <2>2. /\ \A j \in DOMAIN events : events[j].time <= n
        /\ \A j \in DOMAIN pending : pending[j].time <= n
    BY <1>1, <2>1
  <2>3. NewestFirst(events)' /\ NewestFirst(pending)'
    BY <1>2 DEF IInv, Timed, NewestFirst
  <2> QED
    BY <1>1, <1>2, <2>2, <2>3 DEF Timed
<1>4. IdsOf(window') = IdsOf(window) \cup {n}
  <2> HIDE DEF n
  <2>1. PICK m \in DOMAIN window' : Grown(window, window', cur, n, m)
    BY <1>1, <1>2, AddedGrows DEF IInv, Apart
  <2>2. DOMAIN window \subseteq DOMAIN window'
    BY <1>1, <1>2, AddedGrows DEF IInv, Apart
  <2>3. ASSUME NEW x
        PROVE  x \in IdsOf(window') <=> (x \in IdsOf(window) \/ x = n)
    BY <2>1, <2>2, IdsOfMember DEF Grown
  <2> QED
    BY <2>3
<1>5. \A i \in Ids : fate'[i] = "live" <=> (fate[i] = "live" \/ i = n)
  BY <1>2 DEF Mark
<1>6. LiveHeld'
  <2>1. {i \in Ids : fate'[i] = "live"} = {i \in Ids : fate[i] = "live"} \cup {n}
    BY <1>1, <1>5
  <2>2. IdsOf(events') = IdsOf(events) /\ IdsOf(pending') = IdsOf(pending)
    BY <1>2
  <2>3. IdsOf(window)' = IdsOf(window') /\ IdsOf(events)' = IdsOf(events')
        /\ IdsOf(pending)' = IdsOf(pending')
    BY DEF IdsOf
  <2> QED
    BY <1>4, <2>1, <2>2, <2>3 DEF IInv, LiveHeld
<1> QED
  BY <1>3, <1>6

(* The queries of domain d in boot b. *)
Counted(d, b, l) == {i \in DOMAIN l : l[i].domain = d /\ l[i].boot = b}

LEMMA CountKeepsCounters ==
  ASSUME IInv, Count
  PROVE  CountersAgree'
<1> DEFINE q == [domain |-> cur.domain, status |-> cur.status, boot |-> boot]
           n == Len(log) + 1
<1>1. /\ log \in Seq([domain : Domains, status : Statuses, boot : Nat])
      /\ Len(log) \in Nat /\ cur \in Query
  BY CountKeepsType, TypeCounts DEF IInv, TypeOK
<1>2. q \in [domain : Domains, status : Statuses, boot : Nat]
  BY <1>1 DEF IInv, TypeOK, Query
<1>3. /\ DOMAIN log' = 1..n /\ log'[n] = q /\ DOMAIN log = 1..Len(log)
      /\ \A i \in 1..Len(log) : log'[i] = log[i]
  <2>1. log' = Append(log, q)
    BY DEF Count
  <2> HIDE DEF q
  <2> QED
    BY <1>1, <1>2, <2>1
<1>4. q.domain = cur.domain /\ q.boot = boot
  OBVIOUS
<1>5. /\ 1..n = 1..Len(log) \cup {n} /\ n \notin 1..Len(log)
  BY <1>1
<1>6. up /\ boot' = boot /\ up' = up
      /\ counters' = [counters EXCEPT ![cur.domain] = @ + 1]
      /\ counters \in [Domains -> Nat] /\ cur.domain \in Domains
  BY <1>1 DEF Count, IInv, TypeOK, Query
<1> HIDE DEF q, n
<1> SUFFICES ASSUME NEW d \in Domains
             PROVE  counters'[d] = Cardinality(Counted(d, boot, log'))
  BY <1>6 DEF CountersAgree, Counted
<1>7. counters[d] = Cardinality(Counted(d, boot, log))
  BY <1>6 DEF IInv, CountersAgree, Counted
<1>8. IsFiniteSet(Counted(d, boot, log))
  <2>1. IsFiniteSet(1..Len(log))
    BY <1>1, FS_Interval
  <2>2. Counted(d, boot, log) \in SUBSET (1..Len(log))
    BY <1>3 DEF Counted
  <2> QED
    BY <2>1, <2>2, FS_Subset
<1>9. n \notin Counted(d, boot, log)
  BY <1>3, <1>5 DEF Counted
<1>10. CASE d = cur.domain
  <2>1. Counted(d, boot, log') = Counted(d, boot, log) \cup {n}
    BY <1>3, <1>4, <1>5, <1>10 DEF Counted
  <2>2. Cardinality(Counted(d, boot, log')) = Cardinality(Counted(d, boot, log)) + 1
    BY <1>8, <1>9, <2>1, FS_AddElement
  <2> QED
    BY <1>6, <1>7, <1>10, <2>2
<1>11. CASE d # cur.domain
  <2>1. Counted(d, boot, log') = Counted(d, boot, log)
    BY <1>3, <1>4, <1>5, <1>11 DEF Counted
  <2> QED
    BY <1>6, <1>7, <1>11, <2>1
<1> QED
  BY <1>10, <1>11

LEMMA CountKeeps ==
  ASSUME IInv, Count
  PROVE  IInv'
BY CountKeepsType, CountKeepsApart, CountKeepsHeld, CountKeepsCounters DEF IInv

-----------------------------------------------------------------------------
(* Window and buffer are taken: the window's events are of this moment. *)
LEMMA TakeKeepsType ==
  ASSUME IInv, Take
  PROVE  /\ TypeOK' /\ Stages' /\ Recorded'
         /\ Events(window) \in Seq(Event) /\ window \in Seq(Entry) /\ pending \in Seq(Event)
         /\ events = <<>> /\ events' = Events(window) \o pending
<1>1. /\ Events(window) \in Seq(Event) /\ window \in Seq(Entry) /\ pending \in Seq(Event)
  BY EventsType, TypeCounts DEF IInv, TypeOK
<1>2. events' = Events(window) \o pending /\ events' \in Seq(Event)
  BY <1>1 DEF Take
<1>3. pending' = <<>> /\ window' = <<>> /\ Len(<<>>) <= PendingLimit
      /\ <<>> \in Seq(Event) /\ <<>> \in Seq(Entry)
  BY DnsReportAssumption DEF Take, DnsReportAssumption
<1>4. rpc' = "post" /\ request' = "sent" /\ up
      /\ UNCHANGED <<boot, up, running, snapshot, changes, cpc, cur, counters,
                     late, stored, log, fate>>
  BY DEF Take
<1>5. TypeOK'
  BY <1>2, <1>3, <1>4 DEF IInv, TypeOK
<1>6. Stages'
  BY <1>3, <1>4 DEF IInv, Stages
<1>7. Recorded'
  BY <1>4 DEF IInv, Recorded
<1>8. events = <<>>
  BY DEF Take, IInv, Stages
<1> QED
  BY <1>1, <1>2, <1>5, <1>6, <1>7, <1>8

(* The events of a post are the entries of the window and the buffer. *)
LEMMA TakeMoves ==
  ASSUME IInv, Take
  PROVE  /\ DOMAIN Events(window) = DOMAIN window
         /\ \A j \in DOMAIN window : /\ Events(window)[j].ids = window[j].ids
                                     /\ Events(window)[j].time = Len(log)
         /\ \A k \in DOMAIN events' :
              \/ k \in DOMAIN window /\ events'[k] = Events(window)[k]
              \/ \E j \in DOMAIN pending : k = Len(window) + j /\ events'[k] = pending[j]
         /\ \A j \in DOMAIN window : j \in DOMAIN events' /\ events'[j] = Events(window)[j]
         /\ \A j \in DOMAIN pending : \E k \in DOMAIN events' : events'[k] = pending[j]
<1> DEFINE w == Events(window)
<1>1. w \in Seq(Event) /\ window \in Seq(Entry) /\ pending \in Seq(Event)
      /\ events' = w \o pending
  BY TakeKeepsType
<1>2. /\ Len(w) = Len(window)
      /\ \A j \in 1..Len(window) : w[j].ids = window[j].ids /\ w[j].time = Len(log)
  BY <1>1, EventsType, TypeCounts
<1> HIDE DEF w
<1>3. /\ DOMAIN w = 1..Len(window) /\ DOMAIN window = 1..Len(window)
      /\ DOMAIN pending = 1..Len(pending) /\ Len(window) \in Nat /\ Len(pending) \in Nat
  BY <1>1, <1>2
<1>4. /\ DOMAIN (w \o pending) = 1..(Len(window) + Len(pending))
      /\ \A k \in 1..(Len(window) + Len(pending)) :
           (w \o pending)[k] = IF k <= Len(window) THEN w[k] ELSE pending[k - Len(window)]
  <2>1. Len(w) = Len(window) /\ w \in Seq(Event) /\ pending \in Seq(Event)
    BY <1>1, <1>2
  <2>2. /\ w \o pending \in Seq(Event) /\ Len(w \o pending) = Len(w) + Len(pending)
        /\ \A k \in 1..(Len(w) + Len(pending)) :
             (w \o pending)[k] = IF k <= Len(w) THEN w[k] ELSE pending[k - Len(w)]
    BY ONLY <2>1, ConcatProperties
  <2>3. DOMAIN (w \o pending) = 1..Len(w \o pending)
    BY ONLY <2>2
  <2> QED
    BY ONLY <2>1, <2>2, <2>3
<1>5. \A k \in 1..(Len(window) + Len(pending)) :
        (w \o pending)[k] = IF k <= Len(window) THEN w[k] ELSE pending[k - Len(window)]
  BY <1>4
<1>6. \A k \in 1..(Len(window) + Len(pending)) :
        \/ k \in 1..Len(window) /\ (w \o pending)[k] = w[k]
        \/ \E j \in 1..Len(pending) : k = Len(window) + j /\ (w \o pending)[k] = pending[j]
  <2> SUFFICES ASSUME NEW k \in 1..(Len(window) + Len(pending)), k > Len(window)
               PROVE  \E j \in 1..Len(pending) :
                        k = Len(window) + j /\ (w \o pending)[k] = pending[j]
    <3>1. \A k \in 1..(Len(window) + Len(pending)) :
            k > Len(window) \/ (k <= Len(window) /\ k \in 1..Len(window))
      BY <1>3
    <3> QED
      BY <1>5, <3>1
  <2>1. k - Len(window) \in 1..Len(pending) /\ k = Len(window) + (k - Len(window))
    BY <1>3
  <2>2. (w \o pending)[k] = pending[k - Len(window)]
    BY <1>3, <1>5
  <2> QED
    BY <2>1, <2>2
<1>7. \A j \in 1..Len(window) :
        j \in 1..(Len(window) + Len(pending)) /\ (w \o pending)[j] = w[j]
  BY <1>3, <1>5
<1>8. \A j \in 1..Len(pending) : \E k \in 1..(Len(window) + Len(pending)) :
        (w \o pending)[k] = pending[j]
  <2> TAKE j \in 1..Len(pending)
  <2>1. /\ Len(window) + j \in 1..(Len(window) + Len(pending)) /\ ~(Len(window) + j <= Len(window))
        /\ Len(window) + j - Len(window) = j
    BY <1>3
  <2>2. PICK k \in 1..(Len(window) + Len(pending)) : k = Len(window) + j
    BY <2>1
  <2>3. ~(k <= Len(window)) /\ k - Len(window) = j
    BY <2>1, <2>2
  <2>4. (w \o pending)[k] = pending[k - Len(window)]
    BY <1>5, <2>3, Zenon
  <2> QED
    BY <2>3, <2>4
<1>9. DOMAIN events' = 1..(Len(window) + Len(pending))
  BY <1>1, <1>4
<1> QED
  BY <1>1, <1>2, <1>3, <1>6, <1>7, <1>8, <1>9 DEF w

LEMMA TakeKeepsApart ==
  ASSUME IInv, Take
  PROVE  Apart'
<1>1. /\ \A e \in Seen : e.ids \subseteq 1..Len(log)
      /\ \A e, f \in Seen : e = f \/ e.ids \cap f.ids = {}
      /\ \A j \in DOMAIN window : window[j].ids \subseteq 1..Len(log)
      /\ \A j, k \in DOMAIN window : j # k => window[j].ids \cap window[k].ids = {}
      /\ \A j \in DOMAIN window : \A e \in Seen : window[j].ids \cap e.ids = {}
  BY DEF IInv, Apart
<1>2. \A j \in DOMAIN window : Events(window)[j].ids = window[j].ids
  BY TakeMoves
<1>3. ASSUME NEW e \in Seen'
      PROVE  e \in Seen \/ \E j \in DOMAIN window : e = Events(window)[j]
  <2>1. CASE e \in stored \cup (UNION late)
    BY <2>1 DEF Seen
  <2>2. CASE e \in Range(events')
    <3>1. PICK k \in DOMAIN events' : e = events'[k]
      BY <2>2, RangeMember
    <3>2. CASE \E j \in DOMAIN pending : events'[k] = pending[j]
      BY <3>1, <3>2, RangeMember DEF Seen
    <3>3. CASE k \in DOMAIN window /\ events'[k] = Events(window)[k]
      BY <3>1, <3>3
    <3> QED
      BY <3>1, <3>2, <3>3, TakeMoves
  <2>3. stored' = stored /\ late' = late /\ Range(pending') = {}
    BY RangeEmpty DEF Take
  <2> QED
    BY <2>1, <2>2, <2>3, Zenon DEF Seen
<1>4. \A e \in Seen' : e.ids \subseteq 1..Len(log)
  BY <1>1, <1>2, <1>3
<1>5. \A e, f \in Seen' : e = f \/ e.ids \cap f.ids = {}
  <2> SUFFICES ASSUME NEW e \in Seen', NEW f \in Seen', e # f
               PROVE  e.ids \cap f.ids = {}
    OBVIOUS
  <2>1. CASE e \in Seen /\ f \in Seen
    BY <1>1, <2>1
  <2>2. CASE e \in Seen /\ \E k \in DOMAIN window : f = Events(window)[k]
    BY <1>1, <1>2, <2>2
  <2>3. CASE f \in Seen /\ \E j \in DOMAIN window : e = Events(window)[j]
    BY <1>1, <1>2, <2>3
  <2>4. ASSUME NEW j \in DOMAIN window, NEW k \in DOMAIN window,
               e = Events(window)[j], f = Events(window)[k]
        PROVE  e.ids \cap f.ids = {}
    BY <1>1, <1>2, <2>4
  <2> QED
    BY <1>3, <2>1, <2>2, <2>3, <2>4
<1>6. window' = <<>> /\ log' = log
  BY DEF Take
<1> QED
  BY <1>4, <1>5, <1>6 DEF Apart

LEMMA TakeKeepsHeld ==
  ASSUME IInv, Take
  PROVE  Timed' /\ LiveHeld'
<1>1. /\ window \in Seq(Entry) /\ pending \in Seq(Event) /\ events = <<>> /\ pending' = <<>>
      /\ window' = <<>> /\ log' = log /\ fate' = fate
      /\ DOMAIN window = 1..Len(window) /\ Len(window) \in Nat /\ Len(log) \in Nat
  BY TakeKeepsType, TypeCounts DEF Take
<1>2. \A j \in DOMAIN pending : pending[j].time <= Len(log) /\ pending[j].time \in Nat
  BY <1>1, EventParts DEF IInv, Timed
<1>3. \A k \in DOMAIN events' :
        \/ k \in DOMAIN window /\ events'[k].time = Len(log)
        \/ \E j \in DOMAIN pending : k = Len(window) + j /\ events'[k].time = pending[j].time
  BY TakeMoves
<1>4. \A k \in DOMAIN events' : events'[k].time <= Len(log)
  BY <1>1, <1>2, <1>3
<1>5. ASSUME NEW j \in DOMAIN events', NEW k \in DOMAIN events', j < k
      PROVE  events'[j].time >= events'[k].time
  <2>1. CASE j \in DOMAIN window
    <3>1. events'[j].time = Len(log)
      BY <2>1, TakeMoves
    <3>2. events'[k].time <= Len(log) /\ events'[k].time \in Nat
      BY <1>1, <1>2, <1>3
    <3> QED
      BY <1>1, <3>1, <3>2
  <2>2. CASE j \notin DOMAIN window
    <3>1. PICK a \in DOMAIN pending : j = Len(window) + a /\ events'[j].time = pending[a].time
      BY <1>3, <2>2
    <3>2. DOMAIN pending = 1..Len(pending) /\ a \in Nat /\ k \in Nat
      <4>1. events' \in Seq(Event)
        BY TakeKeepsType DEF TypeOK
      <4> QED
        BY <1>1, <4>1
    <3>3. k \notin DOMAIN window
      BY <1>1, <3>1, <3>2, <1>5
    <3>4. PICK b \in DOMAIN pending : k = Len(window) + b /\ events'[k].time = pending[b].time
      BY <1>3, <3>3
    <3>5. a < b
      BY <1>1, <1>5, <3>1, <3>2, <3>4
    <3>6. pending[a].time >= pending[b].time
      BY <3>5 DEF IInv, Timed, NewestFirst
    <3> QED
      BY <3>1, <3>4, <3>6
  <2> QED
    BY <2>1, <2>2
<1>6. NewestFirst(events')
  BY <1>5 DEF NewestFirst
<1>7. Timed'
  <2>1. NewestFirst(<<>>)
    BY DEF NewestFirst
  <2>2. NewestFirst(events)' /\ NewestFirst(pending)'
    BY <1>1, <1>6, <2>1 DEF NewestFirst
  <2> QED
    BY <1>1, <1>4, <2>2 DEF Timed
<1>8. IdsOf(events') = IdsOf(window) \cup IdsOf(pending)
  <2>1. ASSUME NEW x, x \in IdsOf(events')
        PROVE  x \in IdsOf(window) \cup IdsOf(pending)
    <3>1. PICK k \in DOMAIN events' : x \in events'[k].ids
      BY <2>1, IdsOfMember
    <3> QED
      BY <3>1, TakeMoves, IdsOfMember
  <2>2. ASSUME NEW x, x \in IdsOf(window)
        PROVE  x \in IdsOf(events')
    <3>1. PICK j \in DOMAIN window : x \in window[j].ids
      BY <2>2, IdsOfMember
    <3>2. j \in DOMAIN events' /\ x \in events'[j].ids
      BY <3>1, TakeMoves
    <3> QED
      BY <3>2, IdsOfMember
  <2>3. ASSUME NEW x, x \in IdsOf(pending)
        PROVE  x \in IdsOf(events')
    <3>1. PICK j \in DOMAIN pending : x \in pending[j].ids
      BY <2>3, IdsOfMember
    <3>2. PICK k \in DOMAIN events' : events'[k] = pending[j]
      BY TakeMoves
    <3> QED
      BY <3>1, <3>2, IdsOfMember
  <2> QED
    BY <2>1, <2>2, <2>3
<1>9. LiveHeld'
  <2>1. IdsOf(window)' = IdsOf(window') /\ IdsOf(events)' = IdsOf(events')
        /\ IdsOf(pending)' = IdsOf(pending')
    BY DEF IdsOf
  <2> QED
    BY <1>1, <1>8, <2>1, IdsOfEmpty DEF IInv, LiveHeld
<1> QED
  BY <1>7, <1>9

LEMMA TakeKeeps ==
  ASSUME IInv, Take
  PROVE  IInv'
<1>1. CountersAgree'
  BY CountersUnchanged DEF IInv, Take
<1> QED
  BY <1>1, TakeKeepsType, TakeKeepsApart, TakeKeepsHeld DEF IInv

-----------------------------------------------------------------------------
(* A post is confirmed. *)
LEMMA PostReturnsKeeps ==
  ASSUME IInv, PostReturns
  PROVE  IInv'
<1>1. /\ events' = <<>> /\ request' = "none" /\ rpc' \in {"sleep", "ended"}
      /\ fate' = Mark(IdsOf(events), "sent") /\ pending = <<>> /\ up
      /\ UNCHANGED <<boot, up, running, snapshot, changes, cpc, cur, counters, window,
                     pending, late, stored, log>>
  BY DEF PostReturns, Again, IInv, Stages
<1>2. fate' \in [Ids -> {"none", "live", "sent", "cut", "lost"}]
      /\ \A i \in Ids : fate'[i] = IF i \in IdsOf(events) THEN "sent" ELSE fate[i]
  BY <1>1 DEF IInv, TypeOK, Mark
<1>3. TypeOK'
  BY <1>1, <1>2 DEF IInv, TypeOK
<1>4. Stages'
  BY <1>1 DEF IInv, Stages
<1>5. \A i \in IdsOf(events) : i <= Len(log)
  BY EventsCounted
<1>6. Recorded'
  <2>1. \A i \in Ids : fate'[i] = "none" <=> i > Len(log)
    <3> TAKE i \in Ids
    <3>1. i \in Nat /\ Len(log) \in Nat
      BY TypeCounts DEF Ids
    <3>2. fate[i] = "none" <=> i > Len(log)
      BY DEF IInv, Recorded
    <3> QED
      BY <1>2, <1>5, <3>1, <3>2
  <2> QED
    BY <1>1, <2>1 DEF IInv, Recorded
<1>7. Apart'
  <2>1. Seen' \subseteq Seen
    BY <1>1, RangeEmpty DEF Seen
  <2> QED
    BY <1>1, <2>1, ApartShrinks DEF IInv
<1>8. Timed'
  BY <1>1 DEF IInv, Timed, NewestFirst
<1>9. LiveHeld'
  <2>1. {i \in Ids : fate[i] = "live"} = IdsOf(window) \cup IdsOf(events)
    BY <1>1, IdsOfEmpty DEF IInv, LiveHeld
  <2>2. IdsOf(window) \cap IdsOf(events) = {}
    BY HeldApart
  <2>3. {i \in Ids : fate'[i] = "live"} = IdsOf(window)
    BY <1>2, <2>1, <2>2
  <2>4. IdsOf(window)' = IdsOf(window) /\ IdsOf(events)' = {} /\ IdsOf(pending)' = {}
    BY <1>1 DEF IdsOf
  <2> QED
    BY <2>3, <2>4 DEF LiveHeld
<1>10. CountersAgree'
  BY <1>1, CountersUnchanged DEF IInv
<1> QED
  BY <1>3, <1>4, <1>6, <1>7, <1>8, <1>9, <1>10 DEF IInv

(* A post failed: the buffer was empty, and gets the end of the events. *)
LEMMA PostErrKeepsTail ==
  ASSUME IInv, PostErr
  PROVE  /\ pending = <<>> /\ events \in Seq(Event) /\ pending' \in Seq(Event)
         /\ Len(pending') <= PendingLimit /\ pending' = Kept(events)
         /\ fate' = Mark(IdsOf(events) \ IdsOf(pending'), "cut")
         /\ \E c \in Nat : /\ Len(pending') = Len(events) - c
                           /\ \A j \in DOMAIN pending' :
                                j + c \in DOMAIN events /\ pending'[j] = events[j + c]
<1>1. pending = <<>> /\ events \in Seq(Event)
  BY DEF IInv, TypeOK, Stages, PostErr
<1>2. pending \o events = events
  BY <1>1, ConcatEmptySeq
<1>3. pending' = Kept(events) /\ fate' = Mark(IdsOf(events) \ IdsOf(pending'), "cut")
  BY <1>2 DEF PostErr
<1>4. /\ Kept(events) \in Seq(Event) /\ Len(Kept(events)) <= PendingLimit
      /\ \E c \in Nat : /\ Len(Kept(events)) = Len(events) - c
                        /\ \A j \in 1..Len(Kept(events)) :
                             j + c \in 1..Len(events) /\ Kept(events)[j] = events[j + c]
  BY <1>1, KeptIsTail
<1>5. DOMAIN events = 1..Len(events) /\ DOMAIN Kept(events) = 1..Len(Kept(events))
  BY <1>1, <1>4
<1> QED
  BY <1>1, <1>3, <1>4, <1>5

LEMMA PostErrKeeps ==
  ASSUME IInv, PostErr
  PROVE  IInv'
<1>1. /\ events' = <<>> /\ request' = "none" /\ rpc' \in {"sleep", "ended"}
      /\ late' = (IF request = "sent" THEN late \cup {Range(events)} ELSE late)
      /\ up /\ UNCHANGED <<boot, up, running, snapshot, changes, cpc, cur, counters,
                           window, stored, log>>
  BY DEF PostErr, Again
<1>2. /\ pending = <<>> /\ events \in Seq(Event) /\ pending' \in Seq(Event)
      /\ Len(pending') <= PendingLimit
  BY PostErrKeepsTail
<1>3. fate' \in [Ids -> {"none", "live", "sent", "cut", "lost"}]
      /\ \A i \in Ids : fate'[i] =
           IF i \in IdsOf(events) \ IdsOf(pending') THEN "cut" ELSE fate[i]
  BY PostErrKeepsTail DEF IInv, TypeOK, Mark
<1>4. \A e \in Range(events) : e \in Event
  BY <1>2, RangeMember
<1>5. TypeOK'
  <2>1. late' \subseteq SUBSET Event
    BY <1>1, <1>4 DEF IInv, TypeOK
  <2> QED
    BY <1>1, <1>2, <1>3, <2>1 DEF IInv, TypeOK
<1>6. Stages'
  BY <1>1 DEF IInv, Stages
<1>7. \A i \in IdsOf(events) : i <= Len(log)
  BY EventsCounted
<1>8. Recorded'
  <2>1. \A i \in Ids : fate'[i] = "none" <=> i > Len(log)
    <3> TAKE i \in Ids
    <3>1. i \in Nat /\ Len(log) \in Nat
      BY TypeCounts DEF Ids
    <3>2. fate[i] = "none" <=> i > Len(log)
      BY DEF IInv, Recorded
    <3> QED
      BY <1>3, <1>7, <3>1, <3>2
  <2> QED
    BY <1>1, <2>1 DEF IInv, Recorded
<1>9. PICK c \in Nat : \A j \in DOMAIN pending' :
        j + c \in DOMAIN events /\ pending'[j] = events[j + c]
  BY PostErrKeepsTail
<1>10. Range(pending') \subseteq Range(events)
  BY <1>9, RangeMember
<1>11. Apart'
  <2>1. Seen' \subseteq Seen
    BY <1>1, <1>10, RangeEmpty DEF Seen
  <2> QED
    BY <1>1, <2>1, ApartShrinks DEF IInv
<1>12. Timed'
  <2>1. \A j \in DOMAIN pending' : pending'[j].time <= Len(log)
    BY <1>9 DEF IInv, Timed
  <2>2. NewestFirst(pending')
    <3> SUFFICES ASSUME NEW j \in DOMAIN pending', NEW k \in DOMAIN pending', j < k
                 PROVE  pending'[j].time >= pending'[k].time
      BY DEF NewestFirst
    <3>1. j + c < k + c
      BY <1>2
    <3>2. events[j + c].time >= events[k + c].time
      BY <1>9, <3>1 DEF IInv, Timed, NewestFirst
    <3> QED
      BY <1>9, <3>2
  <2>3. NewestFirst(pending)' /\ NewestFirst(events)'
    BY <1>1, <2>2 DEF NewestFirst
  <2> QED
    BY <1>1, <2>1, <2>3 DEF Timed
<1>13. LiveHeld'
  <2>1. {i \in Ids : fate[i] = "live"} = IdsOf(window) \cup IdsOf(events)
    BY <1>2, IdsOfEmpty DEF IInv, LiveHeld
  <2>2. IdsOf(window) \cap IdsOf(events) = {}
    BY HeldApart
  <2>3. IdsOf(pending') \subseteq IdsOf(events)
    BY <1>9, IdsOfMember
  <2>4. {i \in Ids : fate'[i] = "live"} = IdsOf(window) \cup IdsOf(pending')
    BY <1>3, <2>1, <2>2, <2>3
  <2>5. /\ IdsOf(window)' = IdsOf(window) /\ IdsOf(events)' = {}
        /\ IdsOf(pending)' = IdsOf(pending')
    BY <1>1 DEF IdsOf
  <2> QED
    BY <2>4, <2>5 DEF LiveHeld
<1>14. CountersAgree'
  BY <1>1, CountersUnchanged DEF IInv
<1> QED
  BY <1>5, <1>6, <1>8, <1>11, <1>12, <1>13, <1>14 DEF IInv

-----------------------------------------------------------------------------
(* The Console and the network move events out of requests only. *)
LEMMA ConsoleStoresKeeps ==
  ASSUME IInv, ConsoleStores
  PROVE  IInv'
<1>1. /\ request' = "stored" /\ stored' = stored \cup Range(events) /\ rpc = "post"
      /\ UNCHANGED <<boot, up, running, snapshot, changes, cpc, cur, counters, window,
                     pending, rpc, events, late, log, fate>>
  BY DEF ConsoleStores
<1>2. Range(events) \subseteq Event
  BY RangeMember DEF IInv, TypeOK
<1>3. TypeOK'
  BY <1>1, <1>2 DEF IInv, TypeOK
<1>4. Stages'
  BY <1>1 DEF IInv, Stages
<1>5. Recorded' /\ LiveHeld' /\ Timed' /\ CountersAgree'
  BY <1>1 DEF IInv, Recorded, LiveHeld, IdsOf, Timed, NewestFirst, CountersAgree
<1>6. Apart'
  <2>1. Seen' \subseteq Seen
    BY <1>1 DEF Seen
  <2> QED
    BY <1>1, <2>1, ApartShrinks DEF IInv
<1> QED
  BY <1>3, <1>4, <1>5, <1>6 DEF IInv

LEMMA LateRequestKeeps ==
  ASSUME IInv, NEW b \in late, LateRequest(b)
  PROVE  IInv'
<1>1. /\ late' \subseteq late /\ stored' \subseteq stored \cup b
      /\ UNCHANGED <<boot, up, running, snapshot, changes, cpc, cur, counters, window,
                     pending, rpc, events, request, log, fate>>
  BY DEF LateRequest
<1>2. stored' \subseteq Event /\ late' \subseteq SUBSET Event
  BY <1>1 DEF IInv, TypeOK
<1>3. TypeOK'
  BY <1>1, <1>2 DEF IInv, TypeOK
<1>4. Stages'
  BY <1>1 DEF IInv, Stages
<1>5. Recorded' /\ LiveHeld' /\ Timed' /\ CountersAgree'
  BY <1>1 DEF IInv, Recorded, LiveHeld, IdsOf, Timed, NewestFirst, CountersAgree
<1>6. Apart'
  <2>1. Seen' \subseteq Seen
    BY <1>1 DEF Seen
  <2> QED
    BY <1>1, <2>1, ApartShrinks DEF IInv
<1> QED
  BY <1>3, <1>4, <1>5, <1>6 DEF IInv

-----------------------------------------------------------------------------
(* The process ends and starts. *)
LEMMA DieKeeps ==
  ASSUME IInv, Die
  PROVE  IInv'
<1>1. /\ ~up' /\ up' \in BOOLEAN /\ running' \in BOOLEAN
      /\ snapshot' = DefaultPolicy /\ changes' = 0 /\ cpc' = "read" /\ cur' = NoQuery
      /\ counters' = [d \in Domains |-> 0] /\ window' = <<>> /\ pending' = <<>>
      /\ rpc' = "ended" /\ events' = <<>> /\ request' = "none"
      /\ late' = (IF rpc = "post" /\ request = "sent" THEN late \cup {Range(events)} ELSE late)
      /\ boot' = boot /\ stored' = stored /\ log' = log
      /\ fate' = Mark({i \in Ids : fate[i] = "live"}, "lost")
  BY DEF Die
<1>2. fate' \in [Ids -> {"none", "live", "sent", "cut", "lost"}]
      /\ \A i \in Ids : fate'[i] = IF fate[i] = "live" THEN "lost" ELSE fate[i]
  BY <1>1 DEF IInv, TypeOK, Mark
<1>3. Range(events) \subseteq Event
  BY RangeMember DEF IInv, TypeOK
<1>4. TypeOK'
  <2>1. late' \subseteq SUBSET Event
    BY <1>1, <1>3 DEF IInv, TypeOK
  <2>2. changes' \in 0..MaxPolicies /\ counters' \in [Domains -> Nat]
        /\ Len(<<>>) <= PendingLimit /\ <<>> \in Seq(Event) /\ <<>> \in Seq(Entry)
    BY <1>1, DnsReportAssumption DEF DnsReportAssumption
  <2> QED
    BY <1>1, <1>2, <2>1, <2>2 DEF IInv, TypeOK
<1>5. Stages'
  BY <1>1 DEF Stages
<1>6. Recorded'
  BY <1>1, <1>2 DEF IInv, Recorded
<1>7. Apart'
  <2>1. Seen' \subseteq Seen
    BY <1>1, RangeEmpty DEF Seen
  <2> QED
    BY <1>1, <2>1, ApartShrinks DEF IInv
<1>8. Timed'
  BY <1>1 DEF Timed, NewestFirst
<1>9. LiveHeld'
  <2>1. {i \in Ids : fate'[i] = "live"} = {}
    BY <1>2
  <2>2. IdsOf(window)' = {} /\ IdsOf(events)' = {} /\ IdsOf(pending)' = {}
    BY <1>1 DEF IdsOf
  <2> QED
    BY <2>1, <2>2 DEF LiveHeld
<1>10. CountersAgree'
  BY <1>1 DEF CountersAgree
<1> QED
  BY <1>4, <1>5, <1>6, <1>7, <1>8, <1>9, <1>10 DEF IInv

LEMMA RestartKeeps ==
  ASSUME IInv, Restart
  PROVE  IInv'
<1>1. /\ up' = TRUE /\ running' = TRUE /\ boot' = boot + 1 /\ rpc' = "sleep" /\ ~up
      /\ UNCHANGED <<snapshot, changes, cpc, cur, counters, window, pending, events,
                     request, late, stored, log, fate>>
  BY DEF Restart
<1>2. boot \in Nat /\ boot + 1 \in Nat
  BY DEF IInv, TypeOK
<1>3. TypeOK'
  BY <1>1, <1>2 DEF IInv, TypeOK
<1>4. Stages'
  BY <1>1 DEF IInv, Stages
<1>5. \A i \in DOMAIN log : log[i].boot <= boot /\ log[i].boot \in Nat
  <2> DEFINE Record == [domain : Domains, status : Statuses, boot : Nat]
  <2>1. log \in Seq(Record)
    BY DEF IInv, TypeOK
  <2>2. \A i \in DOMAIN log : log[i] \in Record
    <3> HIDE DEF Record
    <3> QED
      BY <2>1
  <2>3. \A r \in Record : r.boot \in Nat
    OBVIOUS
  <2> HIDE DEF Record
  <2> QED
    BY <2>2, <2>3 DEF IInv, Recorded
<1>6. \A i \in DOMAIN log : log[i].boot <= boot + 1 /\ log[i].boot # boot + 1
  BY <1>2, <1>5
<1>7. Recorded'
  BY <1>1, <1>6 DEF IInv, Recorded
<1>8. Timed' /\ LiveHeld'
  BY <1>1 DEF IInv, Timed, NewestFirst, LiveHeld, IdsOf
<1>9. Apart'
  <2>1. Seen' \subseteq Seen
    BY <1>1 DEF Seen
  <2> QED
    BY <1>1, <2>1, ApartShrinks DEF IInv
<1>10. CountersAgree'
  <2> SUFFICES ASSUME NEW d \in Domains
               PROVE  counters'[d] = Cardinality(Counted(d, boot + 1, log))
    BY <1>1 DEF CountersAgree, Counted
  <2>1. Counted(d, boot + 1, log) = {}
    BY <1>6 DEF Counted
  <2>2. counters'[d] = 0
    BY <1>1 DEF IInv, Stages
  <2> QED
    BY <2>1, <2>2, FS_EmptySet
<1> QED
  BY <1>3, <1>4, <1>7, <1>8, <1>9, <1>10 DEF IInv

LEMMA InitHolds ==
  ASSUME Init
  PROVE  IInv
<1>1. /\ Len(<<>>) = 0 /\ 0 <= PendingLimit /\ 0 \in 0..MaxPolicies /\ 0 <= MaxQueries
  BY DnsReportAssumption DEF DnsReportAssumption
<1>2. TypeOK
  BY <1>1 DEF Init, TypeOK
<1>3. Stages
  BY DEF Init, Stages
<1>4. Recorded
  BY <1>1 DEF Init, Recorded, Ids
<1>5. Seen = {}
  BY RangeEmpty DEF Init, Seen
<1>6. Apart
  BY <1>5 DEF Init, Apart
<1>7. Timed /\ LiveHeld
  BY IdsOfEmpty DEF Init, Timed, NewestFirst, LiveHeld
<1>8. CountersAgree
  <2>1. \A d \in Domains : Counted(d, boot, log) = {} /\ counters[d] = 0
    BY DEF Init, Counted
  <2> QED
    BY <2>1, FS_EmptySet DEF CountersAgree, Counted
<1> QED
  BY <1>2, <1>3, <1>4, <1>6, <1>7, <1>8 DEF IInv

(* Every step keeps the inductive invariant. *)
LEMMA NextKeeps ==
  ASSUME IInv, [Next]_vars
  PROVE  IInv'
<1>1. CASE \E p \in Policies : InstallPolicy(p)
  BY <1>1, InstallPolicyKeeps
<1>2. CASE \E d \in Domains : Decide(d)
  BY <1>2, DecideKeeps
<1>3. CASE Count
  BY <1>3, CountKeeps
<1>4. CASE Take
  BY <1>4, TakeKeeps
<1>5. CASE TakeNothing
  BY <1>5, TakeNothingKeeps
<1>6. CASE PostOk
  BY <1>6, PostReturnsKeeps DEF PostOk
<1>7. CASE PostErr
  BY <1>7, PostErrKeeps
<1>8. CASE ConsoleStores
  BY <1>8, ConsoleStoresKeeps
<1>9. CASE \E b \in late : LateRequest(b)
  BY <1>9, LateRequestKeeps
<1>10. CASE Stop
  BY <1>10, StopKeeps
<1>11. CASE Die
  BY <1>11, DieKeeps
<1>12. CASE Restart
  BY <1>12, RestartKeeps
<1>13. CASE UNCHANGED vars
  BY <1>13, StutterKeeps
<1> QED
  BY <1>1, <1>2, <1>3, <1>4, <1>5, <1>6, <1>7, <1>8, <1>9, <1>10, <1>11, <1>12, <1>13
     DEF Next

(* The inductive invariant holds of every behaviour: report_loop and       *)
(* _process_line keep every query counted in one place and the buffer in   *)
(* order, whatever the Console answers and whenever the process dies.      *)
THEOREM Invariance == Spec => []IInv
<1>1. Init => IInv
  BY InitHolds
<1>2. IInv /\ [Next]_vars => IInv'
  BY NextKeeps
<1> QED
  BY <1>1, <1>2, PTL DEF Spec

-----------------------------------------------------------------------------
(* Types; the buffer of failed posts keeps within its limit, for every     *)
(* limit (collector.py:321).                                               *)
THEOREM TypeCorrect == Spec => []TypeOK
<1>1. IInv => TypeOK
  BY DEF IInv
<1> QED
  BY <1>1, Invariance, PTL

(* A query of the process that is neither confirmed nor cut is in exactly  *)
(* one of the window, the post under way and the buffer                    *)
(* (collector.py:290-295, 310, 321).                                       *)
THEOREM QueriesStay == Spec => []QueriesConserved
<1>1. IInv => QueriesConserved
  BY HeldApart DEF IInv, LiveHeld, QueriesConserved
<1> QED
  BY <1>1, Invariance, PTL

(* The counters on /metrics are the numbers of the process's queries       *)
(* (collector.py:260-266).                                                 *)
THEOREM MetricsAreExact == Spec => []CountersAgree
<1>1. IInv => CountersAgree
  BY DEF IInv
<1> QED
  BY <1>1, Invariance, PTL

(* Two events share no query, however often they are posted, stored and    *)
(* merged into a later post (collector.py:291-295).                        *)
THEOREM EventsShareNothing == Spec => []EventsDisjoint
<1>1. IInv => EventsDisjoint
  BY DEF IInv, Apart, Seen, EventsDisjoint
<1> QED
  BY <1>1, Invariance, PTL

-----------------------------------------------------------------------------
(* What a step may cut. *)
CutsNewest ==
  \A i \in Ids : (fate[i] = "live" /\ fate'[i] = "cut") =>
    \A e \in Range(events) : \A f \in Range(pending') : i \in e.ids => e.time >= f.time

(* Only a failed post cuts. *)
LEMMA OnlyErrorsCut ==
  ASSUME IInv, [Next]_vars, ~PostErr, NEW i \in Ids, fate[i] = "live"
  PROVE  fate'[i] # "cut"
<1>1. CASE Count
  BY <1>1 DEF Count, Mark
<1>2. CASE PostOk
  BY <1>2 DEF PostOk, PostReturns, Mark
<1>3. CASE Die
  BY <1>3 DEF Die, Mark
<1>4. CASE ~Count /\ ~PostOk /\ ~Die
  BY <1>4 DEF Next, vars, InstallPolicy, Decide, Take, TakeNothing, ConsoleStores,
     LateRequest, Stop, Restart
<1> QED
  BY <1>1, <1>2, <1>3, <1>4

LEMMA ErrorCutsNewest ==
  ASSUME IInv, PostErr
  PROVE  CutsNewest
<1> SUFFICES ASSUME NEW i \in Ids, fate[i] = "live", fate'[i] = "cut",
                    NEW e \in Range(events), NEW f \in Range(pending'), i \in e.ids
             PROVE  e.time >= f.time
  BY DEF CutsNewest
<1>1. /\ events \in Seq(Event) /\ pending' \in Seq(Event)
      /\ fate' = Mark(IdsOf(events) \ IdsOf(pending'), "cut")
  BY PostErrKeepsTail
<1>2. i \notin IdsOf(pending')
  BY <1>1 DEF Mark
<1>3. PICK c \in Nat : /\ Len(pending') = Len(events) - c
                       /\ \A j \in DOMAIN pending' :
                            j + c \in DOMAIN events /\ pending'[j] = events[j + c]
  BY PostErrKeepsTail
<1>4. PICK j \in DOMAIN events : e = events[j]
  BY RangeMember
<1>5. PICK k \in DOMAIN pending' : f = pending'[k]
  BY RangeMember
<1>6. f = events[k + c] /\ k + c \in DOMAIN events
  BY <1>3, <1>5
<1>7. j <= c
  <2> SUFFICES ASSUME j > c PROVE FALSE
    BY <1>1
  <2>1. j - c \in DOMAIN pending' /\ (j - c) + c = j
    <3>1. /\ DOMAIN pending' = 1..Len(pending') /\ DOMAIN events = 1..Len(events)
          /\ Len(events) \in Nat /\ Len(pending') \in Nat
      BY <1>1
    <3> QED
      BY <1>3, <3>1
  <2>2. pending'[j - c] = e
    BY <1>3, <1>4, <2>1
  <2> QED
    BY <1>2, <2>1, <2>2, IdsOfMember
<1>8. j < k + c
  BY <1>1, <1>7
<1> QED
  BY <1>4, <1>6, <1>8 DEF IInv, Timed, NewestFirst

(* The limit of the buffer falls upon the newest events of a failed post   *)
(* (collector.py:310, 321).                                                *)
THEOREM OldestSurvive == Spec => BacklogKeepsOldest
<1>1. IInv /\ [Next]_vars => [CutsNewest]_vars
  BY OnlyErrorsCut, ErrorCutsNewest DEF CutsNewest
<1> QED
  BY <1>1, Invariance, PTL DEF Spec, BacklogKeepsOldest, CutsNewest
=============================================================================
