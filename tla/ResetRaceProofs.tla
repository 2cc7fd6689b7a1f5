--------------------------- MODULE ResetRaceProofs ---------------------------
(***************************************************************************)
(* Theorems about ResetRace, for every connection, every payload and every *)
(* set of offsets.  First its types, with the invariant of TcpResetProofs  *)
(* for the table; then that the table takes the steps TcpReset describes;  *)
(* then, along what the line, the mirror and the table each know of the    *)
(* two positions, that a sweep nothing interferes with hits.               *)
(***************************************************************************)
EXTENDS ResetRace, TcpResetProofs

Circle == 0..(W - 1)

(* What the line carries to an endpoint, and what the mirror holds. *)
Sweeps == [rst : {TRUE}, at : SUBSET Circle]
Payloads(e) == [rst : {FALSE}, len : Lens[Peer(e)]]
Frames(e) == Payloads(e) \cup Sweeps
Mirrored == [dir : Directions, own : {FALSE, echo}, seg : [seq : Circle, ack : Circle, len : Nat]]

(* The endpoints, what was seen of them, and the program's own books. *)
Books ==
  /\ {nxt, snd, seqs} \subseteq [Ends -> Circle]
  /\ {open, owes} \subseteq [Ends -> BOOLEAN] /\ echo \in BOOLEAN
  /\ data \in [Ends -> Nat] /\ \A e \in Ends : data[e] <= MaxData[echo][e]
  /\ mac \in {"none", "server", "self"} /\ (mac = "self" => echo)

Wired == DOMAIN wire = Ends /\ \A e \in Ends : wire[e] \in Seq(Frames(e))
Mirroring == mirror \in Seq(Mirrored)
Queued == out \in Seq([Ends -> Seq(Sweeps)])

RInv == IInv /\ Books /\ Wired /\ Mirroring /\ Queued

-----------------------------------------------------------------------------
(* The one connection, its two ends and its one key. *)
LEMMA TwoEnds ==
  /\ Endpoints = Ends /\ Client # Server
  /\ Client \in [ip : Nat, port : Nat] /\ Server \in [ip : Nat, port : Nat]
  /\ Directions = {<<Client, Server>>, <<Server, Client>>}
<1>1. Connections = {<<Client, Server>>} /\ Client.port # Server.port
  BY RaceAssumption DEF RaceAssumption
<1>2. Endpoints = Ends
  BY <1>1 DEF Endpoints, Ends
<1>3. Directions = {<<Client, Server>>, <<Server, Client>>}
  BY <1>1 DEF Directions
<1>4. \A e \in Endpoints : e \in [ip : Nat, port : Nat]
  BY ResetAssumption DEF ResetAssumption
<1> QED
  BY <1>1, <1>2, <1>3, <1>4 DEF Ends

LEMMA Peers ==
  ASSUME NEW e \in Ends
  PROVE  /\ Peer(e) \in Ends /\ Peer(e) # e /\ Peer(Peer(e)) = e
         /\ <<e, Peer(e)>> \in Directions
BY TwoEnds DEF Ends, Peer

LEMMA OtherWay ==
  ASSUME NEW d \in Directions
  PROVE  d[1] \in Ends /\ d[2] = Peer(d[1]) /\ d = <<d[1], Peer(d[1])>>
BY TwoEnds DEF Ends, Peer

LEMMA OneKey == Keys = {Key} /\ \A d \in Directions : FlowKey(d[1], d[2]) = Key
<1>1. FlowKey(Server, Client) = FlowKey(Client, Server)
  BY TwoEnds, FlowKeySymmetric
<1>2. \A d \in Directions : FlowKey(d[1], d[2]) = Key
  BY <1>1, TwoEnds DEF Key
<1>3. Directions # {}
  BY TwoEnds
<1> QED
  BY <1>2, <1>3 DEF Keys

(* The session of the connection is between its ends. *)
LEMMA SessionEnds ==
  ASSUME NEW s, Kept(Key, s)
  PROVE  {s.client, s.server} = Ends /\ s.server = Peer(s.client) /\ s.client \in Ends
<1>1. s.client \in Ends /\ s.server \in Ends
  BY TwoEnds DEF Kept, Session
<1>2. FlowKey(s.client, s.server) = Key
  BY DEF Kept
<1>3. s.client # s.server
  <2>1. \A e : FlowKey(e, e) = <<e, e>>
    BY DEF FlowKey
  <2>2. Key[1] # Key[2]
    BY TwoEnds DEF Key, FlowKey
  <2> QED
    BY <1>2, <2>1, <2>2
<1> QED
  BY <1>1, <1>3, TwoEnds DEF Ends, Peer

LEMMA Dead == ASSUME IInv PROVE Session0 = NoSession \/ (Session0.live /\ Kept(Key, Session0))
<1>1. Key \in Keys
  BY OneKey
<1>2. Session0 \in Session \cup {NoSession}
  BY <1>1 DEF IInv, Session0
<1>3. Session0 \in Session => Session0.live
  BY DEF Session
<1> QED
  BY <1>1, <1>2, <1>3 DEF IInv, Live, Session0

LEMMA Moduli == \A x \in Int : x % W \in Circle
BY ResetAssumption DEF ResetAssumption, Circle

LEMMA LensTyped == \A e \in Ends : Lens[e] \subseteq 1..(W - 1) /\ Lens[e] \subseteq Nat
BY RaceAssumption, ResetAssumption DEF RaceAssumption, ResetAssumption, Ends

(* Sequences, of whatever they are. *)
LEMMA Sequences1 ==
  ASSUME NEW S, NEW s \in Seq(S)
  PROVE  /\ \A x \in S : Append(s, x) \in Seq(S)
         /\ \A t \in Seq(S) : s \o t \in Seq(S)
         /\ s # <<>> => Head(s) \in S /\ Tail(s) \in Seq(S)
         /\ \A i \in DOMAIN s : s[i] \in S
OBVIOUS

LEMMA Subsets ==
  ASSUME NEW S, NEW T, S \subseteq T, NEW s \in Seq(S)
  PROVE  s \in Seq(T)
OBVIOUS
-----------------------------------------------------------------------------
LEMMA InitRInv == RaceInit => RInv
<1> SUFFICES ASSUME RaceInit PROVE RInv
  OBVIOUS
<1>1. IInv
  BY InitIInv DEF RaceInit
<1>2. Start \in [Ends -> Circle] /\ 0 \in Circle /\ MaxData \in [BOOLEAN -> [Ends -> Nat]]
  BY RaceAssumption, ResetAssumption DEF RaceAssumption, ResetAssumption, Ends, Circle
<1>3. Books
  <2>1. snd \in [Ends -> Circle]
    BY <1>2, Peers DEF RaceInit
  <2>2. nxt \in [Ends -> Circle] /\ seqs \in [Ends -> Circle]
    BY <1>2 DEF RaceInit
  <2>3. data \in [Ends -> Nat] /\ \A e \in Ends : data[e] <= MaxData[echo][e]
    <3>1. \A e \in Ends : MaxData[echo][e] \in Nat /\ data[e] = 0
      BY <1>2 DEF RaceInit
    <3> QED
      BY <3>1 DEF RaceInit
  <2> QED
    BY <2>1, <2>2, <2>3 DEF RaceInit, Books
<1>4. Wired
  BY DEF RaceInit, Wired
<1>5. Mirroring /\ Queued
  BY DEF RaceInit, Mirroring, Queued
<1> QED
  BY <1>1, <1>3, <1>4, <1>5 DEF RInv

(* The three parts that a step may leave alone. *)
LEMMA SameTable == IInv /\ UNCHANGED sessions => IInv'
BY DEF IInv, Live

LEMMA SameMirror == Mirroring /\ UNCHANGED <<mirror, echo>> => Mirroring'
BY DEF Mirroring, Mirrored

LEMMA SameWire == Wired /\ UNCHANGED wire => Wired'
BY DEF Wired

LEMMA FramesStay == \A e \in Ends : Frames(e)' = Frames(e)
BY DEF Frames, Payloads, Sweeps

LEMMA WireGrows ==
  ASSUME Wired, NEW e \in Ends, NEW m \in Frames(e), wire' = [wire EXCEPT ![e] = Append(@, m)]
  PROVE  Wired'
<1>1. wire[e] \in Seq(Frames(e))
  BY DEF Wired
<1> DEFINE F == Frames(e)
<1>2. Append(wire[e], m) \in Seq(F)
  <2> HIDE DEF F
  <2>1. wire[e] \in Seq(F) /\ m \in F
    BY <1>1 DEF F
  <2> QED
    BY <2>1, Sequences1
<1> QED
  BY <1>2, FramesStay DEF Wired

(* An endpoint that sends. *)
LEMMA TransmitTyped ==
  ASSUME RInv, NEW e \in Ends, NEW n \in Nat, n = 0 \/ n \in Lens[e], Transmit(e, n),
         data' \in [Ends -> Nat], \A f \in Ends : data'[f] <= MaxData[echo][f]
  PROVE  RInv'
<1> USE DEF RInv
<1>1. IInv' /\ Queued'
  BY SameTable DEF Transmit, Queued, Sweeps
<1>2. snd[e] \in Circle /\ nxt[e] \in Circle
  BY DEF Books
<1>3. (snd[e] + n) % W \in Circle
  BY <1>2, Moduli DEF Circle
<1>4. Books'
  <2>1. snd' \in [Ends -> Circle]
    BY <1>3 DEF Transmit, Books
  <2>2. owes' \in [Ends -> BOOLEAN]
    BY DEF Transmit, Books
  <2> QED
    BY <2>1, <2>2 DEF Transmit, Books
<1>5. Wired'
  <2>1. CASE n = 0
    BY <2>1, SameWire DEF Transmit
  <2>2. CASE n # 0
    <3>1. [rst |-> FALSE, len |-> n] \in Frames(Peer(e)) /\ Peer(e) \in Ends
      BY <2>2, Peers DEF Frames, Payloads
    <3>2. wire' = [wire EXCEPT ![Peer(e)] = Append(@, [rst |-> FALSE, len |-> n])]
      BY <2>2 DEF Transmit
    <3> QED
      BY <3>1, <3>2, WireGrows
  <2> QED
    BY <2>1, <2>2
<1>6. Mirroring'
  <2> DEFINE p == [dir |-> <<e, Peer(e)>>, own |-> FALSE,
                   seg |-> [seq |-> snd[e], ack |-> nxt[e], len |-> n]]
  <2>1. p \in Mirrored
    BY <1>2, Peers DEF Mirrored
  <2>2. mirror' = Append(mirror, p) /\ echo' = echo
    BY DEF Transmit
  <2>3. mirror' \in Seq(Mirrored)
    <3> HIDE DEF p
    <3> QED
      BY <2>1, <2>2, Sequences1 DEF Mirroring
  <2> QED
    BY <2>2, <2>3 DEF Mirroring, Mirrored
<1> QED
  BY <1>1, <1>4, <1>5, <1>6

LEMMA SendDataTyped ==
  ASSUME RInv, NEW e \in Ends, SendData(e)
  PROVE  RInv'
<1>1. PICK n \in Lens[e] : Transmit(e, n)
  BY DEF SendData
<1>2. n \in Nat
  BY LensTyped
<1>3. MaxData[echo] \in [Ends -> Nat]
  BY RaceAssumption DEF RaceAssumption, RInv, Books, Ends
<1>4. data' \in [Ends -> Nat] /\ \A f \in Ends : data'[f] <= MaxData[echo][f]
  <2> DEFINE M == MaxData[echo]
  <2>1. data[e] < M[e] /\ data' = [data EXCEPT ![e] = @ + 1]
    BY DEF SendData
  <2>2. data \in [Ends -> Nat] /\ \A f \in Ends : data[f] <= M[f]
    BY DEF RInv, Books
  <2>3. M \in [Ends -> Nat]
    BY <1>3
  <2> HIDE DEF M
  <2>4. data' \in [Ends -> Nat] /\ \A f \in Ends : data'[f] <= M[f]
    BY <2>1, <2>2, <2>3
  <2> QED
    BY <2>4 DEF M
<1> QED
  BY <1>1, <1>2, <1>4, TransmitTyped

LEMMA AckTyped ==
  ASSUME RInv, NEW e \in Ends, Ack(e)
  PROVE  RInv'
<1>1. Transmit(e, 0) /\ data' = data
  BY DEF Ack
<1> QED
  BY <1>1, TransmitTyped DEF RInv, Books
(* An endpoint that takes a frame off the line. *)
LEMMA DeliverTyped ==
  ASSUME RInv, NEW e \in Ends, Deliver(e)
  PROVE  RInv'
<1> USE DEF RInv
<1> DEFINE m == Head(wire[e])
<1>1. IInv' /\ Mirroring' /\ Queued'
  BY SameTable, SameMirror DEF Deliver, Queued, Sweeps
<1>2. m \in Frames(e) /\ Tail(wire[e]) \in Seq(Frames(e))
  <2> DEFINE F == Frames(e)
             s == wire[e]
  <2>1. s \in Seq(F) /\ s # <<>>
    BY DEF Wired, Deliver
  <2> HIDE DEF F, s
  <2>2. Head(s) \in F /\ Tail(s) \in Seq(F)
    BY <2>1, Sequences1
  <2> QED
    BY <2>2 DEF F, s
<1>3. Wired'
  BY <1>2, FramesStay DEF Wired, Deliver
<1>4. /\ nxt' \in [Ends -> Circle] /\ open' \in [Ends -> BOOLEAN] /\ owes' \in [Ends -> BOOLEAN]
  <2>1. CASE m.rst
    <3>1. nxt' = nxt /\ open' = [open EXCEPT ![e] = @ /\ nxt[e] \notin m.at]
          /\ owes' = [owes EXCEPT ![e] = @ \/ \E q \in m.at : Ahead(q, nxt[e])]
      BY <2>1 DEF Deliver
    <3>2. (open[e] /\ nxt[e] \notin m.at) \in BOOLEAN
          /\ (owes[e] \/ \E q \in m.at : Ahead(q, nxt[e])) \in BOOLEAN
      OBVIOUS
    <3> QED
      BY <3>1, <3>2 DEF Books
  <2>2. CASE ~m.rst
    <3>1. nxt' = [nxt EXCEPT ![e] = (@ + m.len) % W] /\ owes' = [owes EXCEPT ![e] = TRUE]
          /\ open' = open
      BY <2>2 DEF Deliver
    <3>2. m.len \in Lens[Peer(e)]
      BY <1>2, <2>2 DEF Frames, Payloads, Sweeps
    <3>3. m.len \in Nat /\ nxt[e] \in Nat
      <4>1. Lens[Peer(e)] \subseteq Nat
        BY LensTyped, Peers
      <4>2. nxt[e] \in Circle /\ Circle \subseteq Nat
        BY DEF Books, Circle
      <4> QED
        BY <3>2, <4>1, <4>2
    <3>4. (nxt[e] + m.len) % W \in Circle
      BY <3>3, Moduli
    <3> QED
      BY <3>1, <3>4 DEF Books
  <2> QED
    BY <2>1, <2>2
<1>5. Books'
  BY <1>4 DEF Books, Deliver
<1> QED
  BY <1>1, <1>3, <1>5

(* A sweep that gets on the line. *)
LEMMA LaunchTyped ==
  ASSUME RInv, Launch
  PROVE  RInv'
<1> USE DEF RInv
<1>1. IInv' /\ Mirroring' /\ Books'
  BY SameTable, SameMirror DEF Launch, Books
<1>2. Head(out) \in [Ends -> Seq(Sweeps)] /\ Tail(out) \in Seq([Ends -> Seq(Sweeps)])
  <2> DEFINE F == [Ends -> Seq(Sweeps)]
  <2>1. out \in Seq(F) /\ out # <<>>
    BY DEF Queued, Launch
  <2> HIDE DEF F
  <2>2. Head(out) \in F /\ Tail(out) \in Seq(F)
    BY <2>1, Sequences1
  <2> QED
    BY <2>2 DEF F
<1>3. Queued'
  BY <1>2 DEF Queued, Launch, Sweeps
<1>4. ASSUME NEW e \in Ends PROVE wire[e] \o Head(out)[e] \in Seq(Frames(e))
  <2> DEFINE F == Frames(e)
             s == wire[e]
             t == Head(out)[e]
             B == Sweeps
  <2>1. s \in Seq(F) /\ t \in Seq(B) /\ B \subseteq F
    BY <1>2, <1>4 DEF Wired, Frames
  <2> HIDE DEF F, s, t, B
  <2>2. t \in Seq(F)
    BY <2>1, Subsets
  <2>3. s \o t \in Seq(F)
    BY <2>1, <2>2, Sequences1
  <2> QED
    BY <2>3 DEF F, s, t
<1>5. Wired'
  BY <1>4, FramesStay DEF Wired, Launch
<1> QED
  BY <1>1, <1>3, <1>5

-----------------------------------------------------------------------------
(* A packet off the mirror is one the table can take. *)
LEMMA MirroredIsCaptured == \A p \in Mirrored : Captured(p)
BY DEF Mirrored, Captured, Circle

LEMMA HandleTable ==
  ASSUME RInv, Handle
  PROVE  IInv' /\ Head(mirror) \in Mirrored /\ Tail(mirror) \in Seq(Mirrored)
<1>1. mirror \in Seq(Mirrored) /\ mirror # <<>>
  BY DEF Handle, RInv, Mirroring
<1>2. Head(mirror) \in Mirrored /\ Tail(mirror) \in Seq(Mirrored)
  <2> DEFINE M == Mirrored
  <2>1. mirror \in Seq(M)
    BY <1>1
  <2> HIDE DEF M
  <2>2. Head(mirror) \in M /\ Tail(mirror) \in Seq(M)
    BY <1>1, <2>1, Sequences1
  <2> QED
    BY <2>2 DEF M
<1>3. PICK verdict \in BOOLEAN : HandlePacket(Head(mirror), verdict, FALSE)
  BY DEF Handle
<1>4. Captured(Head(mirror))
  BY <1>2, MirroredIsCaptured
<1>5. IInv'
  BY <1>3, <1>4, HandlePacketKeeps DEF RInv
<1> QED
  BY <1>2, <1>5

(* The positions of a sweep. *)
LEMMA BurstTyped ==
  ASSUME NEW base \in Circle
  PROVE  /\ Burst(base) \in Sweeps /\ RstSeqSet(base) \in Seq(Circle)
         /\ DOMAIN RstSeqSet(base) = 1..Len(Offsets)
<1>1. Offsets \in Seq(Int)
  BY RaceAssumption DEF RaceAssumption
<1>2. \A i \in DOMAIN Offsets : (base + Offsets[i]) % W \in Circle
  <2> TAKE i \in DOMAIN Offsets
  <2>1. base \in Int /\ Offsets[i] \in Int
    BY <1>1, ResetAssumption DEF Circle, ResetAssumption
  <2>2. base + Offsets[i] \in Int
    BY <2>1
  <2> QED
    BY <2>2, Moduli
<1>3. RstSeqSet(base) \in Seq(Circle) /\ DOMAIN RstSeqSet(base) = 1..Len(Offsets)
  <2> DEFINE s == RstSeqSet(base)
  <2>1. DOMAIN s = 1..Len(Offsets) /\ Len(Offsets) \in Nat
    BY <1>1 DEF RstSeqSet
  <2>2. \A i \in 1..Len(Offsets) : s[i] \in Circle
    BY <1>1, <1>2 DEF RstSeqSet
  <2>3. s = [i \in 1..Len(Offsets) |-> s[i]]
    BY <1>1 DEF RstSeqSet
  <2> HIDE DEF s
  <2>4. s \in Seq(Circle)
    BY <2>1, <2>2, <2>3
  <2> QED
    BY <2>1, <2>4 DEF s
<1>4. {RstSeqSet(base)[i] : i \in DOMAIN RstSeqSet(base)} \subseteq Circle
  BY <1>3
<1> QED
  BY <1>3, <1>4 DEF Burst, Sweeps

LEMMA EchoesTyped ==
  ASSUME NEW d \in Directions, NEW base \in Circle, NEW ack \in Circle, echo
  PROVE  Echoes(d[1], d[2], base, ack) \in Seq(Mirrored)
<1> DEFINE s == Echoes(d[1], d[2], base, ack)
           r == RstSeqSet(base)
           N == Len(Offsets)
<1>1. r \in Seq(Circle) /\ DOMAIN r = 1..N /\ N \in Nat
  BY BurstTyped, RaceAssumption DEF RaceAssumption
<1>2. d = <<d[1], d[2]>>
  BY OtherWay
<1>3. DOMAIN s = 1..N /\ s = [i \in 1..N |-> s[i]]
  BY <1>1 DEF Echoes
<1>4. \A i \in 1..N : s[i] \in Mirrored
  <2> TAKE i \in 1..N
  <2>1. r[i] \in Circle
    BY <1>1
  <2>2. s[i] = [dir |-> d, own |-> TRUE, seg |-> [seq |-> r[i], ack |-> ack, len |-> 0]]
    BY <1>1, <1>2 DEF Echoes
  <2> QED
    BY <2>1, <2>2 DEF Mirrored
<1> HIDE DEF s, N
<1>5. s \in Seq(Mirrored)
  <2> DEFINE M == Mirrored
  <2>1. \A i \in 1..N : s[i] \in M
    BY <1>4
  <2> HIDE DEF M
  <2>2. s \in Seq(M)
    BY <1>1, <1>3, <2>1
  <2> QED
    BY <2>2 DEF M
<1> QED
  BY <1>5 DEF s
LEMMA HandleTyped ==
  ASSUME RInv, Handle
  PROVE  RInv'
<1> DEFINE p == Head(mirror)
           s == sessions'[Key]
<1>1. IInv' /\ p \in Mirrored /\ Tail(mirror) \in Seq(Mirrored)
  BY HandleTable
<1>2. p.dir \in Directions /\ p.dir[1] \in Ends /\ p.seg.seq \in Circle /\ (p.own => echo)
  BY <1>1, OtherWay DEF Mirrored
<1>3. UNCHANGED <<nxt, snd, data, open, owes, wire, echo>>
      /\ seqs' = [seqs EXCEPT ![p.dir[1]] = p.seg.seq] /\ LearnMac(p)
  BY DEF Handle
<1>4. seqs' \in [Ends -> Circle]
  BY <1>2, <1>3 DEF RInv, Books
<1>5. mac' \in {"none", "server", "self"} /\ (mac' = "self" => echo)
  BY <1>2, <1>3 DEF LearnMac, RInv, Books
<1>6. Books'
  BY <1>3, <1>4, <1>5 DEF RInv, Books
<1>7. Wired'
  BY <1>3, SameWire DEF RInv
<1>8. Mirrored' = Mirrored /\ Sweeps' = Sweeps
  BY <1>3 DEF Mirrored, Sweeps
<1>9. CASE ~Swept
  <2>1. out' = out /\ mirror' = Tail(mirror)
    BY <1>9 DEF Handle
  <2> QED
    BY <1>1, <1>6, <1>7, <1>8, <2>1 DEF RInv, Mirroring, Queued
<1>10. CASE Swept
  <2>1. Inject(s)
    BY <1>10 DEF Handle
  <2>2. Kept(Key, s)
    <3>1. s.live
      BY <1>10 DEF Swept
    <3> QED
      BY <1>1, <3>1, OneKey DEF IInv, Live
  <2>3. s.client \in Ends /\ s.server = Peer(s.client) /\ s.server \in Ends
        /\ s.cack \in Circle /\ s.sack \in Circle
    BY <2>2, SessionEnds, Peers DEF Kept, Session, Circle
  <2>4. Queued'
    <3>1. PICK arrives \in Arrives : out' = Append(out, [e \in Ends |->
                   CASE e = s.client -> <<Burst(s.cack)>>
                     [] e = s.server /\ arrives -> <<Burst(s.sack)>>
                     [] OTHER -> <<>>])
      BY <2>1 DEF Inject
    <3> DEFINE b == [e \in Ends |-> CASE e = s.client -> <<Burst(s.cack)>>
                                      [] e = s.server /\ arrives -> <<Burst(s.sack)>>
                                      [] OTHER -> <<>>]
    <3>2. Burst(s.cack) \in Sweeps /\ Burst(s.sack) \in Sweeps
      BY <2>3, BurstTyped
    <3>3. b \in [Ends -> Seq(Sweeps)]
      <4> DEFINE B == Sweeps
                 u == Burst(s.cack)
                 v == Burst(s.sack)
      <4>1. u \in B /\ v \in B
        BY <3>2
      <4> HIDE DEF B, u, v
      <4>2. <<u>> \in Seq(B) /\ <<v>> \in Seq(B) /\ <<>> \in Seq(B)
        BY <4>1
      <4>3. [e \in Ends |-> CASE e = s.client -> <<u>>
                              [] e = s.server /\ arrives -> <<v>>
                              [] OTHER -> <<>>] \in [Ends -> Seq(B)]
        BY <4>2
      <4> QED
        BY <4>3 DEF B, u, v
    <3> HIDE DEF b
    <3>4. Append(out, b) \in Seq([Ends -> Seq(Sweeps)])
      <4> DEFINE F == [Ends -> Seq(Sweeps)]
      <4>1. out \in Seq(F) /\ b \in F
        BY <3>3 DEF RInv, Queued
      <4> HIDE DEF F
      <4>2. Append(out, b) \in Seq(F)
        BY <4>1, Sequences1
      <4> QED
        BY <4>2 DEF F
    <3> QED
      BY <1>8, <3>1, <3>4 DEF Queued, b
  <2>5. Mirroring'
    <3>1. CASE ~echo
      BY <1>1, <1>8, <2>1, <3>1 DEF Inject, Mirroring
    <3>2. CASE echo
      <4> DEFINE M == Mirrored
                 t == Tail(mirror)
                 u == Echoes(s.server, s.client, s.cack, seqs'[s.client])
                 v == Echoes(s.client, s.server, s.sack, seqs'[s.server])
      <4>1. <<s.client, s.server>> \in Directions /\ <<s.server, s.client>> \in Directions
        BY <2>3, Peers
      <4>2. seqs'[s.client] \in Circle /\ seqs'[s.server] \in Circle
        BY <1>4, <2>3
      <4>3. \A d \in Directions, base, ack \in Circle :
              Echoes(d[1], d[2], base, ack) \in Seq(Mirrored)
        BY <3>2, EchoesTyped
      <4>4. u \in Seq(M) /\ v \in Seq(M) /\ t \in Seq(M)
        BY <1>1, <2>3, <4>1, <4>2, <4>3
      <4>5. mirror' = t \o u \o v
        BY <2>1, <3>2 DEF Inject
      <4> HIDE DEF M, t, u, v
      <4>6. t \o u \o v \in Seq(M)
        BY <4>4, Sequences1
      <4> QED
        BY <1>8, <4>5, <4>6 DEF M, Mirroring
    <3> QED
      BY <3>1, <3>2
  <2> QED
    BY <1>1, <1>6, <1>7, <2>4, <2>5 DEF RInv
<1> QED
  BY <1>9, <1>10

LEMMA NextRInv == RInv /\ [RaceNext]_raceVars => RInv'
<1> SUFFICES ASSUME RInv, [RaceNext]_raceVars PROVE RInv'
  OBVIOUS
<1>1. CASE UNCHANGED raceVars
  BY <1>1, SameTable, SameMirror, SameWire
  DEF raceVars, race, RInv, Books, Queued, Sweeps
<1>2. CASE Handle
  BY <1>2, HandleTyped
<1>3. CASE Launch
  BY <1>3, LaunchTyped
<1>4. ASSUME NEW e \in Ends, Ack(e) PROVE RInv'
  BY <1>4, AckTyped
<1>5. ASSUME NEW e \in Ends, Deliver(e) PROVE RInv'
  BY <1>5, DeliverTyped
<1>6. ASSUME NEW e \in Ends, SendData(e) PROVE RInv'
  BY <1>6, SendDataTyped
<1> QED
  BY <1>1, <1>2, <1>3, <1>4, <1>5, <1>6 DEF RaceNext, Progress

(* The invariant holds at all times. *)
THEOREM RaceInvariance == RaceSpec => []RInv
BY InitRInv, NextRInv, PTL DEF RaceSpec

LEMMA RInvTypes == RInv => RaceTypeOK
<1> SUFFICES ASSUME RInv PROVE RaceTypeOK
  OBVIOUS
<1> USE DEF RInv
<1>1. Session0 # NoSession =>
        /\ {Session0.client, Session0.server} = Ends
        /\ {Session0.cack, Session0.sack} \subseteq 0..(W - 1) /\ Session0.rst \in 0..MaxRst
  BY Dead, SessionEnds DEF Kept, Session
<1>2. ASSUME NEW e \in Ends
      PROVE  /\ {nxt[e], snd[e], seqs[e]} \subseteq 0..(W - 1)
             /\ data[e] \in 0..MaxData[echo][e]
  <2>1. MaxData[echo] \in [Ends -> Nat]
    BY RaceAssumption DEF RaceAssumption, Books, Ends
  <2>2. data[e] \in Nat /\ data[e] <= MaxData[echo][e] /\ MaxData[echo][e] \in Nat
    BY <2>1 DEF Books
  <2>3. nxt[e] \in Circle /\ snd[e] \in Circle /\ seqs[e] \in Circle
    BY DEF Books
  <2> QED
    BY <2>2, <2>3 DEF Circle
<1>3. ASSUME NEW e \in Ends, NEW i \in DOMAIN wire[e]
      PROVE  IF wire[e][i].rst THEN wire[e][i].at \subseteq 0..(W - 1)
             ELSE wire[e][i].len \in Lens[Peer(e)]
  <2> DEFINE s == wire[e]
             F == Frames(e)
  <2>1. s \in Seq(F) /\ i \in DOMAIN s
    BY <1>3 DEF Wired
  <2> HIDE DEF s, F
  <2>2. s[i] \in F
    BY <2>1, Sequences1
  <2> QED
    BY <2>2 DEF s, F, Frames, Payloads, Sweeps, Circle
<1>4. mac \in {"none", "server", "self"} /\ ("self" = mac => echo)
  BY DEF Books
<1> QED
  BY <1>1, <1>2, <1>3, <1>4 DEF RaceTypeOK

(* Positions stay on the circle, RstCount within its limit, the session    *)
(* between the two ends, and the line carries data and whole sweeps        *)
(* (session.go:115-136, block.go:99-138).                                  *)
THEOREM RaceTypeCorrect == RaceSpec => []RaceTypeOK
BY RaceInvariance, RInvTypes, PTL
-----------------------------------------------------------------------------
(* The table of the race is the table of TcpReset, fed with any packets of *)
(* the connection.                                                         *)
Table == INSTANCE TcpReset WITH Segments <- [seq : Circle, ack : Circle, len : Nat]

(* A packet as the table sees it. *)
Seen(p) == [dir |-> p.dir, seg |-> p.seg]

LEMMA SeenHandled ==
  ASSUME NEW p \in Mirrored, NEW verdict \in BOOLEAN, HandlePacket(p, verdict, FALSE)
  PROVE  Seen(p) \in Table!Packet /\ Table!HandlePacket(Seen(p), verdict, FALSE)
<1> DEFINE q == Seen(p)
<1>1. q \in Table!Packet
  BY DEF Mirrored, Seen, Table!Packet, Table!Directions, Directions
<1>2. q.dir = p.dir /\ q.seg = p.seg
  BY DEF Seen
<1>3. Table!Src(q) = Src(p) /\ Table!Dst(q) = Dst(p)
  BY <1>2 DEF Table!Src, Table!Dst, Src, Dst
<1>4. Table!Keys = Keys /\ Table!FlowKey(Src(p), Dst(p)) = FlowKey(Src(p), Dst(p))
  BY DEF Table!Keys, Keys, Table!Directions, Directions, Table!FlowKey, FlowKey
<1>5. \A s : Table!Reread(s, q) = Reread(s, p)
  BY <1>2 DEF Table!Reread, Reread, Table!NoSession, NoSession
<1>6. Table!NewSession(q) = NewSession(p)
  BY <1>2, <1>3 DEF Table!NewSession, NewSession
<1>7. \A s : Table!FromClient(s, q) = FromClient(s, p)
  BY <1>3 DEF Table!FromClient, FromClient
<1>8. \A pos : Table!Reach(pos, q) = Reach(pos, p)
  BY <1>2 DEF Table!Reach, Reach, Table!Advance, Advance, Table!Ahead, Ahead
<1>9. \A s : Table!UpdateSeq(s, q) = UpdateSeq(s, p)
  <2> HIDE DEF q
  <2> TAKE s
  <2>1. /\ Table!FromClient(s, q) = FromClient(s, p)
        /\ Table!Reach(s.sack, q) = Reach(s.sack, p) /\ Table!Reach(s.cack, q) = Reach(s.cack, p)
    BY <1>7, <1>8
  <2> QED
    BY <1>2, <2>1, Zenon DEF Table!UpdateSeq, UpdateSeq
<1>10. \A s : Table!Sweep(s) = Sweep(s)
  BY DEF Table!Sweep, Sweep, Table!SendRST, SendRST
<1>11. \A s : Table!RecheckBlocked(s) = RecheckBlocked(s) /\ Table!Block(s) = Block(s)
  BY <1>10 DEF Table!RecheckBlocked, RecheckBlocked, Table!Block, Block
<1>12. Table!HandlePacket(q, verdict, FALSE)
  <2> HIDE DEF q
  <2> DEFINE k == FlowKey(Src(p), Dst(p))
             table == [i \in Keys |-> Reread(sessions[i], p)]
             s0 == IF table[k].live THEN table[k] ELSE NewSession(p)
             s1 == RecheckBlocked(UpdateSeq(s0, p))
             s2 == IF verdict THEN Block([s1 EXCEPT !.guilty = TRUE]) ELSE s1
             handled == [table EXCEPT ![k] = [s2 EXCEPT !.quiet = 0]]
             Tk == Table!FlowKey(Table!Src(q), Table!Dst(q))
             Ttable == [i \in Table!Keys |-> Table!Reread(sessions[i], q)]
             Ts0 == IF Ttable[Tk].live THEN Ttable[Tk] ELSE Table!NewSession(q)
             Ts1 == Table!RecheckBlocked(Table!UpdateSeq(Ts0, q))
             Ts2 == IF verdict THEN Table!Block([Ts1 EXCEPT !.guilty = TRUE]) ELSE Ts1
             Thandled == [Ttable EXCEPT ![Tk] = [Ts2 EXCEPT !.quiet = 0]]
  <2>1. /\ verdict => p.seg.len > 0 \/ FromClient(s0, p)
        /\ sessions' = [i \in Keys |-> handled[i]]
    BY DEF HandlePacket
  <2>2. Tk = k /\ Ttable = table
    BY <1>3, <1>4, <1>5
  <2>3. Ts0 = s0
    BY <1>6, <2>2
  <2> HIDE DEF Ts0, s0, Tk, k, Ttable, table
  <2>4. Ts1 = s1
    BY <1>9, <1>11, <2>3
  <2> HIDE DEF Ts1, s1
  <2>5. Ts2 = s2
    BY <1>11, <2>4
  <2> HIDE DEF Ts2, s2
  <2>6. Thandled = handled
    BY <2>2, <2>5
  <2> HIDE DEF Thandled, handled
  <2>7. /\ verdict => q.seg.len > 0 \/ Table!FromClient(Ts0, q)
        /\ sessions' = [i \in Table!Keys |-> Thandled[i]]
    BY <1>2, <1>4, <1>7, <2>1, <2>3, <2>6
  <2>8. sessions' = [i \in Table!Keys |->
                       IF FALSE /\ Table!Expired(Thandled[i]) THEN Table!NoSession
                       ELSE Thandled[i]]
    BY <2>7
  <2> QED
    BY <2>7, <2>8, Zenon
    DEF Table!HandlePacket, Thandled, Ts2, Ts1, Ts0, Tk, Ttable
<1> QED
  BY <1>1, <1>12

(* Refinement: what the race does to the table are steps of TcpReset, so   *)
(* what is shown of the table holds in the race (capture.go, engine.go).   *)
THEOREM RaceUsesTheTable == RaceSpec => Table!Spec
<1>1. RaceInit => Table!Init
  BY DEF RaceInit, Init, Table!Init, Table!Keys, Keys, Table!Directions, Directions,
         Table!FlowKey, FlowKey, Table!NoSession, NoSession
<1>2. RInv /\ [RaceNext]_raceVars => [Table!Next]_sessions
  <2> SUFFICES ASSUME RInv, [RaceNext]_raceVars PROVE [Table!Next]_sessions
    OBVIOUS
  <2>1. CASE Handle
    <3>1. PICK verdict \in BOOLEAN : HandlePacket(Head(mirror), verdict, FALSE)
      BY <2>1 DEF Handle
    <3>2. Head(mirror) \in Mirrored
      BY <2>1, HandleTable
    <3> QED
      BY <3>1, <3>2, SeenHandled DEF Table!Next
  <2>2. CASE Launch
    BY <2>2 DEF Launch
  <2>3. ASSUME NEW e \in Ends, Ack(e) PROVE sessions' = sessions
    BY <2>3 DEF Ack, Transmit
  <2>4. ASSUME NEW e \in Ends, Deliver(e) PROVE sessions' = sessions
    BY <2>4 DEF Deliver
  <2>5. ASSUME NEW e \in Ends, SendData(e) PROVE sessions' = sessions
    BY <2>5 DEF SendData, Transmit
  <2>6. CASE UNCHANGED raceVars
    BY <2>6 DEF raceVars
  <2> QED
    BY <2>1, <2>2, <2>3, <2>4, <2>5, <2>6 DEF RaceNext, Progress
<1> QED
  BY <1>1, <1>2, RaceInvariance, PTL DEF RaceSpec, Table!Spec

(* The budget holds in the race too, where the endpoints answer and the    *)
(* forged packets may come back by the mirror (engine.go:113-144).         *)
THEOREM RaceWithinBudget == RaceSpec => [](SweepBudget /\ OnlyGuiltySwept)
<1>1. RInv => SweepBudget /\ OnlyGuiltySwept
  BY WithinBudget DEF RInv
<1> QED
  BY <1>1, RaceInvariance, PTL

-----------------------------------------------------------------------------
(* Positions on the circle, and what lies between them. *)
LEMMA WrapOnce ==
  ASSUME NEW a \in Int
  PROVE  /\ a \in 0..(W - 1) => a % W = a
         /\ a \in W..(W + W - 1) => a % W = a - W
         /\ a \in (-W)..(-1) => a % W = a + W
BY ResetAssumption DEF ResetAssumption

LEMMA WrapCases ==
  \A a \in 0..(W + W - 1) : \/ a % W = a /\ a < W
                            \/ a % W = a - W /\ a >= W
<1> TAKE a \in 0..(W + W - 1)
<1>1. W \in Nat \ {0}
  BY ResetAssumption DEF ResetAssumption
<1>2. a \in 0..(W - 1) \/ a \in W..(W + W - 1)
  BY <1>1
<1> QED
  BY <1>1, <1>2, WrapOnce

Half == (W - 1) \div 2

LEMMA HalfCircle == Half \in Nat /\ Half + Half <= W - 1
BY ResetAssumption DEF ResetAssumption, Half

(* y lies k positions after x. *)
After(y, x, k) == y = x + k \/ y = x + k - W

LEMMA AfterMore ==
  ASSUME NEW x \in Circle, NEW y \in Circle, NEW k \in Nat, NEW n \in Nat,
         After(y, x, k), k + n <= Half
  PROVE  After((y + n) % W, x, k + n)
<1>1. n < W /\ W \in Nat /\ y + n \in 0..(W + W - 1) /\ k + n < W
  BY HalfCircle, ResetAssumption DEF ResetAssumption, Circle
<1>2. \/ (y + n) % W = y + n /\ y + n < W
      \/ (y + n) % W = (y + n) - W /\ y + n >= W
  BY <1>1, WrapCases, Zenon
<1> HIDE DEF Half
<1> QED
  BY <1>1, <1>2 DEF After, Circle

LEMMA AfterLess ==
  ASSUME NEW x \in Circle, NEW y \in Circle, NEW k \in Nat, NEW n \in Nat,
         After(y, x, k + n), k + n <= Half
  PROVE  After(y, (x + n) % W, k)
<1>1. n < W /\ W \in Nat /\ x + n \in 0..(W + W - 1) /\ k + n < W
  BY HalfCircle, ResetAssumption DEF ResetAssumption, Circle
<1>2. \/ (x + n) % W = x + n /\ x + n < W
      \/ (x + n) % W = (x + n) - W /\ x + n >= W
  BY <1>1, WrapCases, Zenon
<1> QED
  BY <1>1, <1>2 DEF After, Circle

(* int32(y - x) > 0 says whether y lies ahead, up to half the circle. *)
LEMMA AfterIsAhead ==
  ASSUME NEW x \in Circle, NEW y \in Circle, NEW k \in Nat, After(y, x, k), k <= Half
  PROVE  (k = 0 => x = y) /\ (k > 0 => Ahead(y, x))
<1>1. W \in Nat /\ W > 0 /\ k < W /\ Half \in Nat
  BY HalfCircle, ResetAssumption DEF ResetAssumption
<1>2. y - x = k \/ (y - x = k - W /\ y - x \in (-W)..(-1))
  BY <1>1 DEF After, Circle
<1>3. k = 0 => x = y
  BY <1>1 DEF After, Circle
<1>4. y - x \in Int
  BY DEF Circle
<1>5. (y - x) % W = k
  BY <1>1, <1>2, <1>4, WrapOnce
<1> QED
  BY <1>1, <1>3, <1>5 DEF Ahead, Half

-----------------------------------------------------------------------------
(* So many bytes e may have sent in d payloads. *)
Sendable(e, d, k) == k = 0 \/ \E n \in Lens[e] : k <= d * n

(* A position e's peer may be at: behind y, up to which e has sent. *)
Behind(e, d, y, x) == \E k \in Nat : Sendable(e, d, k) /\ After(y, x, k)

LEMMA Products ==
  ASSUME NEW d \in Nat, NEW m \in Nat, NEW n \in Nat, NEW k \in Nat
  PROVE  /\ k <= d * n => k + n <= (d + 1) * n
         /\ (k <= d * m /\ n <= m) => k + n <= (d + 1) * m
         /\ (k <= d * m /\ m <= n) => k + n <= (d + 1) * n
         /\ n <= (d + 1) * n
<1>1. /\ (d + 1) * n = d * n + n /\ (d + 1) * m = d * m + m
      /\ d * n \in Nat /\ d * m \in Nat
  OBVIOUS
<1>2. m <= n => d * m <= d * n
  <2>1. ASSUME m <= n PROVE d * m <= d * n
    <3>1. n = m + (n - m) /\ n - m \in Nat
      BY <2>1
    <3> DEFINE c == n - m
    <3>2. c \in Nat /\ n = m + c
      BY <3>1
    <3> HIDE DEF c
    <3>3. d * (m + c) = d * m + d * c /\ d * c \in Nat
      BY <3>2
    <3> QED
      BY <1>1, <3>2, <3>3
  <2> QED
    BY <2>1
<1> QED
  BY <1>1, <1>2

LEMMA SendableMore ==
  ASSUME NEW e \in Ends, NEW n \in Lens[e], NEW d \in Nat, NEW k \in Nat, Sendable(e, d, k)
  PROVE  Sendable(e, d + 1, k + n)
<1>1. n \in Nat
  BY LensTyped
<1>2. CASE k = 0
  BY <1>1, <1>2, Products DEF Sendable
<1>3. ASSUME NEW m \in Lens[e], k <= d * m PROVE Sendable(e, d + 1, k + n)
  <2>1. m \in Nat
    BY LensTyped
  <2>2. CASE n <= m
    BY <1>1, <1>3, <2>1, <2>2, Products DEF Sendable
  <2>3. CASE m <= n
    BY <1>1, <1>3, <2>1, <2>3, Products DEF Sendable
  <2> QED
    BY <1>1, <2>1, <2>2, <2>3
<1> QED
  BY <1>2, <1>3 DEF Sendable

LEMMA SendableLess ==
  ASSUME NEW e \in Ends, NEW d \in Nat, NEW k \in Nat, NEW j \in Nat, Sendable(e, d, k), j <= k
  PROVE  Sendable(e, d, j)
<1>1. CASE k = 0
  BY <1>1 DEF Sendable
<1>2. ASSUME NEW n \in Lens[e], k <= d * n PROVE Sendable(e, d, j)
  <2>1. d * n \in Nat
    BY LensTyped
  <2>2. j <= d * n
    BY <1>2, <2>1
  <2> QED
    BY <2>2 DEF Sendable
<1> QED
  BY <1>1, <1>2 DEF Sendable

(* A short connection keeps all distances below half the circle. *)
LEMMA SendableShort ==
  ASSUME Short, NEW e \in Ends, NEW d \in Nat, d <= MaxData[FALSE][e],
         NEW k \in Nat, Sendable(e, d, k)
  PROVE  k <= Half
<1>1. CASE k = 0
  BY <1>1, HalfCircle
<1>2. ASSUME NEW n \in Lens[e], k <= d * n PROVE k <= Half
  <2> DEFINE M == MaxData[FALSE][e]
  <2>1. M * n <= Half /\ n \in Nat
    BY LensTyped DEF Short, Half
  <2>2. M \in Nat /\ d <= M
    BY RaceAssumption DEF RaceAssumption, Ends
  <2> HIDE DEF M
  <2>3. d * n <= M * n
    <3> DEFINE c == M - d
    <3>1. c \in Nat /\ M = d + c
      BY <2>2
    <3> HIDE DEF c
    <3>2. (d + c) * n = d * n + c * n /\ c * n \in Nat /\ d * n \in Nat
      BY <2>1, <3>1
    <3> QED
      BY <3>1, <3>2
  <2>4. d * n \in Nat /\ M * n \in Nat
    BY <2>1, <2>2
  <2> QED
    BY <1>2, <2>1, <2>3, <2>4, HalfCircle
<1> QED
  BY <1>1, <1>2 DEF Sendable

(* n bytes more: the distance grows, and what was behind stays behind. *)
LEMMA PositionMore ==
  ASSUME Short, NEW e \in Ends, NEW n \in Lens[e], NEW d \in Nat, d + 1 <= MaxData[FALSE][e],
         NEW x \in Circle, NEW y \in Circle, NEW k \in Nat, Sendable(e, d, k), After(y, x, k)
  PROVE  Sendable(e, d + 1, k + n) /\ After((y + n) % W, x, k + n)
<1>1. Sendable(e, d + 1, k + n)
  BY SendableMore
<1>2. n \in Nat /\ k + n \in Nat /\ d + 1 \in Nat
  BY LensTyped
<1>3. k + n <= Half
  BY <1>1, <1>2, SendableShort
<1> QED
  BY <1>1, <1>2, <1>3, AfterMore

LEMMA BehindMore ==
  ASSUME Short, NEW e \in Ends, NEW n \in Lens[e], NEW d \in Nat, d + 1 <= MaxData[FALSE][e],
         NEW x \in Circle, NEW y \in Circle, Behind(e, d, y, x)
  PROVE  Behind(e, d + 1, (y + n) % W, x)
<1>1. PICK k \in Nat : Sendable(e, d, k) /\ After(y, x, k)
  BY DEF Behind
<1>2. Sendable(e, d + 1, k + n) /\ After((y + n) % W, x, k + n)
  BY <1>1, PositionMore
<1>3. k + n \in Nat
  BY LensTyped
<1> QED
  BY <1>2, <1>3 DEF Behind

LEMMA BehindItself ==
  ASSUME NEW e, NEW d, NEW x \in Circle
  PROVE  Behind(e, d, x, x)
<1>1. After(x, x, 0)
  BY DEF After, Circle
<1> QED
  BY <1>1 DEF Behind, Sendable

-----------------------------------------------------------------------------
(* The frames of s carry k bytes: g says how many are left after each.     *)
Bytes(m) == IF m.rst THEN 0 ELSE m.len
Countdown(g, s, k) ==
  /\ g \in [0..Len(s) -> Nat] /\ g[0] = k /\ g[Len(s)] = 0
  /\ \A i \in 1..Len(s) : Bytes(s[i]) \in Nat /\ g[i - 1] = g[i] + Bytes(s[i])
Carries(s, k) == \E g : Countdown(g, s, k)

LEMMA NothingCarried == Carries(<<>>, 0) /\ \A k \in Nat : Carries(<<>>, k) => k = 0
<1>1. Countdown([i \in 0..0 |-> 0], <<>>, 0)
  BY DEF Countdown
<1> QED
  BY <1>1 DEF Carries, Countdown

LEMMA MoreCarried ==
  ASSUME NEW S, NEW s \in Seq(S), NEW k \in Nat, Carries(s, k),
         NEW m, Bytes(m) \in Nat
  PROVE  Carries(Append(s, m), k + Bytes(m))
<1>1. PICK g : Countdown(g, s, k)
  BY DEF Carries
<1> DEFINE t == Append(s, m)
           n == Len(s)
           b == Bytes(m)
           h == [i \in 0..(n + 1) |-> IF i = n + 1 THEN 0 ELSE g[i] + b]
<1>2. n \in Nat /\ Len(t) = n + 1 /\ t[n + 1] = m /\ \A i \in 1..n : t[i] = s[i]
  OBVIOUS
<1>3. g \in [0..n -> Nat] /\ g[0] = k /\ g[n] = 0
      /\ \A i \in 1..n : Bytes(s[i]) \in Nat /\ g[i - 1] = g[i] + Bytes(s[i])
  BY <1>1 DEF Countdown
<1> HIDE DEF t, n, b
<1>4. h \in [0..(n + 1) -> Nat] /\ h[0] = k + b /\ h[n + 1] = 0
  BY <1>2, <1>3 DEF b
<1>5. ASSUME NEW i \in 1..(n + 1) PROVE Bytes(t[i]) \in Nat /\ h[i - 1] = h[i] + Bytes(t[i])
  <2>1. CASE i = n + 1
    BY <1>2, <1>3, <2>1 DEF b
  <2>2. CASE i \in 1..n
    <3>1. h[i - 1] = g[i - 1] + b /\ h[i] = g[i] + b /\ g[i] \in Nat
      <4>1. /\ i \in 0..(n + 1) /\ i - 1 \in 0..(n + 1) /\ i \in 0..n
            /\ i # n + 1 /\ i - 1 # n + 1
        BY <1>2, <2>2
      <4> QED
        BY <1>3, <4>1
    <3>2. g[i - 1] = g[i] + Bytes(t[i]) /\ g[i - 1] \in Nat
      BY <1>2, <1>3, <2>2
    <3>3. b \in Nat
      BY DEF b
    <3>4. Bytes(t[i]) \in Nat
      BY <1>2, <1>3, <2>2
    <3> HIDE DEF h
    <3> QED
      BY <3>1, <3>2, <3>3, <3>4
  <2> QED
    BY <1>2, <2>1, <2>2
<1>6. Countdown(h, t, k + b)
  <2> HIDE DEF h
  <2> QED
    BY <1>2, <1>4, <1>5 DEF Countdown
<1> QED
  BY <1>6 DEF Carries, t, b

LEMMA LessCarried ==
  ASSUME NEW S, NEW s \in Seq(S), s # <<>>, NEW k \in Nat, Carries(s, k)
  PROVE  \E j \in Nat : /\ k = j + Bytes(Head(s)) /\ Bytes(Head(s)) \in Nat
                        /\ Carries(Tail(s), j)
<1>1. PICK g : Countdown(g, s, k)
  BY DEF Carries
<1> DEFINE t == Tail(s)
           n == Len(s)
           h == [i \in 0..(n - 1) |-> g[i + 1]]
<1>2. /\ n \in Nat /\ n > 0 /\ Len(t) = n - 1 /\ s[1] = Head(s)
      /\ \A i \in 1..(n - 1) : t[i] = s[i + 1]
  OBVIOUS
<1>3. g \in [0..n -> Nat] /\ g[0] = k /\ g[n] = 0
      /\ \A i \in 1..n : Bytes(s[i]) \in Nat /\ g[i - 1] = g[i] + Bytes(s[i])
  BY <1>1 DEF Countdown
<1> HIDE DEF t, n
<1>4. h \in [0..(n - 1) -> Nat] /\ h[0] = g[1] /\ h[n - 1] = 0
  BY <1>2, <1>3
<1>5. ASSUME NEW i \in 1..(n - 1) PROVE Bytes(t[i]) \in Nat /\ h[i - 1] = h[i] + Bytes(t[i])
  <2>1. i + 1 \in 1..n /\ (i + 1) - 1 = i /\ t[i] = s[i + 1]
    BY <1>2
  <2>2. Bytes(s[i + 1]) \in Nat /\ g[(i + 1) - 1] = g[i + 1] + Bytes(s[i + 1])
    BY <1>3, <2>1
  <2>3. h[i] = g[i + 1] /\ h[i - 1] = g[i]
    BY <1>2
  <2> HIDE DEF h
  <2> QED
    BY <2>1, <2>2, <2>3
<1>6. Countdown(h, t, g[1])
  <2> HIDE DEF h
  <2> QED
    BY <1>2, <1>4, <1>5 DEF Countdown
<1>7. g[1] \in Nat /\ k = g[1] + Bytes(s[1]) /\ Bytes(s[1]) \in Nat
  <2>1. 1 \in 1..n /\ 1 - 1 = 0 /\ 1 \in 0..n
    BY <1>2
  <2>2. Bytes(s[1]) \in Nat /\ g[1 - 1] = g[1] + Bytes(s[1]) /\ g[1] \in Nat
    BY <1>3, <2>1
  <2> QED
    BY <1>3, <2>1, <2>2
<1> QED
  BY <1>2, <1>6, <1>7 DEF Carries, t

LEMMA SweepsCarryNothing ==
  ASSUME NEW S, NEW s \in Seq(S), NEW k \in Nat, Carries(s, k),
         NEW B, NEW u \in Seq(B), \A m \in B : Bytes(m) = 0
  PROVE  Carries(s \o u, k)
<1>1. PICK g : Countdown(g, s, k)
  BY DEF Carries
<1> DEFINE t == s \o u
           n == Len(s)
           l == Len(t)
           h == [i \in 0..l |-> IF i <= n THEN g[i] ELSE 0]
<1>2. /\ n \in Nat /\ l \in Nat /\ n <= l
      /\ \A i \in 1..n : t[i] = s[i]
      /\ \A i \in (n + 1)..l : Bytes(t[i]) = 0
  <2>1. n \in Nat /\ Len(u) \in Nat /\ l = n + Len(u) /\ \A i \in 1..n : t[i] = s[i]
    OBVIOUS
  <2>2. ASSUME NEW i \in (n + 1)..l PROVE Bytes(t[i]) = 0
    <3>1. t[i] = u[i - n] /\ i - n \in 1..Len(u)
      BY <2>1
    <3> QED
      BY <3>1
  <2> QED
    BY <2>1, <2>2
<1>3. g \in [0..n -> Nat] /\ g[0] = k /\ g[n] = 0
      /\ \A i \in 1..n : Bytes(s[i]) \in Nat /\ g[i - 1] = g[i] + Bytes(s[i])
  BY <1>1 DEF Countdown
<1> HIDE DEF t, n, l
<1>4. h \in [0..l -> Nat] /\ h[0] = k /\ h[l] = 0
  BY <1>2, <1>3
<1>5. ASSUME NEW i \in 1..l PROVE Bytes(t[i]) \in Nat /\ h[i - 1] = h[i] + Bytes(t[i])
  <2>1. CASE i \in 1..n
    <3>1. h[i] = g[i] /\ h[i - 1] = g[i - 1] /\ t[i] = s[i]
      BY <1>2, <2>1
    <3> HIDE DEF h
    <3> QED
      BY <1>3, <2>1, <3>1
  <2>2. CASE i \in (n + 1)..l
    <3>1. Bytes(t[i]) = 0
      BY <1>2, <2>2
    <3>2. h[i] = 0 /\ h[i - 1] = 0
      BY <1>2, <1>3, <2>2
    <3> HIDE DEF h
    <3> QED
      BY <3>1, <3>2
  <2> QED
    BY <1>2, <2>1, <2>2
<1>6. Countdown(h, t, k)
  <2> HIDE DEF h
  <2> QED
    BY <1>4, <1>5 DEF Countdown, l
<1> QED
  BY <1>6 DEF Carries, t

-----------------------------------------------------------------------------
(* Without echo: the line carries what separates the endpoints, whatever   *)
(* the mirror or the table says of a position is true or was, and the last *)
(* packet of an endpoint that owes no acknowledgement is up to date.       *)
Carried(s, e, d, y, x) ==
  \E k \in Nat : Carries(s, k) /\ Sendable(Peer(e), d, k) /\ After(y, x, k)
InFlight ==
  \A e \in Ends : Carried(wire[e], e, data[Peer(e)], snd[Peer(e)], nxt[e])

End(p) == (p.seg.seq + p.seg.len) % W
Told(p, d, y) ==
  LET e == p.dir[1]
      f == Peer(p.dir[1])
  IN Behind(f, d[f], y[f], p.seg.ack) /\ Behind(e, d[e], y[e], End(p))
Newest(p, y, x, o) ==
  End(p) = y[p.dir[1]] /\ (~o[p.dir[1]] => p.seg.ack = x[p.dir[1]])
LastOfItsEnd(m, i) == \A j \in DOMAIN m : j > i => m[j].dir[1] # m[i].dir[1]
Overheard ==
  \A i \in DOMAIN mirror :
    /\ Told(mirror[i], data, snd)
    /\ LastOfItsEnd(mirror, i) => Newest(mirror[i], snd, nxt, owes)

Expects(s, e) == IF s.client = e THEN s.cack ELSE s.sack
Knows(s, d, y) ==
  \A e \in Ends :
    LET f == Peer(e) IN Expects(s, e) = 0 \/ Behind(f, d[f], y[f], Expects(s, e))
Learned == Session0.live => Knows(Session0, data, snd)

Quiet == ~echo => InFlight /\ Overheard /\ Learned

LEMMA InitQuiet == RaceInit => Quiet
<1> SUFFICES ASSUME RaceInit PROVE Quiet
  OBVIOUS
<1>1. Start \in [Ends -> Circle]
  BY RaceAssumption DEF RaceAssumption, Ends, Circle
<1>2. InFlight
  <2> SUFFICES ASSUME NEW e \in Ends
               PROVE  Carried(wire[e], e, data[Peer(e)], snd[Peer(e)], nxt[e])
    BY DEF InFlight
  <2>1. wire[e] = <<>> /\ snd[Peer(e)] = Start[e] /\ nxt[e] = Start[e] /\ Start[e] \in Circle
    BY <1>1, Peers DEF RaceInit
  <2>2. After(Start[e], Start[e], 0)
    BY <2>1 DEF After, Circle
  <2> QED
    BY <2>1, <2>2, NothingCarried DEF Carried, Sendable
<1>3. Overheard
  BY DEF RaceInit, Overheard
<1>4. ~Session0.live
  BY OneKey, NoSessionIsDead DEF RaceInit, Init, Session0
<1> QED
  BY <1>2, <1>3, <1>4 DEF Quiet, Learned

(* An endpoint sends n bytes, or none. *)
Sends(e, n) ==
  /\ Transmit(e, n)
  /\ \/ n = 0 /\ data' = data
     \/ n \in Lens[e] /\ data' = [data EXCEPT ![e] = @ + 1]

LEMMA SentNothing ==
  ASSUME RInv, NEW e \in Ends, Transmit(e, 0)
  PROVE  snd' = snd /\ wire' = wire
<1>1. snd \in [Ends -> Circle] /\ snd' = [snd EXCEPT ![e] = (@ + 0) % W] /\ wire' = wire
  BY DEF RInv, Books, Transmit
<1>2. (snd[e] + 0) % W = snd[e]
  <2>1. snd[e] \in 0..(W - 1) /\ snd[e] \in Int
    BY <1>1 DEF Circle
  <2>2. snd[e] + 0 = snd[e]
    BY <2>1
  <2> QED
    BY <2>1, <2>2, WrapOnce
<1> QED
  BY <1>1, <1>2

LEMMA SentSomething ==
  ASSUME RInv, RInv', ~echo, NEW e \in Ends, NEW n \in Lens[e], Transmit(e, n),
         data' = [data EXCEPT ![e] = @ + 1]
  PROVE  /\ snd'[e] = (snd[e] + n) % W /\ data'[e] = data[e] + 1
         /\ data[e] \in Nat /\ data[e] + 1 <= MaxData[FALSE][e]
         /\ \A f \in Ends : f # e => data'[f] = data[f] /\ snd'[f] = snd[f]
<1>1. snd \in [Ends -> Circle] /\ snd' = [snd EXCEPT ![e] = (@ + n) % W] /\ data \in [Ends -> Nat]
  BY DEF RInv, Books, Transmit
<1>2. data'[e] <= MaxData[echo'][e] /\ echo' = FALSE
  BY DEF RInv, Books, Transmit
<1> QED
  BY <1>1, <1>2

(* Whatever was behind an endpoint's sending stays behind it. *)
LEMMA BehindStays ==
  ASSUME RInv, RInv', Short, ~echo, NEW e \in Ends, NEW n \in Nat, Sends(e, n),
         NEW f \in Ends, NEW x \in Circle, Behind(f, data[f], snd[f], x)
  PROVE  Behind(f, data'[f], snd'[f], x)
<1>1. CASE n = 0 /\ data' = data
  BY <1>1, SentNothing DEF Sends
<1>2. CASE n \in Lens[e] /\ data' = [data EXCEPT ![e] = @ + 1] /\ f # e
  BY <1>2, SentSomething DEF Sends
<1>3. CASE n \in Lens[e] /\ data' = [data EXCEPT ![e] = @ + 1] /\ f = e
  <2>1. /\ snd'[e] = (snd[e] + n) % W /\ data'[e] = data[e] + 1
        /\ data[e] \in Nat /\ data[e] + 1 <= MaxData[FALSE][e]
    BY <1>3, SentSomething DEF Sends
  <2>2. snd[e] \in Circle
    BY DEF RInv, Books
  <2>3. Behind(e, data[e] + 1, (snd[e] + n) % W, x)
    BY <1>3, <2>1, <2>2, BehindMore
  <2> QED
    BY <1>3, <2>1, <2>3
<1> QED
  BY <1>1, <1>2, <1>3 DEF Sends

LEMMA SendInFlight ==
  ASSUME RInv, RInv', Short, ~echo, NEW e \in Ends, NEW n \in Nat, Sends(e, n), InFlight
  PROVE  InFlight'
<1>1. nxt' = nxt
  BY DEF Sends, Transmit
<1>2. CASE n = 0 /\ data' = data
  BY <1>1, <1>2, SentNothing DEF Sends, InFlight
<1>3. CASE n \in Lens[e] /\ data' = [data EXCEPT ![e] = @ + 1]
  <2> DEFINE m == [rst |-> FALSE, len |-> n]
  <2>1. n \in Nat /\ n # 0
    BY <1>3, RaceAssumption, ResetAssumption DEF RaceAssumption, ResetAssumption, Ends
  <2>2. wire' = [wire EXCEPT ![Peer(e)] = Append(@, m)]
    BY <2>1 DEF Sends, Transmit
  <2>3. /\ snd'[e] = (snd[e] + n) % W /\ data'[e] = data[e] + 1
        /\ data[e] \in Nat /\ data[e] + 1 <= MaxData[FALSE][e]
        /\ \A f \in Ends : f # e => data'[f] = data[f] /\ snd'[f] = snd[f]
    BY <1>3, SentSomething DEF Sends
  <2>4. Bytes(m) = n
    BY DEF Bytes
  <2> HIDE DEF m
  <2> SUFFICES ASSUME NEW f \in Ends
               PROVE  Carried(wire'[f], f, data'[Peer(f)], snd'[Peer(f)], nxt[f])
    BY <1>1 DEF InFlight
  <2>5. Carried(wire[f], f, data[Peer(f)], snd[Peer(f)], nxt[f])
    BY DEF InFlight
  <2>6. Peer(f) \in Ends /\ Peer(f) # f /\ Peer(Peer(f)) = f /\ Peer(Peer(e)) = e
    BY Peers
  <2>7. CASE f = e
    <3>1. wire'[f] = wire[f]
      BY <2>2, <2>6, <2>7 DEF RInv, Wired
    <3> QED
      BY <2>3, <2>5, <2>6, <2>7, <3>1
  <2>8. CASE f # e
    <3>1. Peer(f) = e /\ Peer(e) = f
      BY <2>8, TwoEnds DEF Ends, Peer
    <3>2. PICK k \in Nat : /\ Carries(wire[f], k) /\ Sendable(e, data[e], k)
                           /\ After(snd[e], nxt[f], k)
      BY <2>5, <3>1 DEF Carried
    <3>3. wire[f] \in Seq(Frames(f)) /\ wire'[f] = Append(wire[f], m)
      BY <2>2, <3>1 DEF RInv, Wired
    <3>4. nxt[f] \in Circle /\ snd[e] \in Circle
      BY DEF RInv, Books
    <3>5. Sendable(e, data[e] + 1, k + n) /\ After((snd[e] + n) % W, nxt[f], k + n)
      BY <1>3, <2>3, <3>2, <3>4, PositionMore
    <3>6. Carries(wire'[f], k + n)
      <4> DEFINE s == wire[f]
                 F == Frames(f)
      <4>1. s \in Seq(F) /\ Carries(s, k)
        BY <3>2, <3>3
      <4> HIDE DEF s, F
      <4>2. Carries(Append(s, m), k + Bytes(m))
        BY <2>1, <2>4, <4>1, MoreCarried
      <4> QED
        BY <2>4, <3>3, <4>2 DEF s
    <3>7. k + n \in Nat
      BY <2>1
    <3> QED
      BY <2>3, <3>1, <3>5, <3>6, <3>7 DEF Carried
  <2> QED
    BY <2>7, <2>8
<1> QED
  BY <1>2, <1>3 DEF Sends

LEMMA MirroredRange ==
  ASSUME NEW p \in Mirrored
  PROVE  /\ p.dir \in Directions /\ p.dir[1] \in Ends /\ Peer(p.dir[1]) \in Ends
         /\ p.seg.ack \in Circle /\ p.seg.seq \in Circle /\ p.seg.len \in Nat
         /\ End(p) \in Circle
<1>1. p.dir \in Directions /\ p.seg \in [seq : Circle, ack : Circle, len : Nat]
  BY DEF Mirrored
<1>2. p.seg.seq \in Circle /\ p.seg.ack \in Circle /\ p.seg.len \in Nat
  BY <1>1
<1>3. p.seg.seq + p.seg.len \in Int
  BY <1>2, ResetAssumption DEF Circle, ResetAssumption
<1>4. End(p) \in Circle
  BY <1>3, Moduli DEF End
<1> QED
  BY <1>1, <1>2, <1>4, OtherWay, Peers

LEMMA SendOverheard ==
  ASSUME RInv, RInv', Short, ~echo, NEW e \in Ends, NEW n \in Nat, Sends(e, n),
         InFlight, Overheard
  PROVE  Overheard'
<1> DEFINE p == [dir |-> <<e, Peer(e)>>, own |-> FALSE,
                 seg |-> [seq |-> snd[e], ack |-> nxt[e], len |-> n]]
           l == Len(mirror)
<1>1. /\ mirror' = Append(mirror, p) /\ snd' = [snd EXCEPT ![e] = (@ + n) % W]
      /\ owes' = [owes EXCEPT ![e] = FALSE] /\ nxt' = nxt
  BY DEF Sends, Transmit
<1>2. /\ l \in Nat /\ DOMAIN mirror = 1..l /\ DOMAIN mirror' = 1..(l + 1) /\ mirror'[l + 1] = p
      /\ \A i \in 1..l : mirror'[i] = mirror[i] /\ mirror[i] \in Mirrored
  <2> DEFINE M == Mirrored
  <2>1. mirror \in Seq(M)
    BY DEF RInv, Mirroring
  <2> HIDE DEF p, M
  <2>2. /\ l \in Nat /\ DOMAIN mirror = 1..l /\ DOMAIN mirror' = 1..(l + 1)
        /\ mirror'[l + 1] = p /\ \A i \in 1..l : mirror'[i] = mirror[i] /\ mirror[i] \in M
    BY <1>1, <2>1
  <2> QED
    BY <2>2 DEF M
<1>3. snd \in [Ends -> Circle] /\ snd' \in [Ends -> Circle] /\ nxt \in [Ends -> Circle]
      /\ owes \in [Ends -> BOOLEAN]
  BY DEF RInv, Books
<1>4. p.dir[1] = e /\ p.seg.ack = nxt[e] /\ End(p) = snd'[e]
  BY <1>1, <1>3 DEF End
<1> HIDE DEF p, l
<1>5. Told(p, data', snd') /\ Newest(p, snd', nxt', owes')
  <2>1. Behind(Peer(e), data'[Peer(e)], snd'[Peer(e)], nxt[e])
    <3>1. Behind(Peer(e), data[Peer(e)], snd[Peer(e)], nxt[e])
      BY DEF InFlight, Carried, Behind
    <3>2. nxt[e] \in Circle /\ Peer(e) \in Ends
      BY <1>3, Peers
    <3> QED
      BY <3>1, <3>2, BehindStays
  <2>2. Behind(e, data'[e], snd'[e], snd'[e])
    BY <1>3, BehindItself
  <2>3. Told(p, data', snd')
    BY <1>4, <2>1, <2>2 DEF Told
  <2>4. Newest(p, snd', nxt', owes')
    BY <1>1, <1>4 DEF Newest
  <2> QED
    BY <2>3, <2>4
<1>6. ASSUME NEW i \in 1..l
      PROVE  /\ Told(mirror[i], data', snd')
             /\ LastOfItsEnd(mirror', i) => Newest(mirror[i], snd', nxt', owes')
  <2> DEFINE q == mirror[i]
             f == q.dir[1]
  <2>1. f \in Ends /\ Peer(f) \in Ends /\ q.seg.ack \in Circle /\ End(q) \in Circle
    BY <1>2, MirroredRange
  <2>2. Told(q, data, snd)
    BY <1>2 DEF Overheard
  <2> HIDE DEF q
  <2>3. Behind(Peer(f), data'[Peer(f)], snd'[Peer(f)], q.seg.ack)
        /\ Behind(f, data'[f], snd'[f], End(q))
    BY <2>1, <2>2, BehindStays DEF Told
  <2>4. mirror'[i] = q
    BY <1>2 DEF q
  <2>5. Told(q, data', snd')
    BY <2>3 DEF Told
  <2>6. ASSUME LastOfItsEnd(mirror', i) PROVE Newest(q, snd', nxt', owes')
    <3>1. l + 1 \in DOMAIN mirror' /\ l + 1 > i
      BY <1>2
    <3>2. f # e
      BY <1>2, <1>4, <2>4, <2>6, <3>1 DEF LastOfItsEnd
    <3>3. LastOfItsEnd(mirror, i)
      <4> SUFFICES ASSUME NEW j \in 1..l, j > i PROVE mirror[j].dir[1] # q.dir[1]
        BY <1>2 DEF LastOfItsEnd, q
      <4>1. mirror'[j] = mirror[j] /\ j \in DOMAIN mirror'
        BY <1>2
      <4> QED
        BY <2>4, <2>6, <4>1 DEF LastOfItsEnd
    <3>4. Newest(q, snd, nxt, owes)
      BY <1>2, <3>3 DEF Overheard, q
    <3>5. snd'[f] = snd[f] /\ owes'[f] = owes[f] /\ nxt'[f] = nxt[f]
      BY <1>1, <1>3, <2>1, <3>2
    <3> QED
      BY <3>4, <3>5 DEF Newest
  <2> QED
    BY <2>5, <2>6 DEF q
<1>7. ASSUME NEW i \in 1..(l + 1)
      PROVE  /\ Told(mirror'[i], data', snd')
             /\ LastOfItsEnd(mirror', i) => Newest(mirror'[i], snd', nxt', owes')
  <2>1. CASE i = l + 1
    BY <1>2, <1>5, <2>1
  <2>2. CASE i \in 1..l
    BY <1>2, <1>6, <2>2
  <2> QED
    BY <1>2, <2>1, <2>2
<1> QED
  BY <1>2, <1>7 DEF Overheard

(* What the table expects lies on the circle. *)
LEMMA ExpectsRange ==
  ASSUME IInv, Session0.live, NEW e
  PROVE  Expects(Session0, e) \in Circle
<1>1. Session0 \in Session
  BY Dead, NoSessionIsDead DEF Kept
<1> QED
  BY <1>1 DEF Expects, Session, Circle

LEMMA SendLearned ==
  ASSUME RInv, RInv', Short, ~echo, NEW e \in Ends, NEW n \in Nat, Sends(e, n), Learned
  PROVE  Learned'
<1>1. Session0' = Session0
  BY DEF Sends, Transmit, Session0
<1>2. CASE ~Session0.live
  BY <1>1, <1>2 DEF Learned
<1>3. CASE Session0.live
  <2>1. ASSUME NEW f \in Ends
        PROVE  LET g == Peer(f) IN
               Expects(Session0, f) = 0 \/ Behind(g, data'[g], snd'[g], Expects(Session0, f))
    <3> DEFINE x == Expects(Session0, f)
               g == Peer(f)
    <3>1. x \in Circle /\ g \in Ends
      BY <1>3, ExpectsRange, Peers DEF RInv
    <3>2. x = 0 \/ Behind(g, data[g], snd[g], x)
      BY <1>3 DEF Learned, Knows
    <3> HIDE DEF x, g
    <3>3. x = 0 \/ Behind(g, data'[g], snd'[g], x)
      BY <3>1, <3>2, BehindStays
    <3> QED
      BY <3>3 DEF x, g
  <2>2. Knows(Session0, data', snd')
    BY <2>1 DEF Knows
  <2> QED
    BY <1>1, <2>2 DEF Learned
<1> QED
  BY <1>2, <1>3

LEMMA SendQuiet ==
  ASSUME RInv, RInv', Short, NEW e \in Ends, NEW n \in Nat, Sends(e, n), Quiet
  PROVE  Quiet'
<1>1. echo' = echo
  BY DEF Sends, Transmit
<1> QED
  BY <1>1, SendInFlight, SendOverheard, SendLearned DEF Quiet

-----------------------------------------------------------------------------
(* A frame taken off the line: its payload moves the endpoint on.          *)
LEMMA DeliverInFlight ==
  ASSUME RInv, Short, ~echo, NEW e \in Ends, Deliver(e), InFlight
  PROVE  InFlight'
<1> DEFINE m == Head(wire[e])
<1>1. /\ wire[e] # <<>> /\ wire' = [wire EXCEPT ![e] = Tail(@)] /\ UNCHANGED <<snd, data>>
      /\ m.rst => nxt' = nxt
      /\ ~m.rst => nxt' = [nxt EXCEPT ![e] = (@ + m.len) % W]
  BY DEF Deliver
<1>2. nxt \in [Ends -> Circle] /\ snd \in [Ends -> Circle] /\ DOMAIN wire = Ends
  BY DEF RInv, Books, Wired
<1> SUFFICES ASSUME NEW f \in Ends
             PROVE  Carried(wire'[f], f, data[Peer(f)], snd[Peer(f)], nxt'[f])
  BY <1>1 DEF InFlight
<1>3. CASE f # e
  BY <1>1, <1>2, <1>3 DEF InFlight
<1>4. CASE f = e
  <2> DEFINE g == Peer(e)
  <2>1. PICK k \in Nat : /\ Carries(wire[e], k) /\ Sendable(g, data[g], k)
                         /\ After(snd[g], nxt[e], k)
    BY DEF InFlight, Carried
  <2>2. PICK j \in Nat : k = j + Bytes(m) /\ Bytes(m) \in Nat /\ Carries(Tail(wire[e]), j)
    <3> DEFINE s == wire[e]
               F == Frames(e)
    <3>1. s \in Seq(F) /\ s # <<>> /\ Carries(s, k)
      BY <1>1, <2>1 DEF RInv, Wired
    <3> HIDE DEF s, F
    <3>2. \E j \in Nat : k = j + Bytes(Head(s)) /\ Bytes(Head(s)) \in Nat /\ Carries(Tail(s), j)
      BY <3>1, LessCarried
    <3> QED
      BY <3>2 DEF s
  <2>3. g \in Ends /\ data[g] \in Nat /\ snd[g] \in Circle /\ nxt[e] \in Circle
        /\ data[g] <= MaxData[FALSE][g]
    <3>1. echo = FALSE
      BY DEF RInv, Books
    <3> QED
      BY <1>2, <3>1, Peers DEF RInv, Books
  <2> HIDE DEF g, m
  <2>4. Sendable(g, data[g], j)
    BY <2>1, <2>2, <2>3, SendableLess
  <2>5. k <= Half
    BY <2>1, <2>3, SendableShort
  <2>6. After(snd[g], nxt'[e], j)
    <3>1. CASE m.rst
      BY <1>1, <2>1, <2>2, <3>1 DEF Bytes
    <3>2. CASE ~m.rst
      <4> DEFINE n == Bytes(m)
      <4>1. n = m.len
        BY <3>2 DEF Bytes
      <4>2. nxt'[e] = (nxt[e] + n) % W
        BY <1>1, <1>2, <3>2, <4>1
      <4>3. n \in Nat /\ k = j + n
        BY <2>2
      <4> HIDE DEF n
      <4>4. After(snd[g], nxt[e], j + n) /\ j + n <= Half
        BY <2>1, <2>5, <4>3
      <4>5. After(snd[g], (nxt[e] + n) % W, j)
        BY <2>3, <4>3, <4>4, AfterLess
      <4> QED
        BY <4>2, <4>5
    <3> QED
      BY <3>1, <3>2
  <2>7. wire'[e] = Tail(wire[e])
    BY <1>1, <1>2
  <2> QED
    BY <1>4, <2>2, <2>4, <2>6, <2>7 DEF Carried, g
<1> QED
  BY <1>3, <1>4

LEMMA DeliverOverheard ==
  ASSUME RInv, NEW e \in Ends, Deliver(e), Overheard
  PROVE  Overheard'
<1>1. /\ UNCHANGED <<snd, data, mirror>>
      /\ \/ /\ nxt' = nxt
            /\ owes' = [owes EXCEPT
                          ![e] = @ \/ \E q \in Head(wire[e]).at : Ahead(q, nxt[e])]
         \/ /\ nxt' = [nxt EXCEPT ![e] = (@ + Head(wire[e]).len) % W]
            /\ owes' = [owes EXCEPT ![e] = TRUE]
  BY DEF Deliver
<1>2. nxt \in [Ends -> Circle] /\ owes \in [Ends -> BOOLEAN]
  BY DEF RInv, Books
<1>3. \A f \in Ends : ~owes'[f] => ~owes[f] /\ nxt'[f] = nxt[f]
  BY <1>1, <1>2
<1>4. ASSUME NEW i \in DOMAIN mirror PROVE mirror[i].dir[1] \in Ends
  <2>1. mirror[i] \in Mirrored
    BY DEF RInv, Mirroring
  <2> QED
    BY <2>1, MirroredRange
<1>5. ASSUME NEW i \in DOMAIN mirror
      PROVE  Newest(mirror[i], snd, nxt, owes) => Newest(mirror[i], snd, nxt', owes')
  BY <1>3, <1>4 DEF Newest
<1>6. snd' = snd /\ data' = data /\ mirror' = mirror
  BY <1>1
<1> QED
  BY <1>5, <1>6 DEF Overheard

LEMMA DeliverQuiet ==
  ASSUME RInv, Short, NEW e \in Ends, Deliver(e), Quiet
  PROVE  Quiet'
<1>1. UNCHANGED <<echo, sessions, snd, data>>
  BY DEF Deliver
<1>2. Learned => Learned'
  BY <1>1 DEF Learned, Session0
<1> QED
  BY <1>1, <1>2, DeliverInFlight, DeliverOverheard DEF Quiet

LEMMA LaunchQuiet ==
  ASSUME RInv, Launch, Quiet
  PROVE  Quiet'
<1>1. /\ UNCHANGED <<sessions, nxt, snd, data, owes, mirror, echo>>
      /\ out # <<>> /\ wire' = [e \in Ends |-> wire[e] \o Head(out)[e]]
  BY DEF Launch
<1>2. Overheard => Overheard'
  BY <1>1 DEF Overheard
<1>3. Learned => Learned'
  BY <1>1 DEF Learned, Session0
<1>4. Head(out) \in [Ends -> Seq(Sweeps)]
  <2> DEFINE F == [Ends -> Seq(Sweeps)]
  <2>1. out \in Seq(F) /\ out # <<>>
    BY <1>1 DEF RInv, Queued
  <2> HIDE DEF F
  <2>2. Head(out) \in F
    BY <2>1, Sequences1
  <2> QED
    BY <2>2 DEF F
<1>5. ASSUME InFlight PROVE InFlight'
  <2> SUFFICES ASSUME NEW e \in Ends
               PROVE  Carried(wire'[e], e, data[Peer(e)], snd[Peer(e)], nxt[e])
    BY <1>1 DEF InFlight
  <2>1. PICK k \in Nat : /\ Carries(wire[e], k) /\ Sendable(Peer(e), data[Peer(e)], k)
                         /\ After(snd[Peer(e)], nxt[e], k)
    BY <1>5 DEF InFlight, Carried
  <2>2. Carries(wire'[e], k)
    <3> DEFINE s == wire[e]
               F == Frames(e)
               u == Head(out)[e]
               B == Sweeps
    <3>1. wire'[e] = s \o u
      BY <1>1
    <3>2. s \in Seq(F) /\ u \in Seq(B) /\ Carries(s, k) /\ \A m \in B : Bytes(m) = 0
      BY <1>4, <2>1 DEF RInv, Wired, Sweeps, Bytes
    <3> HIDE DEF s, F, u, B
    <3>3. Carries(s \o u, k)
      BY <3>2, SweepsCarryNothing
    <3> QED
      BY <3>1, <3>3
  <2> QED
    BY <2>1, <2>2 DEF Carried
<1>6. echo' = echo
  BY <1>1
<1> QED
  BY <1>2, <1>3, <1>5, <1>6 DEF Quiet

-----------------------------------------------------------------------------
(* What a packet teaches the table, sweep or not.                          *)
SameBooks(s, t) ==
  s.client = t.client /\ s.server = t.server /\ s.cack = t.cack /\ s.sack = t.sack

LEMMA BooksAreKept ==
  ASSUME NEW k, NEW s, Kept(k, s), NEW p
  PROVE  /\ SameBooks(RecheckBlocked(s), s)
         /\ SameBooks(Block([s EXCEPT !.guilty = TRUE]), s)
         /\ SameBooks([s EXCEPT !.quiet = 0], s)
         /\ SameBooks(Reread(s, p), s)
<1>1. s \in Session
  BY DEF Kept
<1>2. SameBooks(RecheckBlocked(s), s)
  BY <1>1 DEF RecheckBlocked, Sweep, SendRST, Session, SameBooks
<1>3. SameBooks(Block([s EXCEPT !.guilty = TRUE]), s)
  BY <1>1 DEF Block, Sweep, SendRST, Session, SameBooks
<1>4. SameBooks([s EXCEPT !.quiet = 0], s)
  BY <1>1 DEF Session, SameBooks
<1>5. SameBooks(Reread(s, p), s)
  BY <1>1 DEF Reread, Session, SameBooks
<1> QED
  BY <1>2, <1>3, <1>4, <1>5

Before(p) == IF Session0.live THEN Session0 ELSE NewSession(p)

LEMMA TaughtBooks ==
  ASSUME IInv, NEW p, Captured(p), NEW verdict \in BOOLEAN, HandlePacket(p, verdict, FALSE)
  PROVE  /\ SameBooks(sessions'[Key], UpdateSeq(Before(p), p))
         /\ Before(p).client \in Ends
<1> DEFINE table == [i \in Keys |-> Reread(sessions[i], p)]
           s0 == IF table[Key].live THEN table[Key] ELSE NewSession(p)
           s1 == RecheckBlocked(UpdateSeq(s0, p))
           s2 == IF verdict THEN Block([s1 EXCEPT !.guilty = TRUE]) ELSE s1
           last == [s2 EXCEPT !.quiet = 0]
<1>1. FlowKey(Src(p), Dst(p)) = Key /\ Key \in Keys
  BY OneKey DEF Captured, Src, Dst
<1>2. sessions'[Key] = last
  BY <1>1 DEF HandlePacket
<1>3. table[Key] = Reread(Session0, p)
  BY <1>1 DEF Session0
<1> HIDE DEF table
<1>4. Kept(Key, s0) /\ SameBooks(s0, Before(p)) /\ (Session0.live => Kept(Key, Session0))
      /\ Before(p).client \in Ends
  <2>1. CASE Session0.live
    <3>1. Kept(Key, Session0)
      BY <2>1, Dead, NoSessionIsDead
    <3>2. Kept(Key, Reread(Session0, p)) /\ SameBooks(Reread(Session0, p), Session0)
      BY <3>1, RereadKeeps, BooksAreKept
    <3>3. Reread(Session0, p).live
      BY <3>2 DEF Kept, Session
    <3> QED
      BY <1>3, <2>1, <3>1, <3>2, <3>3, SessionEnds DEF Before
  <2>2. CASE ~Session0.live
    <3>1. ~Reread(Session0, p).live
      BY <2>2, NoSessionIsDead DEF Reread
    <3>2. Kept(Key, NewSession(p))
      BY <1>1, NewSessionKept
    <3> QED
      BY <1>3, <2>2, <3>1, <3>2, SessionEnds DEF Before, SameBooks
  <2> QED
    BY <2>1, <2>2
<1> HIDE DEF s0
<1>5. Kept(Key, UpdateSeq(s0, p))
  BY <1>4, UpdateSeqKeeps
<1>6. Kept(Key, s1) /\ SameBooks(s1, UpdateSeq(s0, p))
  BY <1>5, RecheckKeeps, BooksAreKept
<1> HIDE DEF s1
<1>7. Kept(Key, s2) /\ SameBooks(s2, s1)
  <2>1. CASE verdict
    <3>1. LET t == [s1 EXCEPT !.guilty = TRUE]
          IN Kept(Key, Block(t)) /\ Block(t).idle = s1.idle /\ (s1.blocked => Block(t) = t)
      BY <1>6, BlockKeeps
    <3>2. SameBooks(Block([s1 EXCEPT !.guilty = TRUE]), s1)
      BY <1>6, BooksAreKept
    <3> QED
      BY <2>1, <3>1, <3>2
  <2>2. CASE ~verdict
    BY <1>6, <2>2 DEF SameBooks
  <2> QED
    BY <2>1, <2>2
<1> HIDE DEF s2
<1>8. SameBooks(last, s2)
  BY <1>7, BooksAreKept
<1>9. SameBooks(UpdateSeq(s0, p), UpdateSeq(Before(p), p))
  <2>1. s0 \in Session
    BY <1>4 DEF Kept
  <2>2. Before(p) \in Session
    <3>1. CASE Session0.live
      BY <1>4, <3>1 DEF Before, Kept
    <3>2. CASE ~Session0.live
      BY <3>2, NewSessionKept DEF Before, Kept
    <3> QED
      BY <3>1, <3>2
  <2>3. FromClient(s0, p) = FromClient(Before(p), p)
    BY <1>4 DEF FromClient, SameBooks
  <2> QED
    BY <1>4, <2>1, <2>2, <2>3 DEF UpdateSeq, Session, SameBooks
<1> QED
  BY <1>2, <1>4, <1>6, <1>7, <1>8, <1>9 DEF SameBooks, Before

(* The sender's acknowledgement is what the sender expects; what its peer  *)
(* expects is the end of the payload, if that lies ahead.                  *)
LEMMA Taught ==
  ASSUME IInv, NEW p \in Mirrored, NEW verdict \in BOOLEAN, HandlePacket(p, verdict, FALSE)
  PROVE  LET e == p.dir[1]
             s == sessions'[Key]
         IN /\ Expects(s, e) = p.seg.ack
            /\ Expects(s, Peer(e)) = Reach(Expects(Before(p), Peer(e)), p)
<1> DEFINE e == p.dir[1]
           b == Before(p)
           u == UpdateSeq(b, p)
           s == sessions'[Key]
<1>1. Captured(p) /\ e \in Ends /\ Peer(e) \in Ends /\ Peer(e) # e
  BY MirroredIsCaptured, MirroredRange, Peers
<1>2. SameBooks(s, u) /\ b.client \in Ends
  BY <1>1, TaughtBooks
<1>3. b \in Session
  <2>1. CASE Session0.live
    BY <2>1, Dead, NoSessionIsDead DEF Before, Kept
  <2>2. CASE ~Session0.live
    BY <1>1, <2>2, NewSessionKept DEF Before, Kept
  <2> QED
    BY <2>1, <2>2
<1> HIDE DEF b
<1>4. FromClient(b, p) <=> e = b.client
  BY <1>1, <1>2, RaceAssumption DEF RaceAssumption, Ends, FromClient, Src
<1>5. CASE e = b.client
  <2>1. u.client = b.client /\ u.cack = p.seg.ack /\ u.sack = Reach(b.sack, p)
    BY <1>3, <1>4, <1>5 DEF UpdateSeq, Session
  <2> QED
    BY <1>1, <1>2, <1>5, <2>1 DEF SameBooks, Expects, b
<1>6. CASE e # b.client
  <2>1. u.client = b.client /\ u.sack = p.seg.ack /\ u.cack = Reach(b.cack, p)
    BY <1>3, <1>4, <1>6 DEF UpdateSeq, Session
  <2>2. Peer(e) = b.client
    BY <1>1, <1>2, <1>6 DEF Ends
  <2> QED
    BY <1>1, <1>2, <1>6, <2>1, <2>2 DEF SameBooks, Expects, b
<1> QED
  BY <1>5, <1>6

LEMMA HandleFacts ==
  ASSUME RInv, ~echo, Handle
  PROVE  /\ UNCHANGED <<nxt, snd, data, owes, wire, echo>>
         /\ mirror # <<>> /\ mirror' = Tail(mirror) /\ Head(mirror) = mirror[1]
         /\ mirror[1] \in Mirrored /\ 1 \in DOMAIN mirror /\ Len(mirror) \in Nat
         /\ DOMAIN mirror = 1..Len(mirror) /\ DOMAIN mirror' = 1..(Len(mirror) - 1)
         /\ \A i \in DOMAIN mirror' : mirror'[i] = mirror[i + 1] /\ i + 1 \in DOMAIN mirror
         /\ \E verdict \in BOOLEAN : HandlePacket(mirror[1], verdict, FALSE)
<1>1. mirror # <<>> /\ UNCHANGED <<nxt, snd, data, owes, wire, echo>>
  BY DEF Handle
<1>2. mirror' = Tail(mirror)
  BY DEF Handle, Inject
<1>3. /\ Head(mirror) = mirror[1] /\ 1 \in DOMAIN mirror /\ Len(mirror) \in Nat
      /\ mirror[1] \in Mirrored
      /\ DOMAIN mirror = 1..Len(mirror) /\ DOMAIN mirror' = 1..(Len(mirror) - 1)
      /\ \A i \in DOMAIN mirror' : mirror'[i] = mirror[i + 1] /\ i + 1 \in DOMAIN mirror
  <2> DEFINE M == Mirrored
  <2>1. mirror \in Seq(M)
    BY DEF RInv, Mirroring
  <2> HIDE DEF M
  <2>2. Head(mirror) = mirror[1] /\ 1 \in DOMAIN mirror /\ mirror[1] \in M
        /\ Len(mirror) \in Nat /\ DOMAIN mirror = 1..Len(mirror)
    BY <1>1, <2>1
  <2>3. DOMAIN mirror' = 1..(Len(mirror) - 1)
    BY <1>1, <1>2, <2>1
  <2>4. ASSUME NEW i \in DOMAIN mirror'
        PROVE  mirror'[i] = mirror[i + 1] /\ i + 1 \in DOMAIN mirror
    BY <1>1, <1>2, <2>1, <2>3
  <2> QED
    BY <2>2, <2>3, <2>4 DEF M
<1>4. \E verdict \in BOOLEAN : HandlePacket(Head(mirror), verdict, FALSE)
  BY DEF Handle
<1> QED
  BY <1>1, <1>2, <1>3, <1>4

LEMMA HandleOverheard ==
  ASSUME RInv, ~echo, Handle, Overheard
  PROVE  Overheard'
<1> SUFFICES ASSUME NEW i \in DOMAIN mirror'
             PROVE  /\ Told(mirror'[i], data', snd')
                    /\ LastOfItsEnd(mirror', i) => Newest(mirror'[i], snd', nxt', owes')
  BY DEF Overheard
<1>1. /\ snd' = snd /\ data' = data /\ nxt' = nxt /\ owes' = owes
      /\ mirror'[i] = mirror[i + 1] /\ i + 1 \in DOMAIN mirror
  BY HandleFacts
<1>2. ASSUME LastOfItsEnd(mirror', i) PROVE LastOfItsEnd(mirror, i + 1)
  <2> SUFFICES ASSUME NEW j \in DOMAIN mirror, j > i + 1
               PROVE  mirror[j].dir[1] # mirror[i + 1].dir[1]
    BY DEF LastOfItsEnd
  <2>1. j - 1 \in DOMAIN mirror' /\ j - 1 > i /\ (j - 1) + 1 = j
    BY HandleFacts
  <2>2. mirror'[j - 1] = mirror[j]
    BY <2>1, HandleFacts
  <2> QED
    BY <1>1, <1>2, <2>1, <2>2 DEF LastOfItsEnd
<1>3. /\ Told(mirror[i + 1], data, snd)
      /\ LastOfItsEnd(mirror, i + 1) => Newest(mirror[i + 1], snd, nxt, owes)
  BY <1>1 DEF Overheard
<1> QED
  BY <1>1, <1>2, <1>3

LEMMA HandleLearned ==
  ASSUME RInv, ~echo, Handle, Overheard, Learned
  PROVE  Learned'
<1> DEFINE p == mirror[1]
           e == p.dir[1]
           f == Peer(e)
           s == sessions'[Key]
           old == Expects(Before(p), f)
<1>1. snd' = snd /\ data' = data /\ p \in Mirrored /\ Told(p, data, snd)
  BY HandleFacts DEF Overheard
<1>2. PICK verdict \in BOOLEAN : HandlePacket(p, verdict, FALSE)
  BY HandleFacts
<1>3. Expects(s, e) = p.seg.ack /\ Expects(s, f) = Reach(old, p)
  BY <1>1, <1>2, Taught DEF RInv
<1>4. e \in Ends /\ f \in Ends /\ Peer(f) = e /\ Ends = {e, f}
  BY <1>1, MirroredRange, Peers DEF Ends, Peer
<1>5. old = 0 \/ Behind(e, data[e], snd[e], old)
  <2>1. CASE Session0.live
    BY <1>4, <2>1 DEF Learned, Knows, Before
  <2>2. CASE ~Session0.live
    BY <2>2 DEF Before, NewSession, Expects
  <2> QED
    BY <2>1, <2>2
<1>6. Reach(old, p) = old \/ Reach(old, p) = End(p)
  BY DEF Reach, Advance, End
<1>7. Behind(f, data[f], snd[f], p.seg.ack) /\ Behind(e, data[e], snd[e], End(p))
  BY <1>1 DEF Told
<1> HIDE DEF e, f, s, old
<1>8. Knows(s, data, snd)
  <2> SUFFICES ASSUME NEW g \in Ends
               PROVE  LET h == Peer(g) IN
                      Expects(s, g) = 0 \/ Behind(h, data[h], snd[h], Expects(s, g))
    BY DEF Knows
  <2>1. CASE g = e
    BY <1>3, <1>7, <2>1 DEF f
  <2>2. CASE g = f
    BY <1>3, <1>4, <1>5, <1>6, <1>7, <2>2
  <2> QED
    BY <1>4, <2>1, <2>2
<1> QED
  BY <1>1, <1>8 DEF Learned, Session0, s

LEMMA HandleQuiet ==
  ASSUME RInv, Handle, Quiet
  PROVE  Quiet'
<1>1. echo' = echo
  BY DEF Handle
<1>2. ASSUME ~echo, InFlight PROVE InFlight'
  <2>1. UNCHANGED <<nxt, snd, data, wire>>
    BY <1>2, HandleFacts
  <2> QED
    BY <1>2, <2>1 DEF InFlight
<1> QED
  BY <1>1, <1>2, HandleOverheard, HandleLearned DEF Quiet

LEMMA NextQuiet == Short => (RInv /\ RInv' /\ Quiet /\ [RaceNext]_raceVars => Quiet')
<1> SUFFICES ASSUME Short, RInv, RInv', Quiet, [RaceNext]_raceVars PROVE Quiet'
  OBVIOUS
<1>1. CASE UNCHANGED raceVars
  BY <1>1 DEF raceVars, race, Quiet, InFlight, Overheard, Learned, Session0
<1>2. CASE Handle
  BY <1>2, HandleQuiet
<1>3. CASE Launch
  BY <1>3, LaunchQuiet
<1>4. ASSUME NEW e \in Ends, Ack(e) PROVE Quiet'
  <2>1. Sends(e, 0)
    BY <1>4 DEF Ack, Sends
  <2> QED
    BY <2>1, SendQuiet
<1>5. ASSUME NEW e \in Ends, Deliver(e) PROVE Quiet'
  BY <1>5, DeliverQuiet
<1>6. ASSUME NEW e \in Ends, SendData(e) PROVE Quiet'
  <2>1. PICK n \in Lens[e] : Transmit(e, n) /\ data' = [data EXCEPT ![e] = @ + 1]
    BY <1>6 DEF SendData
  <2>2. Sends(e, n) /\ n \in Nat
    BY <2>1, LensTyped DEF Sends
  <2> QED
    BY <2>2, SendQuiet
<1> QED
  BY <1>1, <1>2, <1>3, <1>4, <1>5, <1>6 DEF RaceNext, Progress

(* What the line, the mirror and the table know stays true without echo.   *)
THEOREM QuietInvariance == Short => (RaceSpec => []Quiet)
<1>1. Short => []Short
  <2>1. Short => Short'
    BY DEF Short
  <2> QED
    BY <2>1, PTL
<1> QED
  BY <1>1, InitQuiet, NextQuiet, RaceInvariance, PTL DEF RaceSpec

-----------------------------------------------------------------------------
(* A sweep with its base among its positions hits where it is aimed. *)
LEMMA CentredHits ==
  ASSUME Centred, NEW e \in Ends, nxt[e] \in Circle
  PROVE  Hits(e, nxt[e])
<1>1. PICK i \in DOMAIN Offsets : Offsets[i] = 0
  BY DEF Centred
<1>2. (nxt[e] + Offsets[i]) % W = nxt[e]
  <2>1. nxt[e] \in 0..(W - 1) /\ nxt[e] \in Int
    BY DEF Circle
  <2>2. nxt[e] + 0 = nxt[e]
    BY <2>1
  <2> QED
    BY <1>1, <2>1, <2>2, WrapOnce
<1>3. RstSeqSet(nxt[e])[i] = nxt[e] /\ i \in DOMAIN RstSeqSet(nxt[e])
  BY <1>2 DEF RstSeqSet
<1> QED
  BY <1>3 DEF Hits

(* With echo, a sweep leaves its forgeries in the mirror. *)
LEMMA EchoesRemain ==
  ASSUME RInv, RInv', Centred, echo, Handle, Swept
  PROVE  mirror' # <<>>
<1> DEFINE s == sessions'[Key]
           t == Tail(mirror)
           u == Echoes(s.server, s.client, s.cack, seqs'[s.client])
           v == Echoes(s.client, s.server, s.sack, seqs'[s.server])
           M == Mirrored
<1>1. Inject(s)
  BY DEF Handle
<1>2. mirror' = t \o u \o v
  BY <1>1 DEF Inject
<1>3. t \in Seq(M)
  BY HandleTable
<1>4. Kept(Key, s)
  BY OneKey DEF RInv, IInv, Live, Swept
<1>5. s.client \in Ends /\ s.server = Peer(s.client) /\ s.server \in Ends
      /\ s.cack \in Circle /\ s.sack \in Circle
  BY <1>4, SessionEnds, Peers DEF Kept, Session, Circle
<1>6. u \in Seq(M) /\ v \in Seq(M)
  <2>1. <<s.client, s.server>> \in Directions /\ <<s.server, s.client>> \in Directions
    BY <1>5, Peers
  <2>2. seqs'[s.client] \in Circle /\ seqs'[s.server] \in Circle
    BY <1>5 DEF RInv, Books
  <2>3. \A d \in Directions, base, ack \in Circle :
          Echoes(d[1], d[2], base, ack) \in Seq(Mirrored)
    BY EchoesTyped
  <2> QED
    BY <1>5, <2>1, <2>2, <2>3
<1>7. v # <<>>
  <2>1. DOMAIN v = DOMAIN Offsets
    BY <1>5 DEF Echoes, RstSeqSet
  <2>2. DOMAIN v # {}
    BY <2>1 DEF Centred
  <2> HIDE DEF v
  <2> QED
    BY <2>2
<1> HIDE DEF t, u, v, M
<1>8. t \o u \o v # <<>>
  BY <1>3, <1>6, <1>7
<1> QED
  BY <1>2, <1>8

(* The last packet of all, from an endpoint that owes nothing, over an     *)
(* empty line, leaves the table expecting what both ends expect.           *)
LEMMA QuietTable ==
  ASSUME RInv, Short, ~echo, Handle, InFlight, Overheard, Learned, mirror' = <<>>,
         mirror[1].seg.len > 0, ~owes[mirror[1].dir[1]], \A e \in Ends : wire[e] = <<>>
  PROVE  \A e \in Ends : Expects(sessions'[Key], e) = nxt[e]
<1> DEFINE p == mirror[1]
           e == p.dir[1]
           f == Peer(e)
           s == sessions'[Key]
           old == Expects(Before(p), f)
           want == End(p)
<1>1. Len(mirror) = 1 /\ DOMAIN mirror = {1}
  <2>1. DOMAIN mirror' = 1..(Len(mirror) - 1) /\ DOMAIN mirror' = {} /\ Len(mirror) \in Nat
        /\ DOMAIN mirror = 1..Len(mirror) /\ 1 \in DOMAIN mirror
    BY HandleFacts
  <2> DEFINE n == Len(mirror)
  <2>2. n \in Nat /\ 1 \in 1..n /\ 1..(n - 1) = {}
    BY <2>1
  <2> HIDE DEF n
  <2>3. 1 \notin 1..(n - 1)
    BY <2>2
  <2>4. n = 1
    BY <2>2, <2>3
  <2> QED
    BY <2>1, <2>4 DEF n
<1>2. Told(p, data, snd) /\ Newest(p, snd, nxt, owes)
  <2>1. 1 \in DOMAIN mirror /\ LastOfItsEnd(mirror, 1)
    BY <1>1 DEF LastOfItsEnd
  <2> QED
    BY <2>1 DEF Overheard
<1>3. p \in Mirrored
  BY HandleFacts
<1>4. e \in Ends /\ f \in Ends /\ Peer(f) = e /\ Ends = {e, f} /\ want \in Circle
  BY <1>3, MirroredRange, Peers DEF Ends, Peer
<1>5. want = snd[e] /\ p.seg.ack = nxt[e]
  BY <1>2 DEF Newest
<1>6. nxt[f] = want
  <2>1. PICK k \in Nat : /\ Carries(wire[f], k) /\ Sendable(e, data[e], k)
                         /\ After(snd[e], nxt[f], k)
    BY <1>4 DEF InFlight, Carried
  <2>2. k = 0
    BY <1>4, <2>1, NothingCarried
  <2>3. snd[e] \in Circle /\ nxt[f] \in Circle
    BY <1>4 DEF RInv, Books
  <2>4. After(snd[e], nxt[f], 0) /\ 0 <= Half
    BY <2>1, <2>2, HalfCircle
  <2> QED
    BY <1>5, <2>3, <2>4, AfterIsAhead
<1>7. PICK verdict \in BOOLEAN : HandlePacket(p, verdict, FALSE)
  BY HandleFacts
<1>8. Expects(s, e) = p.seg.ack /\ Expects(s, f) = Reach(old, p)
  BY <1>3, <1>7, Taught DEF RInv
<1>9. old = 0 \/ (old \in Circle /\ Behind(e, data[e], want, old))
  <2>1. CASE Session0.live
    <3>1. old = Expects(Session0, f) /\ old \in Circle
      BY <2>1, ExpectsRange DEF Before, RInv
    <3>2. old = 0 \/ Behind(e, data[e], snd[e], old)
      BY <1>4, <2>1, <3>1 DEF Learned, Knows
    <3> QED
      BY <1>5, <3>1, <3>2
  <2>2. CASE ~Session0.live
    BY <2>2 DEF Before, NewSession, Expects
  <2> QED
    BY <2>1, <2>2
<1>10. Reach(old, p) = Advance(old, want)
  BY DEF Reach, End
<1> HIDE DEF want, old, e, f, s
<1>11. Advance(old, want) = want
  <2>1. CASE old = 0
    BY <2>1 DEF Advance
  <2>2. CASE old \in Circle /\ Behind(e, data[e], want, old)
    <3>1. PICK k \in Nat : Sendable(e, data[e], k) /\ After(want, old, k)
      BY <2>2 DEF Behind
    <3>2. data[e] \in Nat /\ data[e] <= MaxData[FALSE][e]
      <4>1. echo = FALSE
        BY DEF RInv, Books
      <4> QED
        BY <1>4, <4>1 DEF RInv, Books
    <3>3. k <= Half
      BY <1>4, <3>1, <3>2, SendableShort
    <3>4. (k = 0 => old = want) /\ (k > 0 => Ahead(want, old))
      BY <1>4, <2>2, <3>1, <3>3, AfterIsAhead
    <3>5. k = 0 \/ k > 0
      OBVIOUS
    <3> QED
      BY <3>4, <3>5 DEF Advance
  <2> QED
    BY <1>9, <2>1, <2>2
<1> QED
  BY <1>4, <1>5, <1>6, <1>8, <1>10, <1>11 DEF s

(* Only handlePacket sweeps. *)
LEMMA SweptByHandle ==
  ASSUME RInv, RaceNext, Swept
  PROVE  Handle
<1>1. sessions' # sessions
  <2> SUFFICES ASSUME sessions' = sessions PROVE FALSE
    OBVIOUS
  <2>1. Session0.live /\ Session0.sent > Session0.sent
    BY DEF Swept, Session0
  <2>2. Session0.sent \in Nat
    BY <2>1, Dead, NoSessionIsDead DEF RInv, Kept, Session
  <2> QED
    BY <2>1, <2>2
<1>2. ASSUME NEW e \in Ends PROVE ~Ack(e) /\ ~Deliver(e) /\ ~SendData(e)
  BY <1>1 DEF Ack, Deliver, SendData, Transmit
<1>3. ~Launch
  BY <1>1 DEF Launch
<1> QED
  BY <1>2, <1>3 DEF RaceNext, Progress

(* A sweep brought about by the client's newest data, with nothing else    *)
(* under way, is aimed at the very positions both ends expect, whatever    *)
(* the two have exchanged before and whichever of them the table takes for *)
(* the client: the books of UpdateSeq are right, and a sweep only misses   *)
(* by the race or by captured forgeries (session.go:115-136).              *)
THEOREM QuietSweepsAreExact == (Short /\ Centred) => (RaceSpec => QuietSweepsHit)
<1> DEFINE Exact ==
       (/\ Swept /\ mirror # <<>> /\ mirror' = <<>> /\ Head(mirror).seg.len > 0
        /\ Head(mirror).dir[1] = Client
        /\ \A e \in Ends : wire[e] = <<>>
        /\ ~owes[Client])
       => /\ Hits(sessions'[Key].client, sessions'[Key].cack)
          /\ Hits(sessions'[Key].server, sessions'[Key].sack)
<1>1. ASSUME Short, Centred, RInv, RInv', Quiet, [RaceNext]_raceVars
      PROVE  [Exact]_raceVars
  <2> SUFFICES ASSUME RaceNext, Swept, mirror # <<>>, mirror' = <<>>, Head(mirror).seg.len > 0,
                      Head(mirror).dir[1] = Client, \A e \in Ends : wire[e] = <<>>, ~owes[Client]
               PROVE  /\ Hits(sessions'[Key].client, sessions'[Key].cack)
                      /\ Hits(sessions'[Key].server, sessions'[Key].sack)
    BY <1>1
  <2> USE <1>1
  <2>1. Handle
    BY SweptByHandle
  <2>2. ~echo
    BY <2>1, EchoesRemain
  <2>3. Head(mirror) = mirror[1]
    BY <2>1, <2>2, HandleFacts
  <2>4. InFlight /\ Overheard /\ Learned
    BY <2>2 DEF Quiet
  <2> DEFINE s == sessions'[Key]
  <2>5. \A e \in Ends : Expects(s, e) = nxt[e]
    BY <2>1, <2>2, <2>3, <2>4, QuietTable
  <2>6. s.client \in Ends /\ s.server \in Ends /\ s.server # s.client
    <3>1. Kept(Key, s)
      BY OneKey DEF RInv, IInv, Live, Swept
    <3> QED
      BY <3>1, SessionEnds, Peers
  <2>7. s.cack = nxt[s.client] /\ s.sack = nxt[s.server]
    BY <2>5, <2>6 DEF Expects
  <2>8. nxt[s.client] \in Circle /\ nxt[s.server] \in Circle
    BY <2>6 DEF RInv, Books
  <2> HIDE DEF s
  <2>9. Hits(s.client, s.cack) /\ Hits(s.server, s.sack)
    BY <2>6, <2>7, <2>8, CentredHits
  <2> QED
    BY <2>9 DEF s
<1>2. (Short => Short') /\ (Centred => Centred')
  BY DEF Short, Centred
<1> QED
  BY <1>1, <1>2, QuietInvariance, RaceInvariance, PTL DEF RaceSpec, QuietSweepsHit
=============================================================================
