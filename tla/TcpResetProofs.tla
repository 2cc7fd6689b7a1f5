--------------------------- MODULE TcpResetProofs ---------------------------
(***************************************************************************)
(* Theorems about TcpReset, for every set of connections and packets,      *)
(* every modulus and every limit.  The inductive invariant says of each    *)
(* session that its counters, positions and history agree; that it is kept *)
(* is shown one operation of session.go and engine.go at a time.           *)
(***************************************************************************)
EXTENDS TcpReset, TLAPS

(* What holds of a session at every point of handlePacket: it lies under   *)
(* the key of its endpoints, its counter counts its sweeps, it was swept   *)
(* because it was blocked, and the last sweep is the remembered one.       *)
Kept(k, s) ==
  /\ s \in Session
  /\ FlowKey(s.client, s.server) = k
  /\ s.sent = s.rst
  /\ s.blocked <=> s.sent > 0
  /\ s.blocked => (s.guilty /\ s.aim = <<s.lastc, s.lasts>>)

(* Between two packets the session also agrees with the true idle time. *)
IInv ==
  /\ sessions \in [Keys -> Session \cup {NoSession}]
  /\ \A k \in Live : Kept(k, sessions[k]) /\ sessions[k].idle = sessions[k].quiet

-----------------------------------------------------------------------------
(* NewFlowKey gives both directions of a pair the same key. *)
LEMMA FlowKeySymmetric ==
  ASSUME NEW a \in [ip : Nat, port : Nat], NEW b \in [ip : Nat, port : Nat]
  PROVE  FlowKey(a, b) = FlowKey(b, a)
<1>1. CASE a.ip = b.ip /\ a.port = b.port
  <2>1. a = b
    BY <1>1
  <2> QED
    BY <2>1
<1>2. CASE a.ip # b.ip \/ a.port # b.port
  BY <1>2 DEF FlowKey
<1> QED
  BY <1>1, <1>2

LEMMA EndpointType == \A d \in Directions : d[1] \in Endpoints /\ d[2] \in Endpoints
BY DEF Directions, Endpoints

LEMMA SessionEndpoints ==
  ASSUME NEW s \in Session
  PROVE  s.client \in [ip : Nat, port : Nat] /\ s.server \in [ip : Nat, port : Nat]
BY ResetAssumption DEF ResetAssumption, Session

LEMMA NoSessionIsDead == NoSession \notin Session /\ ~NoSession.live
BY DEF NoSession, Session

LEMMA ModuloRange ==
  ASSUME NEW x \in Nat
  PROVE  x % W \in 0..(W - 1)
BY ResetAssumption DEF ResetAssumption

(* All the table needs of a packet: it need not be one of Packet. *)
Captured(p) ==
  /\ p.dir \in Directions
  /\ p.seg.seq \in 0..(W - 1) /\ p.seg.ack \in 0..(W - 1) /\ p.seg.len \in Nat

LEMMA PacketsAreCaptured == \A p \in Packet : Captured(p)
BY ResetAssumption DEF ResetAssumption, Packet, Captured

LEMMA ReachRange ==
  ASSUME NEW pos \in 0..(W - 1), NEW p, Captured(p)
  PROVE  Reach(pos, p) \in 0..(W - 1)
<1>1. p.seg.seq + p.seg.len \in Nat
  BY ResetAssumption DEF ResetAssumption, Captured
<1> QED
  BY <1>1, ModuloRange DEF Reach, Advance

(* Moving the positions disturbs nothing else. *)
Moved(s, c, v) == [s EXCEPT !.cack = c, !.sack = v, !.idle = 0]
LEMMA MovedKeeps ==
  ASSUME NEW k, NEW s, Kept(k, s), NEW c \in 0..(W - 1), NEW v \in 0..(W - 1)
  PROVE  Kept(k, Moved(s, c, v)) /\ Moved(s, c, v).idle = 0
<1>1. 0 \in 0..IdleLimit
  BY ResetAssumption DEF ResetAssumption
<1>2. s \in Session
  BY DEF Kept
<1>3. Moved(s, c, v) \in Session
  BY <1>1, <1>2 DEF Session, Moved
<1> DEFINE t == Moved(s, c, v)
<1>4. /\ t.client = s.client /\ t.server = s.server /\ t.sent = s.sent /\ t.rst = s.rst
      /\ t.blocked = s.blocked /\ t.guilty = s.guilty /\ t.aim = s.aim
      /\ t.lastc = s.lastc /\ t.lasts = s.lasts /\ t.idle = 0
  BY <1>2 DEF Session, Moved
<1> QED
  BY <1>3, <1>4 DEF Kept

(* UpdateSeq moves the two positions and resets the idle time. *)
LEMMA UpdateSeqKeeps ==
  ASSUME NEW k, NEW s, Kept(k, s), NEW p, Captured(p)
  PROVE  Kept(k, UpdateSeq(s, p)) /\ UpdateSeq(s, p).idle = 0
<1>1. p.seg.ack \in 0..(W - 1)
  BY DEF Captured
<1>2. Reach(s.sack, p) \in 0..(W - 1) /\ Reach(s.cack, p) \in 0..(W - 1)
  BY ReachRange DEF Kept, Session
<1>3. \/ UpdateSeq(s, p) = Moved(s, p.seg.ack, Reach(s.sack, p))
      \/ UpdateSeq(s, p) = Moved(s, Reach(s.cack, p), p.seg.ack)
  BY DEF UpdateSeq, Moved, Kept, Session
<1>4. \A c, v \in 0..(W - 1) : Kept(k, Moved(s, c, v)) /\ Moved(s, c, v).idle = 0
  BY MovedKeeps
<1> QED
  BY <1>1, <1>2, <1>3, <1>4, Zenon

(* A sweep of a guilty session within the budget. *)
LEMMA SweepKeeps ==
  ASSUME NEW k, NEW s, s \in Session, FlowKey(s.client, s.server) = k,
         s.sent = s.rst, s.rst < MaxRst, s.blocked, s.guilty
  PROVE  /\ Kept(k, Sweep(s)) /\ Sweep(s).idle = s.idle
         /\ Sweep(s).sent = s.sent + 1 /\ Sweep(s).aim = <<s.cack, s.sack>>
<1> DEFINE t == [s EXCEPT !.rst = s.rst + 1, !.lastc = s.cack, !.lasts = s.sack,
                          !.sent = s.sent + 1, !.aim = <<s.cack, s.sack>>]
<1>1. Sweep(s) = t
  BY DEF Sweep, SendRST, Session
<1>2. /\ s.rst + 1 \in 0..MaxRst /\ s.rst \in Nat /\ s.sent + 1 \in Nat
      /\ <<s.cack, s.sack>> \in (0..(W - 1)) \X (0..(W - 1))
  BY ResetAssumption DEF ResetAssumption, Session
<1>3. t \in Session
  BY <1>2 DEF Session
<1>4. /\ t.client = s.client /\ t.server = s.server /\ t.idle = s.idle
      /\ t.blocked = s.blocked /\ t.guilty = s.guilty
      /\ t.rst = s.rst + 1 /\ t.sent = s.sent + 1
      /\ t.lastc = s.cack /\ t.lasts = s.sack /\ t.aim = <<s.cack, s.sack>>
  BY DEF Session
<1>5. Kept(k, t)
  BY <1>2, <1>3, <1>4 DEF Kept
<1> QED
  BY <1>1, <1>4, <1>5

(* recheckBlocked sweeps only a blocked session whose positions moved. *)
LEMMA RecheckKeeps ==
  ASSUME NEW k, NEW s, Kept(k, s)
  PROVE  /\ Kept(k, RecheckBlocked(s)) /\ RecheckBlocked(s).idle = s.idle
         /\ RecheckBlocked(s).blocked = s.blocked
         /\ RecheckBlocked(s).aim # s.aim \/ RecheckBlocked(s).sent = s.sent
<1>1. CASE ~s.blocked \/ s.rst >= MaxRst \/ (s.cack = s.lastc /\ s.sack = s.lasts)
  BY <1>1 DEF RecheckBlocked
<1>2. CASE s.blocked /\ s.rst < MaxRst /\ ~(s.cack = s.lastc /\ s.sack = s.lasts)
  <2>1. RecheckBlocked(s) = Sweep(s)
    BY <1>2, ResetAssumption DEF ResetAssumption, RecheckBlocked, Kept, Session
  <2>2. /\ Kept(k, Sweep(s)) /\ Sweep(s).idle = s.idle /\ Sweep(s).aim = <<s.cack, s.sack>>
    BY <1>2, SweepKeeps DEF Kept
  <2>3. Sweep(s).blocked = s.blocked
    BY DEF Sweep, SendRST, Kept, Session
  <2>4. s.aim = <<s.lastc, s.lasts>>
    BY <1>2 DEF Kept
  <2> QED
    BY <1>2, <2>1, <2>2, <2>3, <2>4
<1>3. s.rst \in Nat /\ MaxRst \in Nat /\ s.blocked \in BOOLEAN
  BY ResetAssumption DEF ResetAssumption, Kept, Session
<1> QED
  BY <1>1, <1>2, <1>3

(* The history of guilt and the true idle time are nobody's business. *)
LEMMA GuiltyKeeps ==
  ASSUME NEW k, NEW s, Kept(k, s)
  PROVE  LET t == [s EXCEPT !.guilty = TRUE] IN
         /\ Kept(k, t) /\ t.idle = s.idle /\ t.blocked = s.blocked
         /\ t.sent = s.sent /\ t.aim = s.aim
BY DEF Kept, Session

LEMMA QuietKeeps ==
  ASSUME NEW k, NEW s, Kept(k, s)
  PROVE  LET t == [s EXCEPT !.quiet = 0] IN
         /\ Kept(k, t) /\ t.idle = s.idle /\ t.quiet = 0 /\ t.live
         /\ t.sent = s.sent /\ t.aim = s.aim
<1> DEFINE t == [s EXCEPT !.quiet = 0]
<1>1. 0 \in 0..IdleLimit
  BY ResetAssumption DEF ResetAssumption
<1>2. t \in Session
  BY <1>1 DEF Kept, Session
<1>3. /\ t.client = s.client /\ t.server = s.server /\ t.idle = s.idle /\ t.quiet = 0
      /\ t.blocked = s.blocked /\ t.guilty = s.guilty /\ t.rst = s.rst /\ t.sent = s.sent
      /\ t.lastc = s.lastc /\ t.lasts = s.lasts /\ t.aim = s.aim
  BY DEF Kept, Session
<1>4. t.live
  BY <1>2 DEF Session
<1> QED
  BY <1>2, <1>3, <1>4 DEF Kept

(* block sweeps a session once, when it becomes blocked. *)
LEMMA BlockKeeps ==
  ASSUME NEW k, NEW s, Kept(k, s)
  PROVE  LET t == [s EXCEPT !.guilty = TRUE] IN
         Kept(k, Block(t)) /\ Block(t).idle = s.idle /\ (s.blocked => Block(t) = t)
<1> DEFINE t == [s EXCEPT !.guilty = TRUE]
           u == [t EXCEPT !.blocked = TRUE, !.rst = 0]
<1>1. Kept(k, t) /\ t.idle = s.idle /\ t.blocked = s.blocked
  BY GuiltyKeeps
<1>2. CASE s.blocked
  BY <1>1, <1>2 DEF Block
<1>3. CASE ~s.blocked
  <2>1. /\ u \in Session /\ FlowKey(u.client, u.server) = k
        /\ u.sent = u.rst /\ u.rst < MaxRst /\ u.blocked /\ u.guilty /\ u.idle = s.idle
    <3>1. 0 \in 0..MaxRst /\ 0 < MaxRst
      BY ResetAssumption DEF ResetAssumption
    <3>2. u \in Session
      BY <3>1 DEF Kept, Session
    <3>3. /\ u.client = s.client /\ u.server = s.server /\ u.sent = s.sent /\ u.rst = 0
          /\ u.blocked /\ u.guilty /\ u.idle = s.idle
      BY DEF Kept, Session
    <3>4. s.sent = 0
      BY <1>3 DEF Kept, Session
    <3> QED
      BY <3>1, <3>2, <3>3, <3>4 DEF Kept
  <2>2. Kept(k, Sweep(u)) /\ Sweep(u).idle = u.idle
    BY <2>1, SweepKeeps
  <2>3. Block(t) = Sweep(u)
    BY <1>1, <1>3 DEF Block
  <2> QED
    BY <1>3, <2>1, <2>2, <2>3
<1> QED
  BY <1>1, <1>2, <1>3 DEF Kept, Session

LEMMA NewSessionKept ==
  ASSUME NEW p, Captured(p)
  PROVE  Kept(FlowKey(Src(p), Dst(p)), NewSession(p))
<1>1. Src(p) \in Endpoints /\ Dst(p) \in Endpoints /\ p.dir \in Directions
  BY EndpointType DEF Captured, Src, Dst
<1>2. /\ 0 \in 0..(W - 1) /\ 0 \in 0..MaxRst /\ 0 \in 0..IdleLimit /\ 0 \in 0..(Ring - 1)
      /\ <<0, 0>> \in (0..(W - 1)) \X (0..(W - 1))
  BY ResetAssumption DEF ResetAssumption
<1>3. NewSession(p) \in Session
  BY <1>1, <1>2 DEF NewSession, Session
<1> QED
  BY <1>3 DEF Kept, NewSession

(* The reuse of capture memory touches nothing but the IP fields. *)
LEMMA RereadKeeps ==
  ASSUME NEW k, NEW s, Kept(k, s), NEW p, Captured(p)
  PROVE  /\ Kept(k, Reread(s, p))
         /\ Reread(s, p).idle = s.idle /\ Reread(s, p).quiet = s.quiet
         /\ Reread(s, p).sent = s.sent /\ Reread(s, p).aim = s.aim
         /\ Reread(s, p).blocked = s.blocked
<1>1. s.live /\ s.reads \in 0..(Ring - 1) /\ p.dir \in Directions /\ 0 \in 0..(Ring - 1)
  <2>1. s.live /\ s.reads \in 0..(Ring - 1)
    BY DEF Kept, Session
  <2>2. p.dir \in Directions
    BY DEF Captured
  <2>3. 0 \in 0..(Ring - 1)
    BY ResetAssumption DEF ResetAssumption
  <2> QED
    BY <2>1, <2>2, <2>3
<1>2. CASE s.reads + 1 = Ring
  <2> DEFINE t == [s EXCEPT !.ips = p.dir, !.reads = 0]
  <2>1. Reread(s, p) = t
    BY <1>1, <1>2 DEF Reread
  <2>2. Kept(k, t)
    BY <1>1 DEF Kept, Session
  <2> QED
    BY <2>1, <2>2 DEF Kept, Session
<1>3. CASE s.reads + 1 # Ring
  <2> DEFINE t == [s EXCEPT !.reads = s.reads + 1]
  <2>1. Reread(s, p) = t
    BY <1>1, <1>3 DEF Reread
  <2>2. s.reads + 1 \in 0..(Ring - 1)
    BY <1>1, <1>3, ResetAssumption DEF ResetAssumption
  <2>3. Kept(k, t)
    BY <2>2 DEF Kept, Session
  <2> QED
    BY <2>1, <2>3 DEF Kept, Session
<1> QED
  BY <1>2, <1>3

-----------------------------------------------------------------------------
(* What one round of the capture loop makes of each session. *)
LEMMA HandlePacketStep ==
  ASSUME IInv, NEW p, Captured(p), NEW verdict \in BOOLEAN, NEW ticked \in BOOLEAN,
         HandlePacket(p, verdict, ticked), NEW j \in Keys
  PROVE  /\ sessions'[j] = NoSession
              => (sessions[j].live => sessions[j].quiet = IdleLimit)
         /\ sessions'[j] # NoSession
              => /\ Kept(j, sessions'[j]) /\ sessions'[j].idle = sessions'[j].quiet
                 /\ (sessions[j].live /\ sessions[j].sent > 0)
                      => (sessions'[j].aim # sessions[j].aim
                          \/ sessions'[j].sent = sessions[j].sent)
<1> DEFINE k == FlowKey(Src(p), Dst(p))
           table == [i \in Keys |-> Reread(sessions[i], p)]
           s0 == IF table[k].live THEN table[k] ELSE NewSession(p)
           s1 == RecheckBlocked(UpdateSeq(s0, p))
           s2 == IF verdict THEN Block([s1 EXCEPT !.guilty = TRUE]) ELSE s1
           last == [s2 EXCEPT !.quiet = 0]
           handled == [table EXCEPT ![k] = last]
<1>1. sessions' = [i \in Keys |-> IF ticked /\ Expired(handled[i]) THEN NoSession
                                  ELSE handled[i]]
  BY DEF HandlePacket
<1>2. k \in Keys
  BY DEF Keys, Captured, Src, Dst
<1>3. \A i \in Keys : table[i] = Reread(sessions[i], p)
  OBVIOUS
<1>4. \A i \in Keys : \/ sessions[i] = NoSession /\ table[i] = NoSession
                      \/ /\ sessions[i].live /\ Kept(i, sessions[i]) /\ Kept(i, table[i])
                         /\ sessions[i].idle = sessions[i].quiet
                         /\ table[i].idle = sessions[i].idle
                         /\ table[i].quiet = sessions[i].quiet
                         /\ table[i].sent = sessions[i].sent
                         /\ table[i].aim = sessions[i].aim
                         /\ table[i].blocked = sessions[i].blocked
  <2> TAKE i \in Keys
  <2>1. CASE sessions[i] = NoSession
    BY <1>3, <2>1, NoSessionIsDead DEF Reread, NoSession
  <2>2. CASE sessions[i] # NoSession
    <3>1. sessions[i] \in Session /\ sessions[i].live
      BY <2>2 DEF IInv, Session
    <3>2. Kept(i, sessions[i]) /\ sessions[i].idle = sessions[i].quiet
      BY <3>1 DEF IInv, Live
    <3> QED
      BY <1>3, <3>1, <3>2, RereadKeeps
  <2> QED
    BY <2>1, <2>2
<1>5. Kept(k, s0)
  BY <1>2, <1>4, NewSessionKept, NoSessionIsDead
<1>6. Kept(k, UpdateSeq(s0, p)) /\ UpdateSeq(s0, p).idle = 0
  BY <1>5, UpdateSeqKeeps
<1>7. Kept(k, s1) /\ s1.idle = 0 /\ s1.blocked = UpdateSeq(s0, p).blocked
      /\ (s1.aim # UpdateSeq(s0, p).aim \/ s1.sent = UpdateSeq(s0, p).sent)
  BY <1>6, RecheckKeeps
<1>8. Kept(k, s2) /\ s2.idle = 0 /\ (s1.blocked => (s2.aim = s1.aim /\ s2.sent = s1.sent))
  <2>1. CASE ~verdict
    BY <1>7, <2>1
  <2>2. CASE verdict
    <3> HIDE DEF s1
    <3>1. LET t == [s1 EXCEPT !.guilty = TRUE]
          IN t.aim = s1.aim /\ t.sent = s1.sent
      BY <1>7, GuiltyKeeps
    <3>2. LET t == [s1 EXCEPT !.guilty = TRUE]
          IN Kept(k, Block(t)) /\ Block(t).idle = s1.idle /\ (s1.blocked => Block(t) = t)
      BY <1>7, BlockKeeps
    <3> QED
      BY <1>7, <2>2, <3>1, <3>2
  <2> QED
    BY <2>1, <2>2
<1>9. Kept(k, last) /\ last.idle = 0 /\ last.quiet = 0
      /\ last.aim = s2.aim /\ last.sent = s2.sent /\ last.live
  <2> HIDE DEF s2
  <2> QED
    BY <1>8, QuietKeeps
<1>10. UpdateSeq(s0, p).sent = s0.sent /\ UpdateSeq(s0, p).aim = s0.aim
       /\ UpdateSeq(s0, p).blocked = s0.blocked
  BY <1>5 DEF UpdateSeq, Kept, Session
<1> HIDE DEF s0, s1, s2, last
<1>11. CASE j = k
  <2>1. handled[j] = last
    BY <1>2, <1>11
  <2>2. ~Expired(last)
    BY <1>9, ResetAssumption DEF ResetAssumption, Expired
  <2>3. sessions'[j] = last
    BY <1>1, <2>1, <2>2
  <2>4. last # NoSession
    BY <1>9, NoSessionIsDead
  <2>5. ASSUME sessions[j].live, sessions[j].sent > 0
        PROVE  last.aim # sessions[j].aim \/ last.sent = sessions[j].sent
    <3>1. s0 = table[k] /\ s0.sent = sessions[j].sent /\ s0.aim = sessions[j].aim
          /\ s0.blocked
      <4>1. sessions[k] # NoSession
        BY <1>11, <2>5, NoSessionIsDead
      <4>2. table[k].live
        BY <1>2, <1>4, <4>1 DEF Kept, Session
      <4> QED
        BY <1>2, <1>4, <1>11, <2>5, <4>1, <4>2 DEF Kept, s0
    <3> QED
      <4>1. s1.blocked /\ s2.aim = s1.aim /\ s2.sent = s1.sent
        BY <1>7, <1>8, <1>10, <3>1
      <4> QED
        BY <1>7, <1>9, <1>10, <3>1, <4>1
  <2> QED
    BY <1>9, <1>11, <2>3, <2>4, <2>5
<1>12. CASE j # k
  <2>1. handled[j] = table[j]
    BY <1>2, <1>12
  <2>2. CASE sessions[j] = NoSession
    <3>1. sessions'[j] = NoSession
      BY <1>1, <1>4, <2>1, <2>2, NoSessionIsDead
    <3> QED
      BY <2>2, <3>1, NoSessionIsDead
  <2>3. CASE sessions[j] # NoSession
    <3>1. Kept(j, table[j]) /\ sessions[j].idle = sessions[j].quiet
          /\ table[j].idle = sessions[j].idle /\ table[j].quiet = sessions[j].quiet
          /\ table[j].sent = sessions[j].sent /\ Kept(j, sessions[j])
      BY <1>4, <2>3
    <3>2. sessions[j].quiet \in 0..IdleLimit /\ IdleLimit \in Nat
      BY <3>1, ResetAssumption DEF ResetAssumption, Kept, Session
    <3>3. ASSUME Expired(table[j]) PROVE sessions[j].quiet = IdleLimit
      <4>1. table[j].idle >= IdleLimit
        BY <3>3 DEF Expired
      <4> QED
        BY <3>1, <3>2, <4>1
    <3>4. table[j] # NoSession
      BY <3>1, NoSessionIsDead DEF Kept
    <3>5. sessions'[j] = IF ticked /\ Expired(table[j]) THEN NoSession ELSE table[j]
      BY <1>1, <2>1
    <3> HIDE DEF table
    <3>6. CASE ticked /\ Expired(table[j])
      BY <3>3, <3>5, <3>6
    <3>7. CASE ~(ticked /\ Expired(table[j]))
      BY <3>1, <3>4, <3>5, <3>7
    <3> QED
      BY <3>6, <3>7
  <2> QED
    BY <2>2, <2>3
<1> QED
  BY <1>11, <1>12

(* What the passage of time makes of each session. *)
LEMMA ElapseStep ==
  ASSUME IInv, Elapse, NEW j \in Keys
  PROVE  /\ ~sessions[j].live => sessions'[j] = NoSession
         /\ sessions[j].live
              => /\ Kept(j, sessions'[j]) /\ sessions'[j].idle = sessions'[j].quiet
                 /\ sessions'[j].live /\ sessions'[j].sent = sessions[j].sent
<1> DEFINE s == sessions[j]
           t == [s EXCEPT !.idle = NextTick(s.idle), !.quiet = NextTick(s.quiet)]
<1>1. sessions'[j] = IF s.live THEN t ELSE NoSession
  BY DEF Elapse
<1>2. CASE s.live
  <2>1. Kept(j, s) /\ s.idle = s.quiet
    BY <1>2 DEF IInv, Live
  <2>2. NextTick(s.idle) \in 0..IdleLimit
    <3>1. s.idle \in 0..IdleLimit
      BY <2>1 DEF Kept, Session
    <3>2. IdleLimit \in Nat
      BY ResetAssumption DEF ResetAssumption
    <3> QED
      BY <3>1, <3>2 DEF NextTick
  <2> HIDE DEF s
  <2>3. t \in Session
    BY <2>1, <2>2 DEF Kept, Session
  <2>4. /\ t.client = s.client /\ t.server = s.server /\ t.idle = t.quiet
        /\ t.blocked = s.blocked /\ t.guilty = s.guilty /\ t.rst = s.rst /\ t.sent = s.sent
        /\ t.lastc = s.lastc /\ t.lasts = s.lasts /\ t.aim = s.aim
    BY <2>1 DEF Kept, Session
  <2>5. t.live
    BY <2>3 DEF Session
  <2>6. Kept(j, t)
    BY <2>1, <2>3, <2>4 DEF Kept
  <2> QED
    BY <1>1, <1>2, <2>4, <2>5, <2>6 DEF s
<1> QED
  BY <1>1, <1>2

LEMMA InitIInv == Init => IInv
BY NoSessionIsDead DEF Init, IInv, Live, NoSession

LEMMA HandlePacketKeeps ==
  ASSUME IInv, NEW p, Captured(p), NEW verdict \in BOOLEAN, NEW ticked \in BOOLEAN,
         HandlePacket(p, verdict, ticked)
  PROVE  IInv'
<1>1. sessions' = [j \in Keys |-> sessions'[j]]
  BY DEF HandlePacket
<1>2. \A j \in Keys :
        \/ sessions'[j] = NoSession
        \/ Kept(j, sessions'[j]) /\ sessions'[j].idle = sessions'[j].quiet
  BY HandlePacketStep
<1> QED
  BY <1>1, <1>2, NoSessionIsDead DEF IInv, Live, Kept

LEMMA NextIInv == IInv /\ [Next]_sessions => IInv'
<1> SUFFICES ASSUME IInv, [Next]_sessions PROVE IInv'
  OBVIOUS
<1>1. CASE UNCHANGED sessions
  BY <1>1 DEF IInv, Live
<1>2. ASSUME NEW p \in Packet, NEW verdict \in BOOLEAN, NEW ticked \in BOOLEAN,
             HandlePacket(p, verdict, ticked)
      PROVE  IInv'
  BY <1>2, PacketsAreCaptured, HandlePacketKeeps
<1>3. CASE Elapse
  <2>1. sessions' = [j \in Keys |-> sessions'[j]]
    BY <1>3 DEF Elapse
  <2>2. \A j \in Keys :
          \/ sessions'[j] = NoSession
          \/ Kept(j, sessions'[j]) /\ sessions'[j].idle = sessions'[j].quiet
    BY <1>3, ElapseStep
  <2> QED
    BY <2>1, <2>2, NoSessionIsDead DEF IInv, Live, Kept
<1> QED
  BY <1>1, <1>2, <1>3 DEF Next

THEOREM Invariance == Spec => []IInv
BY InitIInv, NextIInv, PTL DEF Spec

-----------------------------------------------------------------------------
(* Sessions keep their types; RstCount and the positions stay in range.    *)
THEOREM TypeCorrect == Spec => []TypeOK
<1>1. IInv => TypeOK
  BY DEF IInv, TypeOK
<1> QED
  BY <1>1, Invariance, PTL

LEMMA WithinBudget == IInv => SweepBudget /\ OnlyGuiltySwept
<1> SUFFICES ASSUME IInv, NEW k \in Live
             PROVE  sessions[k].sent <= MaxRst /\ (sessions[k].sent > 0 => sessions[k].guilty)
  BY DEF SweepBudget, OnlyGuiltySwept
<1>1. sessions[k].sent = sessions[k].rst /\ sessions[k].rst \in 0..MaxRst
  BY DEF IInv, Kept, Session
<1>2. MaxRst \in Nat
  BY ResetAssumption DEF ResetAssumption
<1>3. sessions[k].sent > 0 => sessions[k].guilty
  BY DEF IInv, Kept
<1> QED
  BY <1>1, <1>2, <1>3

(* No order of events, rechecks and cleanups sweeps a session more than    *)
(* MaxRst times.                                                           *)
THEOREM SweepsBounded == Spec => []SweepBudget
BY WithinBudget, Invariance, PTL

(* A session without an event to be blocked is never swept. *)
THEOREM NoBystanderSwept == Spec => []OnlyGuiltySwept
BY WithinBudget, Invariance, PTL

(* The directions of a connection share a session. *)
THEOREM DirectionsShareSession == Spec => []OneSessionPerConnection
<1>1. IInv => OneSessionPerConnection
  <2> SUFFICES ASSUME IInv, NEW j \in Live, NEW k \in Live,
                      {sessions[j].client, sessions[j].server}
                        = {sessions[k].client, sessions[k].server}
               PROVE  j = k
    BY DEF OneSessionPerConnection
  <2> DEFINE a == sessions[j].client
             b == sessions[j].server
             c == sessions[k].client
             d == sessions[k].server
  <2>1. Kept(j, sessions[j]) /\ Kept(k, sessions[k])
    BY DEF IInv
  <2>2. a \in [ip : Nat, port : Nat] /\ b \in [ip : Nat, port : Nat]
    BY <2>1, SessionEndpoints DEF Kept
  <2>3. (a = c /\ b = d) \/ (a = d /\ b = c)
    OBVIOUS
  <2>4. FlowKey(a, b) = FlowKey(c, d)
    BY <2>2, <2>3, FlowKeySymmetric
  <2> QED
    BY <2>1, <2>4 DEF Kept
<1> QED
  BY <1>1, Invariance, PTL

(* No sweep repeats the aim of the one before it. *)
THEOREM SweepsAreNew == Spec => SweepsMove
<1> DEFINE Moves == \A k \in Keys :
             (sessions[k].live /\ sessions'[k].live
              /\ sessions[k].sent > 0 /\ sessions'[k].sent > sessions[k].sent)
             => sessions'[k].aim # sessions[k].aim
<1>1. IInv /\ [Next]_sessions => [Moves]_sessions
  <2> SUFFICES ASSUME IInv, Next, NEW k \in Keys,
                      sessions[k].live, sessions'[k].live, sessions[k].sent > 0,
                      sessions'[k].sent > sessions[k].sent
               PROVE  sessions'[k].aim # sessions[k].aim
    OBVIOUS
  <2>1. sessions[k].sent \in Nat
    BY DEF IInv, Live, Kept, Session
  <2>2. ASSUME NEW p \in Packet, NEW verdict \in BOOLEAN, NEW ticked \in BOOLEAN,
               HandlePacket(p, verdict, ticked)
        PROVE  sessions'[k].aim # sessions[k].aim
    BY <2>1, <2>2, PacketsAreCaptured, HandlePacketStep, NoSessionIsDead
  <2>3. CASE Elapse
    BY <2>1, <2>3, ElapseStep
  <2> QED
    BY <2>2, <2>3 DEF Next
<1> QED
  BY <1>1, Invariance, PTL DEF Spec, SweepsMove

(* No session with recent traffic is forgotten. *)
THEOREM ActiveSessionsStay == Spec => ActiveSessionsKept
<1> DEFINE Idle == \A k \in Keys :
             (sessions[k].live /\ ~sessions'[k].live) => sessions[k].quiet = IdleLimit
<1>1. IInv /\ [Next]_sessions => [Idle]_sessions
  <2> SUFFICES ASSUME IInv, Next, NEW k \in Keys, sessions[k].live, ~sessions'[k].live
               PROVE  sessions[k].quiet = IdleLimit
    OBVIOUS
  <2>1. ASSUME NEW p \in Packet, NEW verdict \in BOOLEAN, NEW ticked \in BOOLEAN,
               HandlePacket(p, verdict, ticked)
        PROVE  sessions[k].quiet = IdleLimit
    BY <2>1, PacketsAreCaptured, HandlePacketStep DEF Kept, Session
  <2>2. CASE Elapse
    BY <2>2, ElapseStep
  <2> QED
    BY <2>1, <2>2 DEF Next
<1> QED
  BY <1>1, Invariance, PTL DEF Spec, ActiveSessionsKept
=============================================================================
