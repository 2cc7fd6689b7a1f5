------------------------------ MODULE TcpReset ------------------------------
(***************************************************************************)
(* bypass-guard's session table and its RST injection: session.go, the TCP *)
(* part of handlePacket (capture.go), block and recheckBlocked (engine.go) *)
(* and SendRST (block.go).  All of it runs in the capture goroutine, one   *)
(* mirrored packet after the other.  The mirror may start in the middle of *)
(* a connection, lose, repeat and reorder packets, so any packet of any    *)
(* connection may come next.                                               *)
(*                                                                         *)
(* A packet that completes a request for a domain to be blocked, while the *)
(* engine enforces, is a packet handled with verdict = TRUE; PolicySync    *)
(* says which those are.                                                   *)
(***************************************************************************)
EXTENDS Integers

CONSTANTS
  Connections, \* pairs of endpoints [ip, port] with traffic between them
  W,           \* modulus of sequence numbers, 2^32
  Segments,    \* seq, ack and payload length of the packets in the traffic
  MaxRst,      \* sweeps per session (3)
  IdleLimit,   \* clock ticks after which an idle session may go (2 minutes)
  Ring         \* packets the capture ring holds before it reuses their memory

Endpoints == UNION {{c[1], c[2]} : c \in Connections}

ASSUME ResetAssumption ==
  /\ \A e \in Endpoints : e \in [ip : Nat, port : Nat]
  /\ \A c \in Connections : c[1] # c[2]
  /\ W \in Nat \ {0} /\ Segments \subseteq [seq : 0..(W - 1), ack : 0..(W - 1), len : Nat]
  /\ MaxRst \in Nat \ {0} /\ IdleLimit \in Nat \ {0} /\ Ring \in Nat \ {0}

VARIABLE sessions \* SessionTable.sessions: FlowKey -> TcpSession or NoSession

Directions == {<<c[1], c[2]>> : c \in Connections} \cup {<<c[2], c[1]>> : c \in Connections}

Packet == [dir : Directions, seg : Segments]
Src(p) == p.dir[1]
Dst(p) == p.dir[2]

(* Fault: the pair is not put in order. *)
FlowKeyUnsorted(a, b) == <<a, b>>

(* NewFlowKey: the smaller endpoint first. *)
FlowKey(a, b) ==
  IF a.ip > b.ip \/ (a.ip = b.ip /\ a.port > b.port) THEN <<b, a>> ELSE <<a, b>>

Keys == {FlowKey(d[1], d[2]) : d \in Directions}

NoSession == [live |-> FALSE]
Live == {k \in Keys : sessions[k].live}

(* GetOrCreate's new session: whoever sent the packet is the client.       *)
(* Its IP fields are slices of the memory the packet was captured in: ips  *)
(* is what that memory holds, reads the packets read since it was written. *)
(* The last four are history: sweeps sent, where the last was aimed, whether the session had an event *)
(* to be blocked, ticks since its last packet.                             *)
NewSession(p) ==
  [live |-> TRUE, client |-> Src(p), server |-> Dst(p),
   cack |-> 0, sack |-> 0, blocked |-> FALSE, rst |-> 0,
   lastc |-> 0, lasts |-> 0, idle |-> 0, ips |-> p.dir, reads |-> 0,
   sent |-> 0, aim |-> <<0, 0>>, guilty |-> FALSE, quiet |-> 0]

(* Directions are told apart by port alone. *)
FromClient(s, p) == Src(p).port = s.client.port

(* int32(x - y) > 0 *)
Ahead(x, y) == (x - y) % W \in 1..((W - 1) \div 2)

(* ServerAck (ClientAck) after payload that ends at want *)
Advance(pos, want) == IF pos = 0 \/ Ahead(want, pos) THEN want ELSE pos

(* Fault: the length of the payload is left out. *)
ReachStart(pos, p) == IF p.seg.len > 0 THEN Advance(pos, p.seg.seq) ELSE pos

Reach(pos, p) == IF p.seg.len > 0 THEN Advance(pos, (p.seg.seq + p.seg.len) % W) ELSE pos

(* Fault: the time of the last packet is kept for the client's side only. *)
UpdateSeqHalf(s, p) ==
  IF FromClient(s, p)
  THEN [s EXCEPT !.cack = p.seg.ack, !.sack = Reach(s.sack, p), !.idle = 0]
  ELSE [s EXCEPT !.sack = p.seg.ack, !.cack = Reach(s.cack, p)]

(* UpdateSeq: the acknowledgement of a packet is taken as it is, the end   *)
(* of its payload only if it lies ahead.  (ClientSeq and ServerSeq, the    *)
(* acknowledgement numbers of the forged packets, are left out.)           *)
UpdateSeq(s, p) ==
  IF FromClient(s, p)
  THEN [s EXCEPT !.cack = p.seg.ack, !.sack = Reach(s.sack, p), !.idle = 0]
  ELSE [s EXCEPT !.sack = p.seg.ack, !.cack = Reach(s.cack, p), !.idle = 0]

(* SendRST: a sweep of forged RSTs around ClientAck to the client and      *)
(* around ServerAck to the server, addressed with the IPs of the session.  *)
SendRST(s) ==
  [s EXCEPT !.sent = s.sent + 1, !.aim = <<s.cack, s.sack>>]

(* Fault: the sweep is not counted. *)
SweepUncounted(s) ==
  SendRST([s EXCEPT !.rst = 1, !.lastc = s.cack, !.lasts = s.sack])

(* Fault: the positions of the sweep are not remembered. *)
SweepUnremembered(s) == SendRST([s EXCEPT !.rst = s.rst + 1])

(* The counter, the positions swept and the sweep. *)
Sweep(s) ==
  SendRST([s EXCEPT !.rst = s.rst + 1, !.lastc = s.cack, !.lasts = s.sack])

(* Fault: no further sweep. *)
RecheckNever(s) == s

(* Fault: the session need not be a blocked one. *)
RecheckAnyone(s) ==
  IF s.rst >= MaxRst \/ (s.cack = s.lastc /\ s.sack = s.lasts) THEN s ELSE Sweep(s)

(* Fault: one sweep too many. *)
RecheckOffByOne(s) ==
  IF \/ ~s.blocked \/ s.rst > MaxRst
     \/ s.cack = s.lastc /\ s.sack = s.lasts
  THEN s ELSE Sweep(s)

(* recheckBlocked: a blocked session whose positions moved is swept again. *)
RecheckBlocked(s) ==
  IF \/ ~s.blocked \/ s.rst >= MaxRst
     \/ s.cack = s.lastc /\ s.sack = s.lasts
  THEN s ELSE Sweep(s)

(* block, HTTP and HTTPS: a session is blocked once; RstCount becomes 1. *)
Block(s) == IF s.blocked THEN s ELSE Sweep([s EXCEPT !.blocked = TRUE, !.rst = 0])

Init == sessions = [k \in Keys |-> NoSession]

(* lastSeen before the cutoff *)
Expired(s) == s.live /\ s.idle >= IdleLimit

(* ZeroCopyReadPacketData: the packet read is put where the oldest was. *)
Reread(s, p) ==
  CASE ~s.live -> NoSession
    [] s.live /\ s.reads + 1 = Ring -> [s EXCEPT !.ips = p.dir, !.reads = 0]
    [] OTHER -> [s EXCEPT !.reads = s.reads + 1]

(* One round of Run's loop on a TCP packet.  An event comes from the       *)
(* payload of the packet or, in the client's direction, from the payload   *)
(* gathered before.  The table is cleaned in the round in which the 30     *)
(* second ticker has fired.                                                *)
HandlePacket(p, verdict, ticked) ==
  LET k == FlowKey(Src(p), Dst(p))
      table == [j \in Keys |-> Reread(sessions[j], p)]
      s0 == IF table[k].live THEN table[k] ELSE NewSession(p)
      s1 == RecheckBlocked(UpdateSeq(s0, p))
      s2 == IF verdict THEN Block([s1 EXCEPT !.guilty = TRUE]) ELSE s1
      parsed == p.seg.len > 0 \/ FromClient(s0, p)
      handled == [table EXCEPT ![k] = [s2 EXCEPT !.quiet = 0]]
  IN /\ verdict => parsed
     /\ sessions' = [j \in Keys |-> IF ticked /\ Expired(handled[j]) THEN NoSession
                                    ELSE handled[j]]

(* Time passes; times are counted up to the limit. *)
NextTick(t) == IF t < IdleLimit THEN t + 1 ELSE t
Elapse ==
  /\ \E k \in Live : sessions[k].idle < IdleLimit \/ sessions[k].quiet < IdleLimit
  /\ sessions' = [k \in Keys |->
       IF sessions[k].live
       THEN [sessions[k] EXCEPT !.idle = NextTick(@), !.quiet = NextTick(@)]
       ELSE NoSession]

Next ==
  \/ \E p \in Packet, verdict, ticked \in BOOLEAN : HandlePacket(p, verdict, ticked)
  \/ Elapse

Spec == Init /\ [][Next]_sessions

-----------------------------------------------------------------------------
Session ==
  [live : {TRUE}, client : Endpoints, server : Endpoints,
   cack : 0..(W - 1), sack : 0..(W - 1), blocked : BOOLEAN, rst : 0..MaxRst,
   lastc : 0..(W - 1), lasts : 0..(W - 1), idle : 0..IdleLimit, ips : Directions, reads : 0..(Ring - 1),
   sent : Nat, aim : (0..(W - 1)) \X (0..(W - 1)), guilty : BOOLEAN,
   quiet : 0..IdleLimit]

(* Type invariant; RstCount stays within the limit of engine.go:134. *)
TypeOK == sessions \in [Keys -> Session \cup {NoSession}]

(* Forged packets are bounded: in its life a session is swept MaxRst times *)
(* at most, over every interleaving of blocked events and rechecks         *)
(* (engine.go:113-121, 134, 140-144).                                      *)
SweepBudget == \A k \in Live : sessions[k].sent <= MaxRst

(* No bystander is reset: a session is swept only after an event of its    *)
(* own was to be blocked (engine.go:134).                                  *)
OnlyGuiltySwept == \A k \in Live : sessions[k].sent > 0 => sessions[k].guilty

(* The two directions of a connection share one session, so the positions  *)
(* learned from one side aim the sweep at the other (session.go:22-32).    *)
OneSessionPerConnection ==
  \A j, k \in Live :
    {sessions[j].client, sessions[j].server} = {sessions[k].client, sessions[k].server}
      => j = k

(* A further sweep of a session is aimed elsewhere than the one before     *)
(* (engine.go:137-142).                                                    *)
SweepsMove ==
  [][\A k \in Keys :
       (sessions[k].live /\ sessions'[k].live
        /\ sessions[k].sent > 0 /\ sessions'[k].sent > sessions[k].sent)
       => sessions'[k].aim # sessions[k].aim]_sessions

(* A session with a packet in either direction within the idle limit is    *)
(* kept: the memory of having been blocked outlives the cleanups           *)
(* (session.go:135, 139-147).                                              *)
ActiveSessionsKept ==
  [][\A k \in Keys :
       (sessions[k].live /\ ~sessions'[k].live) => sessions[k].quiet = IdleLimit]_sessions

(* block.go:143, 148: a sweep goes to the client and the server of the     *)
(* session.  So its IP fields hold their addresses when it is sent.        *)
SweepsAddressed ==
  [][\A k \in Keys :
       (sessions[k].live /\ sessions'[k].live /\ sessions'[k].sent > sessions[k].sent)
       => sessions'[k].ips = <<sessions'[k].client, sessions'[k].server>>]_sessions
=============================================================================
