------------------------------ MODULE ResetRace ------------------------------
(***************************************************************************)
(* The race a sweep of forged RSTs has to win: the session table of        *)
(* TcpReset with the two TCP endpoints of one connection, which go on      *)
(* talking while their packets are captured, and take a RST only at the    *)
(* very position they expect next (RFC 5961).  A packet passes the mirror  *)
(* when it is sent, the program handles it some time later, and what it    *)
(* forges takes some time to get on the line, behind all that was sent in  *)
(* the meantime.                                                           *)
(***************************************************************************)
EXTENDS TcpReset, Sequences

CONSTANTS
  Client, Server, \* the endpoints
  Start,          \* endpoint -> the position it expects first
  Lens,           \* endpoint -> lengths of the payloads it sends
  MaxData,        \* bound: packets with payload of each endpoint, without
                  \* and with echo
  Offsets         \* around the base of a sweep, in the order of sending

ASSUME RaceAssumption ==
  /\ Connections = {<<Client, Server>>} /\ Client.port # Server.port
  /\ Start \in [{Client, Server} -> 0..(W - 1)]
  /\ Lens \in [{Client, Server} -> SUBSET (1..(W - 1))]
  /\ MaxData \in [BOOLEAN -> [{Client, Server} -> Nat]] /\ Offsets \in Seq(Int)

VARIABLES
  nxt,    \* RCV.NXT of each endpoint
  snd,    \* SND.NXT of each endpoint
  data,   \* packets with payload each endpoint has sent
  open,   \* the endpoint has not been reset
  owes,   \* the endpoint has something to acknowledge
  wire,   \* packets on their way to each endpoint
  mirror, \* packets captured and not handled yet
  out,    \* sweeps written to the socket and not on the line yet
  seqs,   \* ClientSeq and ServerSeq: the last seen of each endpoint
  mac,    \* ServerMAC: "none", "server", or "self", this host's own
  echo    \* frames sent are captured again: one interface does both

race == <<nxt, snd, data, open, owes, wire, mirror, out, seqs, mac, echo>>
raceVars == <<sessions, race>>

Ends == {Client, Server}
Peer(e) == IF e = Client THEN Server ELSE Client
Key == FlowKey(Client, Server)
Session0 == sessions[Key]
Guilty == Session0.live /\ Session0.guilty

RaceInit ==
  /\ Init
  /\ nxt = Start /\ snd = [e \in Ends |-> Start[Peer(e)]]
  /\ data = [e \in Ends |-> 0] /\ open = [e \in Ends |-> TRUE] /\ owes = [e \in Ends |-> FALSE]
  /\ wire = [e \in Ends |-> <<>>] /\ mirror = <<>> /\ out = <<>>
  /\ seqs = [e \in Ends |-> 0] /\ mac = "none"
  /\ echo \in BOOLEAN

-----------------------------------------------------------------------------
(* The endpoints and the line between them, on which an acknowledgement    *)
(* without data changes nothing                                            *)
Transmit(e, n) ==
  /\ open[e]
  /\ wire' = IF n = 0 THEN wire
             ELSE [wire EXCEPT ![Peer(e)] = Append(@, [rst |-> FALSE, len |-> n])]
  /\ mirror' = Append(mirror, [dir |-> <<e, Peer(e)>>, own |-> FALSE,
                               seg |-> [seq |-> snd[e], ack |-> nxt[e], len |-> n]])
  /\ snd' = [snd EXCEPT ![e] = (@ + n) % W]
  /\ owes' = [owes EXCEPT ![e] = FALSE]
  /\ UNCHANGED <<sessions, nxt, open, out, seqs, mac, echo>>

SendData(e) ==
  /\ data[e] < MaxData[echo][e]
  /\ data' = [data EXCEPT ![e] = @ + 1]
  /\ \E n \in Lens[e] : Transmit(e, n)

Ack(e) == owes[e] /\ Transmit(e, 0) /\ UNCHANGED data

(* A sweep resets where one of its RSTs hits the position, and is          *)
(* challenged with an acknowledgement where one lies ahead of it.          *)
Deliver(e) ==
  /\ wire[e] # <<>>
  /\ wire' = [wire EXCEPT ![e] = Tail(@)]
  /\ LET m == Head(wire[e]) IN
     IF m.rst
     THEN /\ open' = [open EXCEPT ![e] = @ /\ nxt[e] \notin m.at]
          /\ owes' = [owes EXCEPT ![e] = @ \/ \E q \in m.at : Ahead(q, nxt[e])]
          /\ UNCHANGED nxt
     ELSE /\ nxt' = [nxt EXCEPT ![e] = (@ + m.len) % W]
          /\ owes' = [owes EXCEPT ![e] = TRUE]
          /\ UNCHANGED open
  /\ UNCHANGED <<sessions, snd, data, mirror, out, seqs, mac, echo>>

-----------------------------------------------------------------------------
(* Fault: the sum is not cut to 32 bits. *)
RstSeqUnwrapped(base) == [i \in DOMAIN Offsets |-> base + Offsets[i]]

RstSeqSet(base) == [i \in DOMAIN Offsets |-> (base + Offsets[i]) % W]

(* sendRSTBurst: on the wire, and as captured again *)
Burst(base) ==
  [rst |-> TRUE, at |-> {RstSeqSet(base)[i] : i \in DOMAIN RstSeqSet(base)}]
Echoes(from, to, base, ack) ==
  [i \in DOMAIN RstSeqSet(base) |->
     [dir |-> <<from, to>>, own |-> TRUE,
      seg |-> [seq |-> RstSeqSet(base)[i], ack |-> ack, len |-> 0]]]

Swept ==
  /\ sessions'[Key].live
  /\ sessions'[Key].sent > IF sessions[Key].live THEN sessions[Key].sent ELSE 0

(* The first frame from the server teaches its MAC, a captured forgery     *)
(* this host's.                                                            *)
LearnMac(p) ==
  mac' = IF mac = "none" /\ p.dir[1] = sessions'[Key].server
         THEN IF p.own THEN "self" ELSE "server"
         ELSE mac

(* Does a frame for the server arrive?  While its MAC is unknown, it goes  *)
(* to the client's, and a gateway may or may not pass it on.               *)
Arrives == CASE mac' = "server" -> {TRUE} [] mac' = "self" -> {FALSE} [] OTHER -> BOOLEAN

(* SendRST's two bursts *)
Inject(s) ==
  /\ \E arrives \in Arrives :
       out' = Append(out, [e \in Ends |->
         CASE e = s.client -> <<Burst(s.cack)>>
           [] e = s.server /\ arrives -> <<Burst(s.sack)>>
           [] OTHER -> <<>>])
  /\ mirror' = IF echo
               THEN Tail(mirror) \o Echoes(s.server, s.client, s.cack, seqs'[s.client])
                                 \o Echoes(s.client, s.server, s.sack, seqs'[s.server])
               ELSE Tail(mirror)

(* A sweep gets on the line. *)
Launch ==
  /\ out # <<>>
  /\ out' = Tail(out)
  /\ wire' = [e \in Ends |-> wire[e] \o Head(out)[e]]
  /\ UNCHANGED <<sessions, nxt, snd, data, open, owes, mirror, seqs, mac, echo>>

(* handlePacket with the sweep it causes.  The client's data is a request  *)
(* to be blocked, found again with every later packet of it, if it is the  *)
(* client to the session too.                                              *)
Handle ==
  /\ mirror # <<>>
  /\ LET p == Head(mirror) IN
     /\ LET verdict == /\ p.dir[1] = Client
                       /\ p.seg.len > 0 \/ (Guilty /\ Session0.client = Client)
        IN HandlePacket(p, verdict, FALSE)
     /\ seqs' = [seqs EXCEPT ![p.dir[1]] = p.seg.seq]
     /\ LearnMac(p)
  /\ IF Swept THEN Inject(sessions'[Key])
     ELSE out' = out /\ mirror' = Tail(mirror)
  /\ UNCHANGED <<nxt, snd, data, open, owes, wire, echo>>

Progress == Handle \/ Launch \/ \E e \in Ends : Ack(e) \/ Deliver(e)

RaceNext == Progress \/ \E e \in Ends : SendData(e)

(* The capture loop runs, the line delivers, TCP acknowledges: while there *)
(* is any of it to do, some of it is done.                                 *)
RaceFairness == WF_raceVars(Progress)

RaceSpec == RaceInit /\ [][RaceNext]_raceVars /\ RaceFairness

-----------------------------------------------------------------------------
(* Type invariant; the positions the session holds are on the circle, and  *)
(* what is on the wire for an endpoint is data or a whole burst            *)
(* (session.go:115-136, block.go:99-138).                                  *)
RaceTypeOK ==
  /\ Session0 # NoSession =>
       /\ {Session0.client, Session0.server} = Ends
       /\ {Session0.cack, Session0.sack} \subseteq 0..(W - 1) /\ Session0.rst \in 0..MaxRst
  /\ \A e \in Ends :
       /\ {nxt[e], snd[e], seqs[e]} \subseteq 0..(W - 1) /\ data[e] \in 0..MaxData[echo][e]
       /\ \A i \in DOMAIN wire[e] :
            IF wire[e][i].rst THEN wire[e][i].at \subseteq 0..(W - 1)
            ELSE wire[e][i].len \in Lens[Peer(e)]
  /\ mac \in {"none", "server", "self"} /\ ("self" = mac => echo)

Reset == \E e \in Ends : ~open[e]

(* Without an answer of the server the first sweep resets the client, so   *)
(* what is left alone at last has had an answer and every sweep: each move *)
(* of the positions brings about the next one (engine.go:130-145,          *)
(* block.go:142-157).                                                      *)
OnlyAnswersDefeat ==
  Guilty ~> (Reset \/ (Guilty /\ Session0.rst = MaxRst /\ data[Server] > 0))

(* engine.go:130-132: a session whose positions move is swept again with   *)
(* the newest ones, up to three times, which makes sure that the           *)
(* connection is reset.                                                    *)
ConnectionReset == Guilty ~> Reset

(* A sweep tries its base too, and no connection carries half the circle   *)
(* of positions while it is watched (block.go:99-100, session.go:121).     *)
Centred == \E i \in DOMAIN Offsets : Offsets[i] = 0
Short == \A e \in Ends : \A n \in Lens[e] : MaxData[FALSE][e] * n <= (W - 1) \div 2

Hits(e, base) == \E i \in DOMAIN Offsets : RstSeqSet(base)[i] = nxt[e]

(* A sweep caused by the client's newest data while nothing else is under  *)
(* way, and the client has acknowledged all it got, is aimed at the very   *)
(* positions both ends expect (session.go:115-136, block.go:142-157): what *)
(* makes a sweep miss is the race or a captured forgery, not the books.    *)
QuietSweepsHit ==
  [][(/\ Swept /\ mirror # <<>> /\ mirror' = <<>>
      /\ Head(mirror).seg.len > 0 /\ Head(mirror).dir[1] = Client
      /\ \A e \in Ends : wire[e] = <<>>
      /\ ~owes[Client])
     => /\ Hits(sessions'[Key].client, sessions'[Key].cack)
        /\ Hits(sessions'[Key].server, sessions'[Key].sack)]_raceVars
=============================================================================
