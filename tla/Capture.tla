------------------------------- MODULE Capture -------------------------------
(***************************************************************************)
(* From a mirrored packet to an event: handlePacket (capture.go), the      *)
(* header gathered per session (session.go), the recognition of HTTP, TLS  *)
(* and DNS (parse.go, ja3.go) and what the engine makes of an event        *)
(* (engine.go, block.go).  One client's TCP stream is followed, with the   *)
(* packets of its server, and any DNS packets in between.                  *)
(*                                                                         *)
(* A stream is a sequence of fields [f, v], for TLS those of ClientHello   *)
(* and then "data"; for HTTP "method" (the request line), "host" (CRLF and *)
(* Host:), "part" (a piece of a name) and "crlf" (CRLF and what follows    *)
(* up to the next field).  Packets carry positions of the stream, 0 stands *)
(* for bytes of the server; no reply looks like a request.  The mirror may *)
(* lose, repeat and reorder packets or begin in the middle.                *)
(***************************************************************************)
EXTENDS ClientHello, DnsPoison

CONSTANTS
  Streams,       \* [client, server, proto, says, names, upto, ja4]: endpoints,
                 \* fields, names of the requests in order, the end of the first
                 \* header, the fingerprint of the client's software
  Datagrams,     \* UDP packets [src, dst, msg]
  RawConfigs,    \* configuration files
  LocalIPs,      \* addresses of the host
  Norm,          \* normalizeDomain: spelling -> name
  Matched,       \* names in the category library
  Blocked,       \* names the policy blocks (PolicySync)
  MaxPayloadBuf, \* 8192
  MaxFaults      \* bound: packets out of order and cleanups

JunkPrint == [ver |-> "junk"]
NoEvent == [proto |-> "none"]

ASSUME CaptureAssumption ==
  /\ MaxPayloadBuf \in Nat \ {0} /\ MaxFaults \in Nat
  /\ Norm[NoName] = NoName /\ Norm[Junk] = Junk
  /\ \A raw \in RawConfigs : {"mode", "dnsPoison"} \subseteq DOMAIN raw

VARIABLES
  cfg,     \* Config
  stream,  \* the stream followed
  session, \* its TcpSession or NoSession; named is history: names read from buf
  at,      \* history: the client's position, as far as captured
  faults,  \* history: packets out of order, cleanups
  found,   \* history: events of the stream that were reported
  dns      \* history: the last UDP packet, its event and the forged answers

vars == <<cfg, stream, session, at, faults, found, dns>>

NoSession == [live |-> FALSE]
NewSession(from) == [live |-> TRUE, client |-> from, buf |-> <<>>, named |-> {}]
NoDns == [handled |-> FALSE]

LoadConfig(raw) ==
  [raw EXCEPT !.mode = IF @ = "enforcement" THEN @ ELSE "monitoring",
              !.dnsPoison = IF @ = "blackhole" THEN @ ELSE "nxdomain"]

IsProtocolEnabled(p) == p \in cfg.protocols

(* Fault: no limit. *)
AppendUnbounded(s, payload) == [s EXCEPT !.buf = @ \o payload]

AppendPayload(s, payload) ==
  [s EXCEPT !.buf = SubSeq(@ \o payload, 1, Min({Len(@ \o payload), MaxPayloadBuf}))]

-----------------------------------------------------------------------------
Text(b) == [i \in DOMAIN b |-> IF b[i] = 0 THEN [f |-> "reply", v |-> 0]
                               ELSE stream.says[b[i]]]

(* The bytes between Host: and the next CRLF *)
HostValue(fields) ==
  IF fields = <<>> THEN NoName
  ELSE IF \A i \in DOMAIN fields :
            /\ fields[i].f = "part"
            /\ fields[i].v = [name |-> fields[1].v.name, part |-> i, of |-> Len(fields)]
  THEN fields[1].v.name ELSE Junk

BeginsLine(a) == a.f \in {"host", "crlf"}

(* Fault: the last Host header counts. *)
ExtractLastHost(b) ==
  LET h == SelectLastInSeq(b, LAMBDA a : a.f = "host")
      rest == SubSeq(b, h + 1, Len(b))
      end == SelectInSeq(rest, BeginsLine)
  IN IF h = 0 \/ end = 0 THEN NoName ELSE HostValue(SubSeq(rest, 1, end - 1))

(* The first Host header counts, once its line is complete. *)
ExtractHTTPHost(b) ==
  LET h == SelectInSeq(b, LAMBDA a : a.f = "host")
      rest == SubSeq(b, h + 1, Len(b))
      end == SelectInSeq(rest, BeginsLine)
  IN IF h = 0 \/ end = 0 THEN NoName ELSE HostValue(SubSeq(rest, 1, end - 1))

(* Fields h to e of says are a Host header and the begin of the next line. *)
HostLine(says, h, e) ==
  /\ h < e /\ says[h].f = "host" /\ BeginsLine(says[e])
  /\ \A i \in (h + 1)..(e - 1) : ~BeginsLine(says[i])

(* The requests of an HTTP client: the first begins the stream and is the  *)
(* only one up to the end of its Host header; the names are those of the   *)
(* Host headers.                                                           *)
HttpStream(s) ==
  /\ s.proto = "http"
  /\ \A i \in DOMAIN s.says : s.says[i].f \in {"method", "host", "part", "crlf"}
  /\ \A i \in 1..s.upto : s.says[i].f = "method" <=> i = 1
  /\ \A h, e \in DOMAIN s.says : HostLine(s.says, h, e) =>
       HostValue(SubSeq(s.says, h + 1, e - 1)) \in ToSet(s.names)
  /\ \E h \in 1..s.upto :
       /\ HostLine(s.says, h, s.upto) /\ \A i \in 1..(h - 1) : s.says[i].f # "host"
       /\ HostValue(SubSeq(s.says, h + 1, s.upto - 1)) = s.names[1]

(* A hello with a server name and what follows it: the length with its     *)
(* compression methods reaches to its end, the pieces of the name are all  *)
(* in it.                                                                  *)
TlsStream(s) ==
  LET sni == {i \in 1..s.upto : s.says[i].f = "sni"} IN
  /\ s.proto = "https"
  /\ \A i \in DOMAIN s.says : /\ s.says[i].f = "record" <=> i = 1
                              /\ s.says[i].f # "method"
  /\ s.upto >= 2 /\ s.says[2].f = "fixed"
  /\ \E c \in 1..s.upto :
       /\ s.says[c].f = "comp" /\ \A i \in 1..(c - 1) : s.says[i].f # "comp"
       /\ s.says[c].v \in Nat /\ c + s.says[c].v = s.upto
  /\ sni # {}
  /\ \A i \in sni : s.says[i].v.name = s.names[1] /\ s.says[i].v.of = Cardinality(sni)

(* What clients send: requests for names, and queries whose labels have    *)
(* bytes (a label of none ends a name on the wire).                        *)
ASSUME StreamsAssumption ==
  \A s \in Streams :
    /\ s.client.port # s.server.port
    /\ s.says \in Seq(ToSet(s.says)) /\ s.upto \in DOMAIN s.says
    /\ s.names \in Seq(ToSet(s.names)) /\ s.names # <<>>
    /\ \A n \in DOMAIN s.names : Norm[s.names[n]] # NoName
    /\ HttpStream(s) \/ TlsStream(s)

ASSUME DatagramsAssumption ==
  \A p \in Datagrams : /\ p.msg.labels \in Seq(ToSet(p.msg.labels))
                       /\ \A l \in ToSet(p.msg.labels) : l \in Seq(STRING) /\ l # <<NoBytes>>

HttpEvent(b) ==
  LET name == Norm[ExtractHTTPHost(b)] IN
  IF name = NoName THEN NoEvent ELSE [proto |-> "http", domain |-> name]

TlsEvent(b) ==
  LET ch == ParseClientHello(b) IN
  IF ~IsHello(b) \/ Norm[ch.sni] = NoName THEN NoEvent
  ELSE [proto |-> "https", domain |-> Norm[ch.sni], ja3 |-> JA3(ch), ja4 |-> JA4(ch)]

(* The fields of a hello that stand where lengths say they do: up to the   *)
(* first gap or repeat.  Behind it the parser takes any bytes for fields.  *)
Readable(b) ==
  LET gaps == {i \in 1..(Len(b) - 1) : b[i + 1] # b[i] + 1}
  IN IF gaps = {} THEN b ELSE SubSeq(b, 1, Min(gaps))

Misread(ev) ==
  {NoEvent} \cup {[proto |-> "https", domain |-> d, ja3 |-> Junk, ja4 |-> JunkPrint] :
                    d \in {Junk} \cup (IF ev = NoEvent THEN {} ELSE {ev.domain})}

(* What parseTCPPayload may return *)
ParseTCPPayload(b) ==
  LET t == Text(b)
      h == Text(Readable(b))
  IN CASE b # <<>> /\ t[1].f = "record" ->
            IF Readable(b) = b \/ (IsHello(h) /\ HelloEnd(h) <= Len(h))
            THEN {TlsEvent(h)} ELSE Misread(TlsEvent(h))
       [] b # <<>> /\ t[1].f = "method" -> {HttpEvent(t)}
       [] OTHER -> {NoEvent}

(* Fault: only packets are parsed. *)
RecognisePacket(payload, s, fromClient) ==
  {[ev |-> ev, gathered |-> FALSE] : ev \in ParseTCPPayload(payload)}

(* The packet is parsed, and if that finds nothing and it is the client's, *)
(* what was gathered.                                                      *)
Recognise(payload, s, fromClient) ==
  LET single == ParseTCPPayload(payload) IN
  {[ev |-> ev, gathered |-> FALSE] :
     ev \in IF fromClient THEN single \ {NoEvent} ELSE single}
  \cup (IF fromClient /\ NoEvent \in single
        THEN {[ev |-> ev, gathered |-> TRUE] : ev \in ParseTCPPayload(s.buf)} ELSE {})

-----------------------------------------------------------------------------
(* The port policy and the protocol switch of handlePacket *)
Admitted(proto, src, dst) ==
  /\ cfg.portPolicy = "fixed" => {src.port, dst.port} \cap cfg.fixedPorts # {}
  /\ IsProtocolEnabled(proto)

(* handleEvent: its excluded sources, and the names it reports *)
Excluded(src) == src.ip \in LocalIPs \cup cfg.excludeSrcIPs
Reported(domain) == domain \in Matched \cup Blocked

(* handlePacket on a TCP packet; sequence numbers and resets are TcpReset's. *)
HandleTcp(from, to, payload) ==
  LET s0 == IF session.live THEN session ELSE NewSession(from)
      fromClient == from.port = s0.client.port
      s1 == IF fromClient THEN AppendPayload(s0, payload) ELSE s0
  IN /\ \E r \in Recognise(payload, s1, fromClient) :
          /\ session' = IF r.gathered /\ r.ev # NoEvent
                        THEN [s1 EXCEPT !.named = @ \cup {r.ev.domain}] ELSE s1
          /\ found' = IF /\ r.ev # NoEvent /\ Admitted(r.ev.proto, from, to)
                         /\ ~Excluded(from) /\ Reported(r.ev.domain)
                      THEN found \cup {r.ev} ELSE found
     /\ dns' = NoDns
     /\ UNCHANGED <<cfg, stream>>

(* A packet of the client with positions i to j of the stream *)
ClientSends(i, j) ==
  /\ HandleTcp(stream.client, stream.server, [n \in 1..(j - i + 1) |-> i + n - 1])
  /\ at' = Max({at, j})
  /\ faults' = IF i = at + 1 THEN faults ELSE faults + 1

ClientAcks ==
  /\ HandleTcp(stream.client, stream.server, <<>>)
  /\ UNCHANGED <<at, faults>>

ServerSends ==
  /\ \E payload \in {<<>>, <<0>>} : HandleTcp(stream.server, stream.client, payload)
  /\ UNCHANGED <<at, faults>>

(* handlePacket on a UDP packet: the event and, in enforcement, the answer *)
HandleUdp(p) ==
  LET domain == Norm[ExtractQName(p.msg)]
      event == /\ IsDNSQuery(p.msg) /\ Admitted("dns", p.src, p.dst) /\ ~Excluded(p.src)
      forge == event /\ cfg.mode = "enforcement" /\ domain \in Blocked
  IN /\ dns' = [handled |-> TRUE, packet |-> p, event |-> event /\ Reported(domain),
                forged |-> IF forge
                           THEN {SendDNSPoison(p, ExtractQName(p.msg), cfg.dnsPoison)}
                           ELSE {}]
     /\ UNCHANGED <<cfg, stream, session, at, faults, found>>

(* Cleanup after two idle minutes *)
Expire ==
  /\ session.live /\ faults < MaxFaults
  /\ session' = NoSession
  /\ faults' = faults + 1
  /\ dns' = NoDns
  /\ UNCHANGED <<cfg, stream, at, found>>

Init ==
  /\ cfg \in {LoadConfig(raw) : raw \in RawConfigs}
  /\ stream \in Streams
  /\ session = NoSession /\ at = 0 /\ faults = 0 /\ found = {} /\ dns = NoDns

Next ==
  \/ \E j \in (at + 1)..Len(stream.says) : ClientSends(at + 1, j)
  \/ /\ faults < MaxFaults
     /\ \E i \in DOMAIN stream.says \ {at + 1} : \E j \in i..Len(stream.says) : ClientSends(i, j)
  \/ ClientAcks
  \/ ServerSends
  \/ \E p \in Datagrams : HandleUdp(p)
  \/ Expire

Spec == Init /\ [][Next]_vars

-----------------------------------------------------------------------------
(* Type invariant; the gathered header stays within maxPayloadBuf and the  *)
(* settings have one of their two values (session.go:58-73,                *)
(* config.go:66-71).                                                       *)
TypeOK ==
  /\ cfg.mode \in {"enforcement", "monitoring"} /\ cfg.dnsPoison \in {"blackhole", "nxdomain"}
  /\ stream \in Streams
  /\ session # NoSession =>
       /\ session.client \in {stream.client, stream.server}
       /\ Len(session.buf) <= MaxPayloadBuf
       /\ ToSet(session.buf) \subseteq 0..Len(stream.says)
  /\ at \in 0..Len(stream.says)
  /\ faults \in 0..MaxFaults

(* All packets of the client captured in order, from the first *)
InOrder == faults = 0 /\ session.live /\ session.client = stream.client

(* The program asks for an event of the stream's client for the name. *)
Wanted(name) ==
  /\ Admitted(stream.proto, stream.client, stream.server)
  /\ ~Excluded(stream.client)
  /\ Reported(Norm[name])

(* However the first header of a stream is divided into packets, and       *)
(* whatever is captured in between, its name is reported once the header   *)
(* is there, provided it fits the buffer (capture.go:117-141).             *)
RequestsFound ==
  (InOrder /\ at >= stream.upto /\ stream.upto <= MaxPayloadBuf /\ Wanted(stream.names[1]))
  => \E ev \in found : ev.domain = Norm[stream.names[1]]

(* While the packets are captured once each and in order, no name is       *)
(* reported that the client did not ask for: cut off headers do not yield  *)
(* the beginning of a name (parse.go:292, ja3.go:80).                      *)
DomainsAsked ==
  faults = 0 => \A ev \in found : \E n \in DOMAIN stream.names : ev.domain = Norm[stream.names[n]]

(* What was gathered from a session has one name for ever, for HTTP even   *)
(* if packets are lost, repeated and reordered: the repeated parses of     *)
(* capture.go:138 cannot make one request look like requests for several.  *)
OneHeaderPerSession ==
  (session.live /\ (faults = 0 \/ stream.proto = "http")) => Cardinality(session.named) <= 1

(* The client's software is recognised by its JA4, whatever GREASE values  *)
(* and order of extensions this hello of it has and however it is divided, *)
(* and even though cut off hellos were fingerprinted before                *)
(* (ja3.go:186-204).                                                       *)
ClientRecognised ==
  (/\ stream.proto = "https" /\ InOrder
   /\ at >= stream.upto /\ stream.upto <= MaxPayloadBuf /\ Wanted(stream.names[1]))
  => \E ev \in found : ev.ja4 = stream.ja4

(* A stub resolver takes an answer from the server it asked, with the      *)
(* transaction and the question of the query, letter by letter.            *)
Accepts(query, answer) ==
  /\ answer.src = query.dst /\ answer.dst = query.src
  /\ answer.msg.qr /\ answer.msg.id = query.msg.id
  /\ answer.msg.labels = query.msg.labels /\ answer.msg.qtype = query.msg.qtype

(* No answer is forged to an answer, the program's own included, and the   *)
(* client takes the one forged to its query for an address; labels have no *)
(* dots in them (parse.go:119, block.go:161-263).                          *)
ForgedIsAcceptable ==
  dns.handled => \A answer \in dns.forged :
    /\ ~dns.packet.msg.qr
    /\ (dns.packet.msg.qtype = "A" /\ \A l \in ToSet(dns.packet.msg.labels) : Len(l) = 1)
         => Accepts(dns.packet, answer)
=============================================================================
