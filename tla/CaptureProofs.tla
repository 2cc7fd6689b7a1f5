----------------------------- MODULE CaptureProofs -----------------------------
(***************************************************************************)
(* Theorems about Capture: for streams of any length, cut into packets in  *)
(* any way, and for a header buffer of any size.                           *)
(***************************************************************************)
EXTENDS Capture, ParseProofs

(* Positions i to j of the stream: what a packet of the client carries *)
Segment(i, j) == [n \in 1..(j - i + 1) |-> i + n - 1]

Size == Len(stream.says)
Held(n) == IF n <= MaxPayloadBuf THEN n ELSE MaxPayloadBuf

(* The whole first hello, as one packet would show it *)
FirstHello(s) == ParseClientHello(SubSeq(s.says, 1, s.upto))

-----------------------------------------------------------------------------
(* The inductive invariant *)
Shaped ==
  /\ \E raw \in RawConfigs : cfg = LoadConfig(raw)
  /\ stream \in Streams
  /\ at \in 0..Size /\ faults \in 0..MaxFaults
  /\ session # NoSession =>
       /\ session = [live |-> TRUE, client |-> session.client, buf |-> session.buf,
                     named |-> session.named]
       /\ session.client \in {stream.client, stream.server}
       /\ session.buf \in Seq(0..Size) /\ Len(session.buf) <= MaxPayloadBuf

(* In order, the buffer is the beginning of the stream; a session that the *)
(* server seems to have begun gathers nothing of the client's.             *)
Gathered ==
  /\ (~session.live /\ faults = 0) => at = 0
  /\ session.live =>
       /\ session.client = stream.server => \A i \in DOMAIN session.buf : session.buf[i] = 0
       /\ (session.client = stream.client /\ faults = 0) => session.buf = Segment(1, Held(at))

(* A name read from the buffer would be read from it again. *)
NamedOnce ==
  session.live =>
    /\ stream.proto = "http" =>
         \A d \in session.named : d = Norm[ExtractHTTPHost(Text(session.buf))] /\ d # NoName
    /\ (stream.proto = "https" /\ faults = 0) => session.named \subseteq {Norm[stream.names[1]]}

(* The event of the first request, with the fingerprint of its hello *)
FirstFoundOnce ==
  (InOrder /\ at >= stream.upto /\ stream.upto <= MaxPayloadBuf /\ Wanted(stream.names[1]))
  => \E ev \in found :
       /\ ev.domain = Norm[stream.names[1]]
       /\ stream.proto = "https" => ev.ja4 = JA4(FirstHello(stream))

Forged ==
  dns # NoDns =>
    /\ dns.packet \in Datagrams
    /\ dns.forged # {} => /\ IsDNSQuery(dns.packet.msg)
                          /\ dns.forged = {SendDNSPoison(dns.packet,
                                             ExtractQName(dns.packet.msg), cfg.dnsPoison)}

CInv ==
  /\ Shaped /\ Gathered /\ NamedOnce
  /\ DomainsAsked
  /\ FirstFoundOnce
  /\ Forged
-----------------------------------------------------------------------------
(* Slices of sequences, and the Host header of one *)
LEMMA SliceIs ==
  ASSUME NEW t, DOMAIN t = 1..Len(t), Len(t) \in Nat,
         NEW a \in Nat \ {0}, NEW b \in Nat, a <= b + 1, b <= Len(t)
  PROVE  /\ Len(SubSeq(t, a, b)) = b - a + 1
         /\ DOMAIN SubSeq(t, a, b) = 1..(b - a + 1)
         /\ SubSeq(t, a, b) = [k \in 1..(b - a + 1) |-> t[a + k - 1]]
<1> DEFINE S == {t[i] : i \in 1..Len(t)}
           q == SubSeq(t, a, b)
<1>1. \A i \in a..b : t[i] \in S
  OBVIOUS
<1>2. a \in Int /\ b \in Int
  OBVIOUS
<1> HIDE DEF S
<1>3. /\ q \in Seq(S)
      /\ Len(q) = IF a <= b THEN b - a + 1 ELSE 0
      /\ \A i \in 1..(b - a + 1) : q[i] = t[a + i - 1]
  BY <1>1, <1>2, SubSeqProperties
<1>4. Len(q) = b - a + 1
  BY <1>3
<1> HIDE DEF q
<1>5. DOMAIN q = 1..(b - a + 1) /\ q = [k \in 1..(b - a + 1) |-> q[k]]
  BY <1>3, <1>4
<1> QED
  BY <1>3, <1>4, <1>5 DEF q

(* Two sequences that agree up to a shift have the same slices. *)
LEMMA SameSlice ==
  ASSUME NEW t, DOMAIN t = 1..Len(t), Len(t) \in Nat,
         NEW u, DOMAIN u = 1..Len(u), Len(u) \in Nat,
         NEW k \in Nat, NEW a \in Nat \ {0}, NEW b \in Nat, a <= b + 1,
         b <= Len(t), b + k <= Len(u)
  PROVE  (\A i \in a..b : u[i + k] = t[i]) => SubSeq(u, a + k, b + k) = SubSeq(t, a, b)
<1>1. SubSeq(t, a, b) = [i \in 1..(b - a + 1) |-> t[a + i - 1]]
  BY SliceIs
<1>2. /\ a + k \in Nat \ {0} /\ b + k \in Nat /\ a + k <= b + k + 1
      /\ (b + k) - (a + k) + 1 = b - a + 1
  OBVIOUS
<1>3. SubSeq(u, a + k, b + k) = [i \in 1..((b + k) - (a + k) + 1) |-> u[a + k + i - 1]]
  BY <1>2, SliceIs
<1>4. ASSUME \A i \in a..b : u[i + k] = t[i], NEW i \in 1..(b - a + 1)
      PROVE  u[a + k + i - 1] = t[a + i - 1]
  <2>1. a + i - 1 \in a..b /\ (a + i - 1) + k = a + k + i - 1
    OBVIOUS
  <2> QED
    BY <1>4, <2>1
<1> QED
  BY <1>1, <1>2, <1>3, <1>4

(* What is behind position h, and a slice of that *)
Slice(t, a, b) == SubSeq(t, a, b)
Rest(t, h) == Slice(t, h + 1, Len(t))

LEMMA RestIs ==
  ASSUME NEW t, DOMAIN t = 1..Len(t), Len(t) \in Nat, NEW h \in 1..Len(t)
  PROVE  /\ Len(Rest(t, h)) = Len(t) - h /\ DOMAIN Rest(t, h) = 1..(Len(t) - h)
         /\ \A k \in 1..(Len(t) - h) : Rest(t, h)[k] = t[h + k]
<1> DEFINE a == h + 1
           l == Len(t)
<1>1. /\ a \in Nat \ {0} /\ l \in Nat /\ a <= l + 1 /\ l <= Len(t)
      /\ l - a + 1 = l - h /\ \A k \in Nat : a + k - 1 = h + k
  OBVIOUS
<1> HIDE DEF a
<1>2. /\ Len(Slice(t, a, l)) = l - a + 1
      /\ DOMAIN Slice(t, a, l) = 1..(l - a + 1)
      /\ Slice(t, a, l) = [k \in 1..(l - a + 1) |-> t[a + k - 1]]
  <2> HIDE DEF l
  <2> QED
    BY <1>1, SliceIs DEF Slice
<1>3. Rest(t, h) = Slice(t, a, l)
  BY DEF Rest, a
<1> DEFINE r == Rest(t, h)
           d == Len(t) - h
<1>4. Len(r) = d /\ DOMAIN r = 1..d /\ r = [k \in 1..d |-> t[a + k - 1]]
  <2>1. d = l - a + 1
    BY <1>1
  <2> HIDE DEF d, l
  <2> QED
    BY <1>2, <1>3, <2>1
<1>5. \A k \in 1..d : a + k - 1 = h + k
  BY <1>1
<1> HIDE DEF r, d
<1>6. \A k \in 1..d : r[k] = t[h + k]
  BY <1>4, <1>5
<1> QED
  BY <1>4, <1>6 DEF r, d

LEMMA RestSlice ==
  ASSUME NEW t, DOMAIN t = 1..Len(t), Len(t) \in Nat, NEW h \in 1..Len(t),
         NEW n \in 0..(Len(t) - h), NEW m, m = h + n
  PROVE  Slice(t, h + 1, m) = Slice(Rest(t, h), 1, n)
<1> DEFINE rest == Rest(t, h)
<1>0. /\ Len(rest) = Len(t) - h /\ DOMAIN rest = 1..(Len(t) - h)
      /\ \A k \in 1..(Len(t) - h) : rest[k] = t[h + k]
  BY RestIs, Zenon
<1> HIDE DEF rest
<1>1. /\ DOMAIN rest = 1..Len(rest) /\ Len(rest) \in Nat /\ h \in Nat
      /\ 1 \in Nat \ {0} /\ n \in Nat /\ 1 <= n + 1 /\ n <= Len(rest)
      /\ n + h <= Len(t)
  BY <1>0
<1>2. \A i \in 1..n : t[i + h] = rest[i]
  BY <1>0
<1>3. Slice(t, 1 + h, n + h) = Slice(rest, 1, n)
  BY <1>1, <1>2, SameSlice DEF Slice
<1>4. 1 + h = h + 1 /\ n + h = m
  BY <1>1
<1> QED
  BY <1>3, <1>4 DEF rest

LEMMA LeastOrNone ==
  ASSUME NEW n \in Nat, NEW I \in SUBSET (1..n), NEW x, x = IF I # {} THEN Min(I) ELSE 0
  PROVE  \/ x = 0 /\ I = {}
         \/ x \in I /\ \A i \in I : x <= i
<1>1. I \in SUBSET Nat
  OBVIOUS
<1> QED
  BY <1>1, MinIsLeast

(* The first field of rest that begins a line, or 0 *)
NextLine(rest) == SelectInSeq(rest, BeginsLine)

LEMMA NextLineIs ==
  ASSUME NEW r, Len(r) \in Nat
  PROVE  \/ NextLine(r) = 0 /\ \A i \in 1..Len(r) : ~BeginsLine(r[i])
         \/ /\ NextLine(r) \in 1..Len(r) /\ BeginsLine(r[NextLine(r)])
            /\ \A i \in 1..(NextLine(r) - 1) : ~BeginsLine(r[i])
<1> DEFINE I == {i \in 1..Len(r) : BeginsLine(r[i])}
<1>1. NextLine(r) = IF I # {} THEN Min(I) ELSE 0
  BY DEF NextLine, SelectInSeq
<1>2. I \in SUBSET (1..Len(r))
  OBVIOUS
<1> HIDE DEF I
<1>3. \/ NextLine(r) = 0 /\ I = {}
      \/ NextLine(r) \in I /\ \A i \in I : NextLine(r) <= i
  BY <1>1, <1>2, LeastOrNone
<1>4. CASE NextLine(r) = 0 /\ I = {}
  BY <1>4 DEF I
<1>5. CASE NextLine(r) \in I /\ \A i \in I : NextLine(r) <= i
  <2>1. NextLine(r) \in 1..Len(r) /\ BeginsLine(r[NextLine(r)])
    BY <1>5 DEF I
  <2>2. ASSUME NEW i \in 1..(NextLine(r) - 1)
        PROVE  ~BeginsLine(r[i])
    <3>1. i \in 1..Len(r) /\ ~(NextLine(r) <= i)
      BY <2>1
    <3> QED
      BY <1>5, <3>1 DEF I
  <2> QED
    BY <2>1, <2>2
<1> QED
  BY <1>3, <1>4, <1>5

(* What ExtractHTTPHost looks at *)
HostIn(t, h, e) ==
  /\ h \in 1..Len(t) /\ e \in 1..Len(t)
  /\ HostLine(t, h, e)
  /\ \A i \in 1..(h - 1) : t[i].f # "host"

LEMMA HostOrNone ==
  ASSUME NEW t, DOMAIN t = 1..Len(t), Len(t) \in Nat
  PROVE  \/ ExtractHTTPHost(t) = NoName
         \/ \E h, e \in 1..Len(t) : /\ HostIn(t, h, e)
                                    /\ ExtractHTTPHost(t) = HostValue(Slice(t, h + 1, e - 1))
<1> DEFINE h == First(t, "host")
           rest == Rest(t, h)
           end == NextLine(rest)
<1>1. ExtractHTTPHost(t) = IF h = 0 \/ end = 0 THEN NoName
                           ELSE HostValue(Slice(rest, 1, end - 1))
  BY DEF ExtractHTTPHost, First, NextLine, Rest, Slice
<1> SUFFICES ASSUME h # 0, end # 0
             PROVE  \E g, e \in 1..Len(t) : /\ HostIn(t, g, e)
                              /\ ExtractHTTPHost(t) = HostValue(Slice(t, g + 1, e - 1))
  BY <1>1
<1>2. /\ h \in 1..Len(t) /\ t[h].f = "host"
      /\ \A i \in 1..(h - 1) : t[i].f # "host"
  BY FirstFound
<1> HIDE DEF h
<1>3. /\ Len(rest) = Len(t) - h /\ DOMAIN rest = 1..(Len(t) - h)
      /\ \A k \in 1..(Len(t) - h) : rest[k] = t[h + k]
  BY <1>2, RestIs, Zenon
<1> HIDE DEF rest
<1>4. /\ end \in 1..(Len(t) - h) /\ BeginsLine(rest[end])
      /\ \A i \in 1..(end - 1) : ~BeginsLine(rest[i])
  <2>1. Len(rest) \in Nat
    BY <1>2, <1>3
  <2> QED
    BY <1>3, <2>1, NextLineIs
<1> HIDE DEF end
<1> DEFINE e == h + end
<1>5. e \in 1..Len(t) /\ h < e /\ BeginsLine(t[e])
  BY <1>2, <1>3, <1>4
<1>6. ASSUME NEW i \in (h + 1)..(e - 1)
      PROVE  ~BeginsLine(t[i])
  <2>1. i - h \in 1..(end - 1) /\ i - h \in 1..(Len(t) - h) /\ h + (i - h) = i
    BY <1>2, <1>4
  <2>2. ~BeginsLine(rest[i - h])
    BY <1>4, <2>1
  <2> QED
    BY <1>3, <2>1, <2>2
<1>7. HostIn(t, h, e)
  BY <1>2, <1>5, <1>6 DEF HostIn, HostLine
<1>8. Slice(t, h + 1, e - 1) = Slice(rest, 1, end - 1)
  <2>1. end - 1 \in 0..(Len(t) - h) /\ e - 1 = h + (end - 1)
    BY <1>2, <1>4
  <2> QED
    BY <1>2, <2>1, RestSlice DEF rest
<1>9. ExtractHTTPHost(t) = HostValue(Slice(t, h + 1, e - 1))
  BY <1>1, <1>8
<1> HIDE DEF e
<1> QED
  BY <1>2, <1>5, <1>7, <1>9

LEMMA HostIs ==
  ASSUME NEW t, DOMAIN t = 1..Len(t), Len(t) \in Nat, NEW h, NEW e, HostIn(t, h, e)
  PROVE  ExtractHTTPHost(t) = HostValue(Slice(t, h + 1, e - 1))
<1> DEFINE g == First(t, "host")
           rest == Rest(t, g)
           end == NextLine(rest)
<1>1. ExtractHTTPHost(t) = IF g = 0 \/ end = 0 THEN NoName
                           ELSE HostValue(Slice(rest, 1, end - 1))
  BY DEF ExtractHTTPHost, First, NextLine, Rest, Slice
<1>2. /\ h \in 1..Len(t) /\ e \in 1..Len(t) /\ h < e /\ t[h].f = "host" /\ BeginsLine(t[e])
      /\ \A i \in (h + 1)..(e - 1) : ~BeginsLine(t[i])
      /\ \A i \in 1..(h - 1) : t[i].f # "host"
  BY DEF HostIn, HostLine
<1>3. g = h
  BY <1>2, FirstUnique
<1> HIDE DEF g
<1>4. /\ Len(rest) = Len(t) - h /\ DOMAIN rest = 1..(Len(t) - h)
      /\ \A k \in 1..(Len(t) - h) : rest[k] = t[h + k]
  <2>1. rest = Rest(t, h)
    BY <1>3
  <2>2. /\ Len(Rest(t, h)) = Len(t) - h /\ DOMAIN Rest(t, h) = 1..(Len(t) - h)
        /\ \A k \in 1..(Len(t) - h) : Rest(t, h)[k] = t[h + k]
    <3>1. h \in 1..Len(t)
      BY <1>2
    <3> QED
      BY <3>1, RestIs, Zenon
  <2> QED
    BY <2>1, <2>2, Zenon
<1> HIDE DEF rest
<1>5. end = e - h
  <2>1. e - h \in 1..Len(rest) /\ BeginsLine(rest[e - h]) /\ Len(rest) \in Nat
    <3>1. e - h \in 1..(Len(t) - h) /\ h + (e - h) = e /\ Len(t) - h \in Nat
      BY <1>2
    <3>2. rest[e - h] = t[e]
      BY <1>4, <3>1
    <3> QED
      BY <1>2, <1>4, <3>1, <3>2
  <2>2. \A i \in 1..(e - h - 1) : ~BeginsLine(rest[i])
    <3> TAKE i \in 1..(e - h - 1)
    <3>1. h + i \in (h + 1)..(e - 1) /\ i \in 1..(Len(t) - h)
      BY <1>2
    <3> QED
      BY <1>2, <1>4, <3>1
  <2>3. /\ end \in 1..Len(rest) /\ BeginsLine(rest[end])
        /\ \A i \in 1..(end - 1) : ~BeginsLine(rest[i])
    BY <2>1, NextLineIs
  <2> HIDE DEF end
  <2>4. ~(end < e - h) /\ ~(e - h < end)
    BY <1>2, <2>1, <2>2, <2>3
  <2> QED
    BY <1>2, <2>1, <2>3, <2>4
<1>6. Slice(t, h + 1, e - 1) = Slice(rest, 1, e - h - 1)
  <2>1. e - h - 1 \in 0..(Len(t) - h) /\ e - 1 = h + (e - h - 1)
    BY <1>2
  <2> QED
    BY <1>2, <1>3, <2>1, RestSlice DEF rest
<1> HIDE DEF end
<1>7. h # 0 /\ end # 0
  BY <1>2, <1>5
<1> QED
  BY <1>1, <1>3, <1>5, <1>6, <1>7

(* A name that was read is read from whatever the text grows to. *)
LEMMA HostStays ==
  ASSUME NEW t, DOMAIN t = 1..Len(t), Len(t) \in Nat,
         NEW u, DOMAIN u = 1..Len(u), Len(u) \in Nat,
         Len(t) <= Len(u), \A i \in 1..Len(t) : u[i] = t[i],
         ExtractHTTPHost(t) # NoName
  PROVE  ExtractHTTPHost(u) = ExtractHTTPHost(t)
<1>1. PICK h, e \in 1..Len(t) : /\ HostIn(t, h, e)
                                /\ ExtractHTTPHost(t) = HostValue(Slice(t, h + 1, e - 1))
  BY HostOrNone
<1>2. /\ h < e /\ t[h].f = "host" /\ BeginsLine(t[e])
      /\ \A i \in (h + 1)..(e - 1) : ~BeginsLine(t[i])
      /\ \A i \in 1..(h - 1) : t[i].f # "host"
  BY <1>1 DEF HostIn, HostLine
<1>3. h \in 1..Len(u) /\ e \in 1..Len(u) /\ u[h] = t[h] /\ u[e] = t[e]
  BY <1>1
<1>4. \A i \in (h + 1)..(e - 1) : i \in 1..Len(t)
  BY <1>1
<1>5. \A i \in 1..(h - 1) : i \in 1..Len(t)
  BY <1>1
<1>6. HostIn(u, h, e)
  BY <1>2, <1>3, <1>4, <1>5 DEF HostIn, HostLine
<1>7. ExtractHTTPHost(u) = HostValue(Slice(u, h + 1, e - 1))
  BY <1>6, HostIs
<1>8. Slice(u, h + 1, e - 1) = Slice(t, h + 1, e - 1)
  <2>1. /\ 0 \in Nat /\ h + 1 \in Nat \ {0} /\ e - 1 \in Nat /\ h + 1 <= e - 1 + 1
        /\ e - 1 <= Len(t) /\ e - 1 + 0 <= Len(u)
        /\ h + 1 + 0 = h + 1 /\ e - 1 + 0 = e - 1
    BY <1>1, <1>2
  <2>2. \A i \in (h + 1)..(e - 1) : u[i + 0] = t[i]
    BY <1>4
  <2>3. Slice(u, h + 1 + 0, e - 1 + 0) = Slice(t, h + 1, e - 1)
    BY <2>1, <2>2, SameSlice DEF Slice
  <2> QED
    BY <2>1, <2>3
<1> QED
  BY <1>1, <1>7, <1>8
-----------------------------------------------------------------------------
(* What the assumptions say of the stream followed *)
LEMMA StreamIs ==
  ASSUME stream \in Streams
  PROVE  /\ Size \in Nat /\ DOMAIN stream.says = 1..Size /\ stream.upto \in 1..Size
         /\ stream.client.port # stream.server.port /\ stream.client # stream.server
         /\ 1 \in DOMAIN stream.names
         /\ \A n \in DOMAIN stream.names : Norm[stream.names[n]] # NoName
         /\ \/ stream.proto = "http" /\ HttpStream(stream)
            \/ stream.proto = "https" /\ TlsStream(stream)
<1> DEFINE S == ToSet(stream.says)
           T == ToSet(stream.names)
<1>1. /\ stream.client.port # stream.server.port
      /\ stream.says \in Seq(S) /\ stream.upto \in DOMAIN stream.says
      /\ stream.names \in Seq(T) /\ stream.names # <<>>
      /\ \A n \in DOMAIN stream.names : Norm[stream.names[n]] # NoName
      /\ HttpStream(stream) \/ TlsStream(stream)
  BY StreamsAssumption
<1> HIDE DEF S, T
<1>2. Size \in Nat /\ DOMAIN stream.says = 1..Size
  BY <1>1 DEF Size
<1>3. 1 \in DOMAIN stream.names
  <2>1. Len(stream.names) \in Nat /\ DOMAIN stream.names = 1..Len(stream.names)
        /\ Len(stream.names) # 0
    BY <1>1
  <2> QED
    BY <2>1
<1>4. stream.client # stream.server
  BY <1>1
<1>5. \/ stream.proto = "http" /\ HttpStream(stream)
      \/ stream.proto = "https" /\ TlsStream(stream)
  BY <1>1 DEF HttpStream, TlsStream
<1> QED
  BY <1>1, <1>2, <1>3, <1>4, <1>5

LEMMA TextIs ==
  ASSUME NEW b, DOMAIN b = 1..Len(b), Len(b) \in Nat
  PROVE  /\ Len(Text(b)) = Len(b) /\ DOMAIN Text(b) = 1..Len(b)
         /\ \A i \in 1..Len(b) :
              Text(b)[i] = IF b[i] = 0 THEN [f |-> "reply", v |-> 0] ELSE stream.says[b[i]]
BY DEF Text

LEMMA SegmentIs ==
  ASSUME NEW N \in Nat, NEW i \in Nat \ {0}, NEW j \in 0..N, i <= j + 1
  PROVE  /\ Segment(i, j) \in Seq(0..N)
         /\ Len(Segment(i, j)) = j - i + 1 /\ DOMAIN Segment(i, j) = 1..(j - i + 1)
         /\ \A n \in 1..(j - i + 1) : Segment(i, j)[n] = i + n - 1 /\ i + n - 1 \in 1..N
         /\ j - i + 1 \in Nat
<1> DEFINE l == j - i + 1
<1>1. l \in Nat /\ \A n \in 1..l : i + n - 1 \in 1..N /\ i + n - 1 \in 0..N
  OBVIOUS
<1>2. Segment(i, j) = [n \in 1..l |-> i + n - 1]
  BY DEF Segment
<1> HIDE DEF l
<1>3. Segment(i, j) \in [1..l -> 0..N]
  BY <1>1, <1>2
<1>4. Segment(i, j) \in Seq(0..N) /\ Len(Segment(i, j)) = l
  BY <1>1, <1>2, <1>3
<1> QED
  BY <1>1, <1>2, <1>4 DEF l

(* A segment shows the fields of the stream at its positions. *)
LEMMA SegmentText ==
  ASSUME stream \in Streams, NEW i \in 1..(Size + 1), NEW j \in 0..Size, i <= j + 1
  PROVE  /\ Len(Text(Segment(i, j))) = j - i + 1 /\ j - i + 1 \in Nat
         /\ DOMAIN Text(Segment(i, j)) = 1..(j - i + 1)
         /\ \A n \in 1..(j - i + 1) : Text(Segment(i, j))[n] = stream.says[i + n - 1]
<1>1. Size \in Nat /\ i \in Nat \ {0}
  BY StreamIs
<1> DEFINE b == Segment(i, j)
           l == j - i + 1
<1>2. /\ Len(b) = l /\ DOMAIN b = 1..l /\ l \in Nat
      /\ \A n \in 1..l : b[n] = i + n - 1 /\ i + n - 1 \in 1..Size
  BY <1>1, SegmentIs
<1> HIDE DEF b, l
<1>3. /\ Len(Text(b)) = l /\ DOMAIN Text(b) = 1..l
      /\ \A n \in 1..l :
           Text(b)[n] = IF b[n] = 0 THEN [f |-> "reply", v |-> 0] ELSE stream.says[b[n]]
  BY <1>2, TextIs
<1>4. \A n \in 1..l : b[n] # 0
  BY <1>1, <1>2
<1>5. \A n \in 1..l : Text(b)[n] = stream.says[i + n - 1]
  BY <1>2, <1>3, <1>4
<1> QED
  BY <1>2, <1>3, <1>5 DEF b, l

(* Nothing is recognised in bytes of the server. *)
LEMMA ServerParse ==
  ASSUME stream \in Streams, NEW b \in Seq(0..Size), b = <<>> \/ b[1] = 0
  PROVE  ParseTCPPayload(b) = {NoEvent}
<1>1. CASE b = <<>>
  BY <1>1 DEF ParseTCPPayload
<1>2. CASE b # <<>> /\ b[1] = 0
  <2>1. DOMAIN b = 1..Len(b) /\ Len(b) \in Nat /\ 1 \in 1..Len(b)
    BY <1>2
  <2>2. Text(b)[1] = [f |-> "reply", v |-> 0]
    BY <1>2, <2>1 DEF Text
  <2>3. Text(b)[1].f # "record" /\ Text(b)[1].f # "method"
    BY <2>2
  <2> QED
    BY <2>3 DEF ParseTCPPayload
<1> QED
  BY <1>1, <1>2

-----------------------------------------------------------------------------
(* HTTP *)
LEMMA HttpParse ==
  ASSUME stream \in Streams, stream.proto = "http", NEW b \in Seq(0..Size)
  PROVE  ParseTCPPayload(b) = IF b # <<>> /\ Text(b)[1].f = "method"
                              THEN {HttpEvent(Text(b))} ELSE {NoEvent}
<1>1. CASE b = <<>>
  BY <1>1 DEF ParseTCPPayload
<1>2. CASE b # <<>>
  <2> DEFINE S == 0..Size
  <2>0. b \in Seq(S)
    OBVIOUS
  <2> HIDE DEF S
  <2>1. DOMAIN b = 1..Len(b) /\ Len(b) \in Nat /\ 1 \in 1..Len(b) /\ b[1] \in S
    BY <1>2, <2>0
  <2> USE DEF S
  <2>2. Text(b)[1].f # "record"
    <3>1. CASE b[1] = 0
      BY <2>1, <3>1 DEF Text
    <3>2. CASE b[1] # 0
      <4>1. Text(b)[1] = stream.says[b[1]]
        BY <2>1, <3>2 DEF Text
      <4>2. b[1] \in DOMAIN stream.says
        BY <2>1, <3>2, StreamIs
      <4>3. HttpStream(stream)
        BY StreamIs
      <4> QED
        BY <4>1, <4>2, <4>3 DEF HttpStream
    <3> QED
      BY <3>1, <3>2
  <2> QED
    BY <1>2, <2>2 DEF ParseTCPPayload
<1> QED
  BY <1>1, <1>2

(* In a packet of an HTTP client only names of its requests are found. *)
LEMMA HttpSegment ==
  ASSUME stream \in Streams, stream.proto = "http", NEW i \in 1..Size, NEW j \in i..Size
  PROVE  \/ HttpEvent(Text(Segment(i, j))) = NoEvent
         \/ \E n \in DOMAIN stream.names :
              HttpEvent(Text(Segment(i, j))).domain = Norm[stream.names[n]]
<1> DEFINE t == Text(Segment(i, j))
           l == j - i + 1
           says == stream.says
<1>0. Size \in Nat /\ DOMAIN says = 1..Len(says) /\ Len(says) \in Nat /\ HttpStream(stream)
  BY StreamIs DEF Size
<1>1. Len(t) = l /\ l \in Nat /\ DOMAIN t = 1..l /\ \A n \in 1..l : t[n] = says[i + n - 1]
  <2>1. i \in 1..(Size + 1) /\ j \in 0..Size /\ i <= j + 1
    BY <1>0
  <2> QED
    BY <2>1, SegmentText
<1>2. \A n \in 1..l : i + n - 1 \in 1..Size
  BY <1>0
<1> HIDE DEF t
<1>3. CASE ExtractHTTPHost(t) = NoName
  BY <1>3, CaptureAssumption DEF HttpEvent, t
<1>4. CASE ExtractHTTPHost(t) # NoName
  <2>1. PICK h, e \in 1..Len(t) : /\ HostIn(t, h, e)
                                  /\ ExtractHTTPHost(t) = HostValue(Slice(t, h + 1, e - 1))
    BY <1>1, <1>4, HostOrNone
  <2>2. /\ h \in 1..l /\ e \in 1..l /\ h < e /\ t[h].f = "host" /\ BeginsLine(t[e])
        /\ \A k \in (h + 1)..(e - 1) : ~BeginsLine(t[k])
    BY <1>1, <2>1 DEF HostIn, HostLine
  <2> DEFINE k == i - 1
             g == h + k
             d == e + k
  <2>3. /\ k \in Nat /\ g \in 1..Size /\ d \in 1..Size /\ g < d
        /\ i + h - 1 = g /\ i + e - 1 = d
    BY <1>0, <1>1, <2>2
  <2>4. says[g] = t[h] /\ says[d] = t[e]
    BY <1>1, <2>2, <2>3
  <2>5. ASSUME NEW m \in (g + 1)..(d - 1)
        PROVE  ~BeginsLine(says[m])
    <3>1. m - k \in (h + 1)..(e - 1) /\ m - k \in 1..l /\ i + (m - k) - 1 = m
      BY <1>0, <1>1, <2>2
    <3> QED
      BY <1>1, <2>2, <3>1
  <2>6. g \in DOMAIN says /\ d \in DOMAIN says /\ HostLine(says, g, d)
    <3> HIDE DEF g, d
    <3> QED
      BY <1>0, <2>2, <2>3, <2>4, <2>5 DEF HostLine, Size
  <2>7. HostValue(SubSeq(says, g + 1, d - 1)) \in ToSet(stream.names)
    <3> HIDE DEF g, d
    <3> QED
      BY <1>0, <2>6 DEF HttpStream
  <2>8. SubSeq(says, g + 1, d - 1) = SubSeq(t, h + 1, e - 1)
    <3> DEFINE a == h + 1
               b == e - 1
    <3>1. /\ DOMAIN t = 1..Len(t) /\ Len(t) \in Nat
          /\ a \in Nat \ {0} /\ b \in Nat /\ a <= b + 1 /\ b <= Len(t) /\ b + k <= Len(says)
          /\ a + k = g + 1 /\ b + k = d - 1
      BY <1>0, <1>1, <2>2 DEF Size
    <3>2. \A m \in a..b : says[m + k] = t[m]
      <4> TAKE m \in a..b
      <4>1. m \in 1..l /\ i + m - 1 = m + k
        BY <1>0, <1>1, <2>2
      <4> QED
        BY <1>1, <4>1
    <3> HIDE DEF a, b, k
    <3>3. SubSeq(says, a + k, b + k) = SubSeq(t, a, b)
      BY <1>0, <2>3, <3>1, <3>2, SameSlice
    <3> QED
      BY <3>1, <3>3 DEF a, b
  <2>9. ExtractHTTPHost(t) \in ToSet(stream.names)
    BY <2>1, <2>7, <2>8 DEF Slice
  <2>10. PICK n \in DOMAIN stream.names : ExtractHTTPHost(t) = stream.names[n]
    BY <2>9 DEF ToSet
  <2> QED
    BY <2>10 DEF HttpEvent, t
<1> QED
  BY <1>3, <1>4

(* Once it is there the first Host header is what the text shows. *)
LEMMA HttpFirst ==
  ASSUME stream \in Streams, stream.proto = "http", NEW j \in stream.upto..Size
  PROVE  HttpEvent(Text(Segment(1, j))) = [proto |-> "http", domain |-> Norm[stream.names[1]]]
<1> DEFINE t == Text(Segment(1, j))
           says == stream.says
           e == stream.upto
<1>0. /\ Size \in Nat /\ DOMAIN says = 1..Len(says) /\ Len(says) \in Nat /\ HttpStream(stream)
      /\ e \in 1..Size /\ j \in e..Size /\ Size = Len(says) /\ Norm[stream.names[1]] # NoName
  BY StreamIs DEF Size
<1>1. Len(t) = j /\ j \in Nat /\ DOMAIN t = 1..j /\ \A n \in 1..j : t[n] = says[n]
  <2>1. 1 \in 1..(Size + 1) /\ j \in 0..Size /\ 1 <= j + 1 /\ j - 1 + 1 = j
        /\ \A n \in 1..j : 1 + n - 1 = n
    BY <1>0
  <2>2. /\ Len(t) = j - 1 + 1 /\ j - 1 + 1 \in Nat /\ DOMAIN t = 1..(j - 1 + 1)
        /\ \A n \in 1..(j - 1 + 1) : t[n] = says[1 + n - 1]
    BY <2>1, SegmentText
  <2> HIDE DEF t
  <2> QED
    BY <2>1, <2>2
<1> HIDE DEF t
<1>2. PICK h \in 1..e :
        /\ HostLine(says, h, e) /\ \A i \in 1..(h - 1) : says[i].f # "host"
        /\ HostValue(SubSeq(says, h + 1, e - 1)) = stream.names[1]
  BY <1>0 DEF HttpStream
<1>3. /\ h < e /\ says[h].f = "host" /\ BeginsLine(says[e])
      /\ \A i \in (h + 1)..(e - 1) : ~BeginsLine(says[i])
  BY <1>2 DEF HostLine
<1>9. h \in 1..e
  BY <1>2
<1>4. \A i \in 1..e : i \in 1..j /\ t[i] = says[i]
  BY <1>0, <1>1
<1>5. HostIn(t, h, e)
  <2>1. h \in 1..e /\ e \in 1..e /\ \A i \in (h + 1)..(e - 1) : i \in 1..e
    BY <1>0, <1>2
  <2>2. \A i \in 1..(h - 1) : i \in 1..e
    BY <1>0, <1>2
  <2> QED
    BY <1>1, <1>2, <1>3, <1>4, <2>1, <2>2 DEF HostIn, HostLine
<1>6. ExtractHTTPHost(t) = HostValue(Slice(t, h + 1, e - 1))
  BY <1>1, <1>5, HostIs
<1>7. SubSeq(t, h + 1, e - 1) = SubSeq(says, h + 1, e - 1)
  <2> DEFINE a == h + 1
             b == e - 1
  <2>1. /\ a \in Nat \ {0} /\ b \in Nat /\ a <= b + 1 /\ b <= j /\ b <= Len(says) /\ 0 \in Nat
        /\ a + 0 = a /\ b + 0 = b
    <3> HIDE DEF e, says
    <3> QED
      BY <1>0, <1>3, <1>9
  <2>2. \A i \in a..b : i \in 1..e
    BY <1>0, <1>2
  <2>3. \A i \in a..b : t[i + 0] = says[i]
    <3> TAKE i \in a..b
    <3>1. i + 0 = i
      OBVIOUS
    <3> QED
      BY <1>4, <2>2, <3>1
  <2> HIDE DEF a, b
  <2>4. SubSeq(t, a + 0, b + 0) = SubSeq(says, a, b)
    BY <1>0, <1>1, <2>1, <2>3, SameSlice
  <2> QED
    BY <2>1, <2>4 DEF a, b
<1>8. ExtractHTTPHost(t) = stream.names[1]
  BY <1>2, <1>6, <1>7 DEF Slice
<1> QED
  BY <1>0, <1>8 DEF HttpEvent, t
-----------------------------------------------------------------------------
(* TLS *)
LEMMA TlsParse ==
  ASSUME stream \in Streams, stream.proto = "https", NEW i \in 1..Size, NEW j \in i..Size
  PROVE  ParseTCPPayload(Segment(i, j)) =
           IF i = 1 THEN {TlsEvent(Text(Segment(i, j)))} ELSE {NoEvent}
<1> DEFINE b == Segment(i, j)
           l == j - i + 1
<1>0. Size \in Nat /\ DOMAIN stream.says = 1..Size /\ TlsStream(stream)
  BY StreamIs
<1>1. /\ Len(b) = l /\ DOMAIN b = 1..l /\ l \in Nat
      /\ \A n \in 1..l : b[n] = i + n - 1 /\ i + n - 1 \in 1..Size
  <2>1. Size \in Nat /\ i \in Nat \ {0} /\ j \in 0..Size /\ i <= j + 1
    BY <1>0
  <2> QED
    BY <2>1, SegmentIs
<1>2. 1 \in 1..l /\ i + 1 - 1 = i
  BY <1>0
<1>3. /\ \A n \in 1..l : Text(b)[n] = stream.says[i + n - 1]
  <2>1. i \in 1..(Size + 1) /\ j \in 0..Size /\ i <= j + 1
    BY <1>0
  <2> QED
    BY <2>1, SegmentText
<1> HIDE DEF b
<1>4. Readable(b) = b
  <2>1. \A k \in 1..(Len(b) - 1) : b[k + 1] = b[k] + 1
    <3> TAKE k \in 1..(Len(b) - 1)
    <3>1. k \in 1..l /\ k + 1 \in 1..l /\ i + (k + 1) - 1 = (i + k - 1) + 1
      BY <1>0, <1>1
    <3> QED
      BY <1>1, <3>1
  <2>2. {k \in 1..(Len(b) - 1) : b[k + 1] # b[k] + 1} = {}
    BY <2>1, Zenon
  <2> QED
    BY <2>2 DEF Readable
<1> HIDE DEF l
<1>5. Text(b)[1] = stream.says[i]
  BY <1>2, <1>3
<1>6. (stream.says[i].f = "record" <=> i = 1) /\ stream.says[i].f # "method"
  BY <1>0 DEF TlsStream
<1>7. b # <<>>
  BY <1>1, <1>2
<1>8. CASE i = 1
  BY <1>4, <1>5, <1>6, <1>7, <1>8 DEF ParseTCPPayload, b
<1>9. CASE i # 1
  BY <1>5, <1>6, <1>7, <1>9 DEF ParseTCPPayload, b
<1> QED
  BY <1>8, <1>9

(* Text that begins like the stream *)
Begins(x) ==
  /\ Len(x) \in 1..Size /\ DOMAIN x = 1..Len(x)
  /\ \A n \in 1..Len(x) : x[n] = stream.says[n]

(* However the hello is cut, its end is where the whole one ends. *)
LEMMA HelloEndIs ==
  ASSUME stream \in Streams, stream.proto = "https", NEW x, Begins(x)
  PROVE  /\ Comp(x) > 0 => HelloEnd(x) = stream.upto
         /\ stream.upto <= Len(x) => IsHello(x)
<1> DEFINE u == stream.upto
           says == stream.says
<1>0. Size \in Nat /\ DOMAIN says = 1..Size /\ u \in 1..Size /\ TlsStream(stream)
  BY StreamIs
<1>1. PICK c \in 1..u :
        /\ says[c].f = "comp" /\ \A i \in 1..(c - 1) : says[i].f # "comp"
        /\ says[c].v \in Nat /\ c + says[c].v = u
  BY <1>0 DEF TlsStream
<1>2. /\ Len(x) \in Nat /\ Len(x) \in 1..Size /\ DOMAIN x = 1..Len(x)
      /\ \A n \in 1..Len(x) : x[n] = says[n]
  BY <1>0 DEF Begins
<1>3. /\ \/ Comp(x) = 0 /\ \A i \in 1..Len(x) : x[i].f # "comp"
         \/ /\ Comp(x) \in 1..Len(x) /\ x[Comp(x)].f = "comp"
            /\ \A i \in 1..(Comp(x) - 1) : x[i].f # "comp"
  <2>1. Comp(x) = First(x, "comp")
    BY DEF Comp, First
  <2> QED
    BY <1>2, <2>1, FirstFound
<1>4. ASSUME Comp(x) > 0
      PROVE  HelloEnd(x) = u
  <2>1. /\ Comp(x) \in 1..Len(x) /\ x[Comp(x)].f = "comp"
        /\ \A i \in 1..(Comp(x) - 1) : x[i].f # "comp"
    BY <1>3, <1>4
  <2>2. ~(Comp(x) < c)
    <3> SUFFICES ASSUME Comp(x) < c PROVE FALSE
      OBVIOUS
    <3>1. Comp(x) \in 1..(c - 1)
      BY <1>0, <2>1
    <3> QED
      BY <1>1, <1>2, <2>1, <3>1
  <2>3. ~(c < Comp(x))
    <3> SUFFICES ASSUME c < Comp(x) PROVE FALSE
      OBVIOUS
    <3>1. c \in 1..(Comp(x) - 1) /\ c \in 1..Len(x)
      BY <1>0, <1>2, <2>1
    <3> QED
      BY <1>1, <1>2, <2>1, <3>1
  <2>4. Comp(x) = c
    BY <1>0, <1>2, <2>1, <2>2, <2>3
  <2>5. x[c] = says[c]
    BY <1>2, <2>1, <2>4
  <2> QED
    BY <1>1, <2>4, <2>5 DEF HelloEnd
<1>5. ASSUME u <= Len(x)
      PROVE  IsHello(x)
  <2>1. c \in 1..Len(x)
    BY <1>0, <1>2, <1>5
  <2>2. Comp(x) > 0
    <3>1. x[c].f = "comp"
      BY <1>1, <1>2, <2>1
    <3>2. Comp(x) \in 1..Len(x)
      BY <1>3, <2>1, <3>1
    <3> QED
      BY <1>2, <3>2
  <2>3. u >= 2 /\ says[2].f = "fixed" /\ \A i \in DOMAIN says : says[i].f = "record" <=> i = 1
    BY <1>0 DEF TlsStream
  <2>4. Len(x) >= 2 /\ 1 \in 1..Len(x) /\ 2 \in 1..Len(x) /\ 1 \in 1..Size
    BY <1>0, <1>2, <1>5, <2>3
  <2>5. x[1].f = "record" /\ x[2].f = "fixed"
    BY <1>0, <1>2, <2>3, <2>4
  <2> QED
    BY <2>2, <2>4, <2>5 DEF IsHello
<1> QED
  BY <1>4, <1>5

(* What parseClientHello reads of a beginning of the stream *)
LEMMA HelloIs ==
  ASSUME stream \in Streams, stream.proto = "https", NEW x, Begins(x), Comp(x) > 0
  PROVE  /\ Begins(Hello(x)) /\ Len(Hello(x)) <= stream.upto
         /\ stream.upto <= Len(x) => Len(Hello(x)) = stream.upto
<1> DEFINE u == stream.upto
<1>0. Size \in Nat /\ u \in 1..Size
  BY StreamIs
<1>1. HelloEnd(x) = u
  BY HelloEndIs
<1>2. /\ Len(x) \in 1..Size /\ DOMAIN x = 1..Len(x)
      /\ \A n \in 1..Len(x) : x[n] = stream.says[n]
  BY DEF Begins
<1> HIDE DEF u
<1>3. CASE u < Len(x)
  <2>1. Hello(x) = SubSeq(x, 1, u)
    BY <1>1, <1>3 DEF Hello
  <2>2. /\ Len(x) \in Nat /\ u \in Nat /\ 1 \in Nat \ {0} /\ 1 <= u + 1 /\ u <= Len(x)
        /\ u - 1 + 1 = u /\ \A n \in Nat : 1 + n - 1 = n
    BY <1>0, <1>2, <1>3
  <2>3. /\ Len(Slice(x, 1, u)) = u - 1 + 1 /\ DOMAIN Slice(x, 1, u) = 1..(u - 1 + 1)
        /\ Slice(x, 1, u) = [k \in 1..(u - 1 + 1) |-> x[1 + k - 1]]
    BY <1>2, <2>2, SliceIs DEF Slice
  <2>4. /\ Len(Hello(x)) = u /\ DOMAIN Hello(x) = 1..u /\ \A n \in 1..u : Hello(x)[n] = x[n]
    <3>1. Hello(x) = Slice(x, 1, u)
      BY <2>1 DEF Slice
    <3>2. Slice(x, 1, u) = [k \in 1..u |-> x[1 + k - 1]]
      BY <2>2, <2>3
    <3>3. \A n \in 1..u : Slice(x, 1, u)[n] = x[n]
      BY <2>2, <3>2
    <3> QED
      BY <2>2, <2>3, <3>1, <3>3
  <2>5. \A n \in 1..u : n \in 1..Len(x)
    BY <1>0, <1>2, <1>3
  <2> QED
    BY <1>0, <1>2, <2>4, <2>5 DEF Begins, u
<1>4. CASE ~(u < Len(x))
  <2>1. Hello(x) = x
    BY <1>1, <1>4 DEF Hello
  <2> QED
    BY <1>0, <1>2, <1>4, <2>1 DEF Begins, u
<1> QED
  BY <1>3, <1>4

(* A cut off hello has the server name or none, a whole one has it. *)
LEMMA SniIs ==
  ASSUME stream \in Streams, stream.proto = "https", NEW x, Begins(x), Comp(x) > 0
  PROVE  /\ ParseClientHello(x).sni \in {NoName, stream.names[1]}
         /\ stream.upto <= Len(x) => ParseClientHello(x).sni = stream.names[1]
<1> DEFINE u == stream.upto
           says == stream.says
           h == Hello(x)
           sni == {i \in 1..u : says[i].f = "sni"}
           of == Cardinality(sni)
           name == stream.names[1]
<1>0. /\ Size \in Nat /\ u \in 1..Size /\ sni # {}
      /\ \A i \in sni : says[i].v.name = name /\ says[i].v.of = of
  BY StreamIs DEF TlsStream
<1>1. /\ Len(h) \in 1..Size /\ DOMAIN h = 1..Len(h) /\ Len(h) <= u
      /\ \A n \in 1..Len(h) : h[n] = says[n]
      /\ u <= Len(x) => Len(h) = u
  BY HelloIs DEF Begins
<1>2. ParseClientHello(x).sni = ServerName(Values(h, "sni"))
  BY DEF ParseClientHello
<1> HIDE DEF h, u, of
<1>3. Places(h, "sni") = {i \in 1..Len(h) : says[i].f = "sni"}
  <2>1. Places(h, "sni") = {i \in 1..Len(h) : h[i].f = "sni"}
    BY DEF Places
  <2> QED
    BY <1>1, <2>1, Zenon
<1>4. \A i \in 1..Len(h) : i \in 1..u
  <2>1. Len(h) \in 1..Size /\ Len(h) <= u /\ u \in 1..Size /\ Size \in Nat
    BY <1>0, <1>1, Zenon
  <2> QED
    BY <2>1
<1>5. \A i \in Places(h, "sni") : i \in sni /\ h[i] = says[i]
  BY <1>1, <1>3, <1>4
<1>6. Len(h) = u => Places(h, "sni") = sni
  BY <1>3
<1>7. \A i \in Places(h, "sni") : h[i].v.name = name /\ h[i].v.of = of
  BY <1>0, <1>5
<1>8. Len(h) \in Nat
  <2>1. Len(h) \in 1..Size /\ Size \in Nat
    BY <1>0, <1>1, Zenon
  <2> QED
    BY <2>1
<1>9. /\ ServerName(Values(h, "sni")) \in {NoName, name}
      /\ (Places(h, "sni") # {} /\ Cardinality(Places(h, "sni")) = of)
           => ServerName(Values(h, "sni")) = name
  BY <1>1, <1>7, <1>8, ServerNameOf
<1>10. Len(h) = u => /\ Places(h, "sni") # {} /\ Cardinality(Places(h, "sni")) = of
  BY <1>0, <1>6 DEF of
<1> QED
  BY <1>1, <1>2, <1>9, <1>10 DEF u

(* The event of a beginning of the stream *)
LEMMA TlsBegin ==
  ASSUME stream \in Streams, stream.proto = "https", NEW j \in 1..Size
  PROVE  LET ev == TlsEvent(Text(Segment(1, j))) IN
         /\ ev = NoEvent \/ (ev.proto = "https" /\ ev.domain = Norm[stream.names[1]])
         /\ stream.upto <= j => ev # NoEvent /\ ev.ja4 = JA4(FirstHello(stream))
<1> DEFINE x == Text(Segment(1, j))
           w == SubSeq(stream.says, 1, stream.upto)
           u == stream.upto
           ev == TlsEvent(x)
<1>0. Size \in Nat /\ u \in 1..Size /\ DOMAIN stream.says = 1..Size
  BY StreamIs
<1>1. Begins(x) /\ Len(x) = j
  <2>1. /\ 1 \in 1..(Size + 1) /\ j \in 0..Size /\ 1 <= j + 1 /\ j - 1 + 1 = j
        /\ \A n \in 1..j : 1 + n - 1 = n
    BY <1>0
  <2>2. /\ Len(x) = j - 1 + 1 /\ j - 1 + 1 \in Nat /\ DOMAIN x = 1..(j - 1 + 1)
        /\ \A n \in 1..(j - 1 + 1) : x[n] = stream.says[1 + n - 1]
    BY <2>1, SegmentText
  <2> HIDE DEF x
  <2>3. Len(x) = j /\ DOMAIN x = 1..j /\ \A n \in 1..j : x[n] = stream.says[n]
    BY <2>1, <2>2
  <2> QED
    BY <2>3 DEF Begins
<1> HIDE DEF x, u
<1>2. CASE ~IsHello(x)
  <2>1. ev = NoEvent
    BY <1>2 DEF TlsEvent
  <2>2. ~(u <= j)
    BY <1>1, <1>2, HelloEndIs DEF u
  <2> QED
    BY <2>1, <2>2 DEF x, u
<1>3. CASE IsHello(x)
  <2>1. Comp(x) > 0
    BY <1>3 DEF IsHello
  <2> DEFINE sni == ParseClientHello(x).sni
  <2>2. sni \in {NoName, stream.names[1]} /\ (u <= j => sni = stream.names[1])
    BY <1>1, <2>1, SniIs DEF u
  <2>3. Norm[NoName] = NoName /\ Norm[stream.names[1]] # NoName
    BY CaptureAssumption, StreamIs
  <2>4. ev = IF Norm[sni] = NoName THEN NoEvent
             ELSE [proto |-> "https", domain |-> Norm[sni], ja3 |-> JA3(ParseClientHello(x)),
                   ja4 |-> JA4(ParseClientHello(x))]
    BY <1>3 DEF TlsEvent
  <2>5. u <= j => ParseClientHello(x) = ParseClientHello(w)
    <3> SUFFICES ASSUME u <= j PROVE ParseClientHello(x) = ParseClientHello(w)
      OBVIOUS
    <3>1. Len(w) = u /\ DOMAIN w = 1..u /\ w = [k \in 1..u |-> stream.says[k]]
      <4>1. /\ Len(stream.says) \in Nat /\ DOMAIN stream.says = 1..Len(stream.says)
            /\ u \in Nat /\ 1 \in Nat \ {0} /\ 1 <= u + 1 /\ u <= Len(stream.says)
            /\ u - 1 + 1 = u /\ \A n \in Nat : 1 + n - 1 = n
        BY <1>0 DEF Size
      <4> DEFINE says == stream.says
      <4> HIDE DEF says
      <4>2. /\ Len(Slice(says, 1, u)) = u - 1 + 1 /\ DOMAIN Slice(says, 1, u) = 1..(u - 1 + 1)
            /\ Slice(says, 1, u) = [k \in 1..(u - 1 + 1) |-> says[1 + k - 1]]
        BY <4>1, SliceIs DEF Slice, says
      <4>3. w = Slice(says, 1, u)
        BY DEF Slice, says, u
      <4> HIDE DEF w
      <4>4. Slice(says, 1, u) = [k \in 1..u |-> says[k]]
        BY <4>1, <4>2
      <4> QED
        BY <4>1, <4>2, <4>3, <4>4 DEF says
    <3> HIDE DEF w
    <3>2. Begins(w)
      BY <1>0, <3>1 DEF Begins
    <3>3. Comp(w) > 0 /\ HelloEnd(w) = u
      BY <1>0, <3>1, <3>2, HelloEndIs DEF IsHello, u
    <3>4. Hello(w) = w
      BY <1>0, <3>1, <3>3 DEF Hello
    <3>5. Begins(Hello(x)) /\ Len(Hello(x)) = u
      BY <1>1, <2>1, HelloIs DEF u
    <3>6. Hello(x) = w
      <4> DEFINE h == Hello(x)
      <4>1. Len(h) \in Nat /\ DOMAIN h = 1..u /\ \A n \in 1..u : h[n] = stream.says[n]
        BY <1>0, <3>5 DEF Begins
      <4>2. Hello(x) = x \/ Hello(x) = SubSeq(x, 1, HelloEnd(x))
        BY DEF Hello
      <4>3. h = [n \in DOMAIN h |-> h[n]]
        BY <4>2 DEF x, Text
      <4> HIDE DEF h
      <4>4. h = w
        BY <3>1, <4>1, <4>3
      <4> QED
        BY <4>4 DEF h
    <3>7. Hello(x) = Hello(w)
      BY <3>4, <3>6
    <3> QED
      BY <3>7 DEF ParseClientHello
  <2> HIDE DEF sni
  <2>6. ev = NoEvent \/ (ev.proto = "https" /\ ev.domain = Norm[stream.names[1]])
    BY <2>2, <2>3, <2>4
  <2>7. u <= j => ev # NoEvent /\ ev.ja4 = JA4(ParseClientHello(x))
    <3> SUFFICES ASSUME u <= j PROVE ev # NoEvent /\ ev.ja4 = JA4(ParseClientHello(x))
      OBVIOUS
    <3>1. ev = [proto |-> "https", domain |-> Norm[sni], ja3 |-> JA3(ParseClientHello(x)),
                ja4 |-> JA4(ParseClientHello(x))]
      BY <2>2, <2>3, <2>4
    <3> HIDE DEF ev
    <3>2. ev.proto = "https" /\ ev.ja4 = JA4(ParseClientHello(x))
      BY <3>1
    <3> QED
      BY <3>2 DEF NoEvent
  <2> QED
    BY <2>5, <2>6, <2>7 DEF FirstHello, x, u
<1> QED
  BY <1>2, <1>3
-----------------------------------------------------------------------------
(* Both kinds of stream *)
LEMMA SegmentAsked ==
  ASSUME stream \in Streams, NEW i \in 1..Size, NEW j \in i..Size,
         NEW ev \in ParseTCPPayload(Segment(i, j)), ev # NoEvent
  PROVE  /\ \E n \in DOMAIN stream.names : ev.domain = Norm[stream.names[n]]
         /\ stream.proto = "https" => ev.domain = Norm[stream.names[1]]
<1>0. Size \in Nat /\ 1 \in DOMAIN stream.names
  BY StreamIs
<1>1. CASE stream.proto = "http"
  <2>1. Segment(i, j) \in Seq(0..Size)
    <3>1. i \in Nat \ {0} /\ j \in 0..Size /\ i <= j + 1
      BY <1>0
    <3> QED
      BY <1>0, <3>1, SegmentIs
  <2>2. ev = HttpEvent(Text(Segment(i, j)))
    BY <1>1, <2>1, HttpParse
  <2> QED
    BY <1>1, <2>2, HttpSegment
<1>2. CASE stream.proto = "https"
  <2>1. i = 1 /\ ev = TlsEvent(Text(Segment(i, j)))
    BY <1>2, TlsParse
  <2>2. j \in 1..Size
    BY <1>0
  <2>3. ev.domain = Norm[stream.names[1]]
    BY <1>2, <2>1, <2>2, TlsBegin
  <2> QED
    BY <1>0, <2>3
<1> QED
  BY <1>1, <1>2, StreamIs

(* What is made of the first request once all of it is in the bytes parsed *)
IsFirst(ev) ==
  /\ ev # NoEvent /\ ev.proto = stream.proto /\ ev.domain = Norm[stream.names[1]]
  /\ stream.proto = "https" => ev.ja4 = JA4(FirstHello(stream))

LEMMA FirstParse ==
  ASSUME stream \in Streams, NEW j \in stream.upto..Size
  PROVE  \E ev : ParseTCPPayload(Segment(1, j)) = {ev} /\ IsFirst(ev)
<1>0. Size \in Nat /\ stream.upto \in 1..Size /\ DOMAIN stream.says = 1..Size
  BY StreamIs
<1>1. /\ 1 \in 1..Size /\ j \in 1..Size /\ stream.upto <= j /\ 1 \in Nat \ {0}
      /\ j \in 0..Size /\ 1 <= j + 1 /\ j - 1 + 1 = j /\ 1 \in 1..(Size + 1) /\ 1 \in 1..j
      /\ 1 + 1 - 1 = 1 /\ 1 \in 1..stream.upto
  BY <1>0
<1>2. CASE stream.proto = "http"
  <2> DEFINE b == Segment(1, j)
             ev == HttpEvent(Text(b))
  <2>1. b \in Seq(0..Size) /\ Len(b) = j - 1 + 1
    BY <1>0, <1>1, SegmentIs
  <2>2. Text(b)[1] = stream.says[1 + 1 - 1]
    BY <1>1, SegmentText
  <2>3. stream.says[1].f = "method"
    BY <1>1, <1>2, StreamIs DEF HttpStream
  <2>4. b # <<>>
    <3> HIDE DEF b
    <3> QED
      BY <1>1, <2>1
  <2>5. ParseTCPPayload(b) = {ev}
    BY <1>1, <1>2, <2>1, <2>2, <2>3, <2>4, HttpParse
  <2>6. ev = [proto |-> "http", domain |-> Norm[stream.names[1]]]
    BY <1>2, HttpFirst
  <2> HIDE DEF ev
  <2>7. ev.proto = "http" /\ ev.domain = Norm[stream.names[1]]
    BY <2>6
  <2>8. IsFirst(ev)
    BY <1>2, <2>7 DEF IsFirst, NoEvent
  <2> QED
    BY <2>5, <2>8
<1>3. CASE stream.proto = "https"
  <2> DEFINE ev == TlsEvent(Text(Segment(1, j)))
  <2>1. ParseTCPPayload(Segment(1, j)) = {ev}
    BY <1>1, <1>3, TlsParse
  <2>2. /\ ev = NoEvent \/ (ev.proto = "https" /\ ev.domain = Norm[stream.names[1]])
        /\ stream.upto <= j => ev # NoEvent /\ ev.ja4 = JA4(FirstHello(stream))
    BY <1>1, <1>3, TlsBegin
  <2> HIDE DEF ev
  <2>3. IsFirst(ev)
    BY <1>1, <1>3, <2>2 DEF IsFirst
  <2> QED
    BY <2>1, <2>3
<1> QED
  BY <1>2, <1>3, StreamIs

(* A later packet of the first request says nothing by itself. *)
LEMMA LaterParse ==
  ASSUME stream \in Streams, NEW i \in 2..stream.upto, NEW j \in i..Size
  PROVE  ParseTCPPayload(Segment(i, j)) = {NoEvent}
<1>0. Size \in Nat /\ stream.upto \in 1..Size /\ DOMAIN stream.says = 1..Size
  BY StreamIs
<1>1. /\ i \in 1..Size /\ i # 1 /\ i \in 1..stream.upto /\ i \in 1..(Size + 1)
      /\ i \in Nat \ {0} /\ j \in 0..Size /\ i <= j + 1 /\ i + 1 - 1 = i /\ 1 \in 1..(j - i + 1)
  BY <1>0
<1>2. CASE stream.proto = "http"
  <2> DEFINE b == Segment(i, j)
  <2>1. b \in Seq(0..Size)
    BY <1>0, <1>1, SegmentIs
  <2>2. Text(b)[1] = stream.says[i + 1 - 1]
    BY <1>1, SegmentText
  <2>3. stream.says[i].f # "method"
    BY <1>1, <1>2, StreamIs DEF HttpStream
  <2> QED
    BY <1>1, <1>2, <2>1, <2>2, <2>3, HttpParse
<1>3. CASE stream.proto = "https"
  BY <1>1, <1>3, TlsParse
<1> QED
  BY <1>2, <1>3, StreamIs

-----------------------------------------------------------------------------
(* The buffer *)
LEMMA MinTwo ==
  ASSUME NEW a \in Nat, NEW b \in Nat
  PROVE  Min({a, b}) = IF a <= b THEN a ELSE b
<1>1. {a, b} \in SUBSET Nat /\ {a, b} # {}
  OBVIOUS
<1>2. Min({a, b}) \in {a, b} /\ \A n \in {a, b} : Min({a, b}) <= n
  BY <1>1, MinIsLeast
<1> QED
  BY <1>2

LEMMA MaxTwo ==
  ASSUME NEW a \in Nat, NEW b \in Nat
  PROVE  Max({a, b}) = IF a <= b THEN b ELSE a
<1> DEFINE m == IF a <= b THEN b ELSE a
<1>1. m \in {a, b} /\ \A y \in {a, b} : m >= y
  OBVIOUS
<1>2. \A x \in {a, b} : (\A y \in {a, b} : x >= y) => x = m
  OBVIOUS
<1> HIDE DEF m
<1>3. Max({a, b}) = m
  BY <1>1, <1>2 DEF Max
<1> QED
  BY <1>3 DEF m

Appended(b, p) == SubSeq(b \o p, 1, Min({Len(b \o p), MaxPayloadBuf}))

LEMMA AppendedIs ==
  ASSUME NEW S, NEW b \in Seq(S), NEW p \in Seq(S), Len(b) <= MaxPayloadBuf
  PROVE  /\ Appended(b, p) \in Seq(S)
         /\ Len(Appended(b, p)) = Held(Len(b) + Len(p))
         /\ Len(b) <= Len(Appended(b, p)) /\ Len(Appended(b, p)) <= MaxPayloadBuf
         /\ \A i \in 1..Len(Appended(b, p)) :
              Appended(b, p)[i] = IF i <= Len(b) THEN b[i] ELSE p[i - Len(b)]
<1> DEFINE q == b \o p
           l == Len(b) + Len(p)
           m == Held(l)
           r == Appended(b, p)
<1>0. MaxPayloadBuf \in Nat /\ MaxPayloadBuf > 0
  BY CaptureAssumption
<1>1. b \in Seq(S) /\ p \in Seq(S)
  OBVIOUS
<1>2. Len(b) \in Nat /\ Len(p) \in Nat /\ l \in Nat
  BY <1>1
<1>3. /\ q \in Seq(S) /\ Len(q) = l
      /\ \A i \in 1..l : q[i] = IF i <= Len(b) THEN b[i] ELSE p[i - Len(b)]
  BY <1>1, ConcatProperties
<1>4. Min({l, MaxPayloadBuf}) = m
  BY <1>0, <1>2, MinTwo DEF Held
<1>5. r = SubSeq(q, 1, m)
  BY <1>3, <1>4 DEF Appended
<1>6. /\ m \in Nat /\ m <= l /\ m <= MaxPayloadBuf /\ Len(b) <= m
  BY <1>0, <1>2 DEF Held
<1> HIDE DEF q, l, m, r
<1>7. \A i \in 1..m : q[i] \in S
  BY <1>2, <1>3, <1>6
<1>8. /\ SubSeq(q, 1, m) \in Seq(S)
      /\ Len(SubSeq(q, 1, m)) = IF 1 <= m THEN m - 1 + 1 ELSE 0
      /\ \A i \in 1..(m - 1 + 1) : SubSeq(q, 1, m)[i] = q[1 + i - 1]
  <2>1. 1 \in Int /\ m \in Int
    BY <1>6
  <2> QED
    BY <1>7, <2>1, SubSeqProperties
<1>9. m - 1 + 1 = m /\ (IF 1 <= m THEN m - 1 + 1 ELSE 0) = m /\ \A i \in 1..m : 1 + i - 1 = i
  BY <1>6
<1>10. r \in Seq(S) /\ Len(r) = m /\ \A i \in 1..m : r[i] = q[i]
  BY <1>5, <1>8, <1>9
<1>11. \A i \in 1..m : i \in 1..l
  BY <1>2, <1>6
<1>12. \A i \in 1..m : r[i] = IF i <= Len(b) THEN b[i] ELSE p[i - Len(b)]
  BY <1>3, <1>10, <1>11
<1> QED
  BY <1>6, <1>10, <1>12 DEF r, m, l

LEMMA BeginningIs ==
  ASSUME NEW N \in Nat, NEW h \in 0..N
  PROVE  /\ Segment(1, h) \in Seq(0..N) /\ Len(Segment(1, h)) = h /\ DOMAIN Segment(1, h) = 1..h
         /\ \A n \in 1..h : Segment(1, h)[n] = n
<1>1. Segment(1, h) = [n \in 1..h |-> n]
  <2>1. h - 1 + 1 = h /\ \A n \in 1..h : 1 + n - 1 = n
    OBVIOUS
  <2> QED
    BY <2>1 DEF Segment
<1>2. h \in Nat /\ \A n \in 1..h : n \in 0..N
  OBVIOUS
<1>3. Segment(1, h) \in [1..h -> 0..N]
  BY <1>1, <1>2
<1> QED
  BY <1>1, <1>2, <1>3

(* Packets in order leave the beginning of the stream in the buffer. *)
LEMMA AppendNext ==
  ASSUME NEW N \in Nat, NEW a \in 0..N, NEW j \in (a + 1)..N
  PROVE  Appended(Segment(1, Held(a)), Segment(a + 1, j)) = Segment(1, Held(j))
<1> DEFINE b == Segment(1, Held(a))
           p == Segment(a + 1, j)
           r == Appended(b, p)
           m == Held(j)
           h == Held(a)
<1>0. MaxPayloadBuf \in Nat /\ MaxPayloadBuf > 0
  BY CaptureAssumption
<1>1. /\ h \in 0..N /\ h <= MaxPayloadBuf /\ m \in 0..N /\ m <= j
      /\ h = a \/ (h = MaxPayloadBuf /\ m = h)
      /\ j - (a + 1) + 1 = j - a /\ j - a \in Nat /\ m >= h
      /\ 1 \in Nat \ {0} /\ 1 <= h + 1 /\ 1 <= m + 1 /\ h - 1 + 1 = h /\ m - 1 + 1 = m
      /\ a + 1 \in Nat \ {0} /\ j \in 0..N /\ a + 1 <= j + 1
  BY <1>0 DEF Held
<1>2. Held(h + (j - a)) = m
  BY <1>0, <1>1 DEF Held
<1>3. b \in Seq(0..N) /\ Len(b) = h /\ \A n \in 1..h : b[n] = n
  BY <1>1, BeginningIs
<1>4. p \in Seq(0..N) /\ Len(p) = j - a /\ \A n \in 1..(j - a) : p[n] = a + n
  <2> DEFINE c == a + 1
  <2>1. /\ c \in Nat \ {0} /\ c <= j + 1 /\ j - c + 1 = j - a /\ j \in 0..N
    BY <1>1
  <2> HIDE DEF c
  <2>2. /\ Segment(c, j) \in Seq(0..N) /\ Len(Segment(c, j)) = j - c + 1
        /\ \A n \in 1..(j - c + 1) : Segment(c, j)[n] = c + n - 1
    BY <2>1, SegmentIs
  <2>3. \A n \in 1..(j - a) : c + n - 1 = a + n
    BY DEF c
  <2> HIDE DEF p
  <2> QED
    BY <2>1, <2>2, <2>3 DEF p, c
<1>5. Segment(1, m) = [n \in 1..m |-> n]
  <2>1. \A n \in 1..m : 1 + n - 1 = n
    BY <1>1
  <2> HIDE DEF m
  <2> QED
    BY <1>1, <2>1 DEF Segment
<1> HIDE DEF b, p, h, m
<1>6. /\ r \in Seq(0..N) /\ Len(r) = m
      /\ \A i \in 1..m : r[i] = IF i <= h THEN b[i] ELSE p[i - h]
  <2>1. Len(b) <= MaxPayloadBuf
    BY <1>1, <1>3
  <2> DEFINE S == 0..N
  <2>0. b \in Seq(S) /\ p \in Seq(S)
    BY <1>3, <1>4
  <2> HIDE DEF S
  <2>2. /\ r \in Seq(S) /\ Len(r) = Held(Len(b) + Len(p))
        /\ \A i \in 1..Len(r) : r[i] = IF i <= Len(b) THEN b[i] ELSE p[i - Len(b)]
    BY <2>0, <2>1, AppendedIs
  <2>3. Len(b) = h /\ Held(Len(b) + Len(p)) = m
    BY <1>2, <1>3, <1>4
  <2> HIDE DEF r
  <2> QED
    BY <2>2, <2>3 DEF S
<1> HIDE DEF r
<1>7. ASSUME NEW i \in 1..m
      PROVE  r[i] = i
  <2>1. CASE i <= h
    <3>1. i \in 1..h
      BY <1>1, <2>1
    <3> QED
      BY <1>3, <1>6, <2>1, <3>1
  <2>2. CASE ~(i <= h)
    <3>1. h = a /\ i - h \in 1..(j - a) /\ a + (i - h) = i
      BY <1>0, <1>1, <2>2
    <3> QED
      BY <1>4, <1>6, <2>2, <3>1
  <2> QED
    BY <2>1, <2>2
<1>8. r = [n \in 1..m |-> r[n]]
  <2> DEFINE S == 0..N
  <2>1. r \in Seq(S)
    BY <1>6
  <2> HIDE DEF S
  <2> QED
    BY <1>6, <2>1
<1>9. r = Segment(1, m)
  BY <1>5, <1>7, <1>8
<1> QED
  BY <1>9 DEF r, b, p, m, h

(* An empty packet leaves the buffer as it is. *)
LEMMA AppendNothing ==
  ASSUME NEW S, NEW b \in Seq(S), Len(b) <= MaxPayloadBuf
  PROVE  Appended(b, <<>>) = b
<1> DEFINE r == Appended(b, <<>>)
<1>0. MaxPayloadBuf \in Nat /\ b \in Seq(S) /\ Len(b) \in Nat /\ <<>> \in Seq(S) /\ Len(<<>>) = 0
  BY CaptureAssumption
<1>1. /\ r \in Seq(S) /\ Len(r) = Held(Len(b) + 0)
      /\ \A i \in 1..Len(r) : r[i] = IF i <= Len(b) THEN b[i] ELSE <<>>[i - Len(b)]
  <2> DEFINE p == <<>>
  <2>0. p \in Seq(S)
    OBVIOUS
  <2>1. Len(p) = 0
    OBVIOUS
  <2> HIDE DEF p
  <2>2. /\ Appended(b, p) \in Seq(S) /\ Len(Appended(b, p)) = Held(Len(b) + Len(p))
        /\ \A i \in 1..Len(Appended(b, p)) :
             Appended(b, p)[i] = IF i <= Len(b) THEN b[i] ELSE p[i - Len(b)]
    BY <2>0, AppendedIs
  <2> QED
    BY <2>1, <2>2 DEF p
<1>2. Held(Len(b) + 0) = Len(b)
  BY <1>0 DEF Held
<1> HIDE DEF r
<1>3. Len(r) = Len(b) /\ \A i \in 1..Len(b) : r[i] = b[i]
  BY <1>0, <1>1, <1>2
<1>4. r = [i \in 1..Len(b) |-> r[i]] /\ b = [i \in 1..Len(b) |-> b[i]]
  BY <1>0, <1>1, <1>3
<1>5. r = b
  BY <1>3, <1>4
<1> QED
  BY <1>5 DEF r
-----------------------------------------------------------------------------
(* What handlePacket does with a TCP packet *)
Owner(from) == IF session.live THEN session.client ELSE from
Kept == IF session.live THEN session.buf ELSE <<>>
Known == IF session.live THEN session.named ELSE {}
Grown(from, payload) == IF from = Owner(from) THEN Appended(Kept, payload) ELSE Kept

Told(ev, from, to) ==
  ev # NoEvent /\ Admitted(ev.proto, from, to) /\ ~Excluded(from) /\ Reported(ev.domain)

(* The event ev comes from the packet or, if g, from the buffer. *)
Made(ev, g, from, to, payload) ==
  /\ session' = [live |-> TRUE, client |-> Owner(from), buf |-> Grown(from, payload),
                 named |-> IF g /\ ev # NoEvent THEN Known \cup {ev.domain} ELSE Known]
  /\ found' = IF Told(ev, from, to) THEN found \cup {ev} ELSE found
  /\ g => /\ from = Owner(from) /\ ev \in ParseTCPPayload(Grown(from, payload))
          /\ NoEvent \in ParseTCPPayload(payload)
  /\ ~g => ev \in ParseTCPPayload(payload) /\ (from = Owner(from) => ev # NoEvent)

LEMMA OwnerIs ==
  ASSUME Shaped, NEW from \in {stream.client, stream.server}
  PROVE  /\ Owner(from) \in {stream.client, stream.server}
         /\ from.port = Owner(from).port <=> from = Owner(from)
         /\ (IF session.live THEN session ELSE NewSession(from)) =
              [live |-> TRUE, client |-> Owner(from), buf |-> Kept, named |-> Known]
<1>1. stream.client.port # stream.server.port
  BY StreamIs DEF Shaped
<1>2. CASE session = NoSession
  <2>1. ~session.live
    BY <1>2 DEF NoSession
  <2> QED
    BY <1>1, <2>1 DEF Owner, Kept, Known, NewSession
<1>3. CASE session # NoSession
  <2>1. /\ session = [live |-> TRUE, client |-> session.client, buf |-> session.buf,
                      named |-> session.named]
        /\ session.client \in {stream.client, stream.server}
    BY <1>3 DEF Shaped
  <2>2. session.live
    BY <2>1
  <2> QED
    BY <1>1, <2>1, <2>2 DEF Owner, Kept, Known
<1> QED
  BY <1>2, <1>3

LEMMA TcpStep ==
  ASSUME Shaped, NEW from \in {stream.client, stream.server}, NEW to, NEW payload,
         HandleTcp(from, to, payload)
  PROVE  /\ dns' = NoDns /\ cfg' = cfg /\ stream' = stream
         /\ \E ev : \E g \in BOOLEAN : Made(ev, g, from, to, payload)
<1> DEFINE s0 == IF session.live THEN session ELSE NewSession(from)
           mine == from.port = s0.client.port
           s1 == IF mine THEN AppendPayload(s0, payload) ELSE s0
<1>1. s0 = [live |-> TRUE, client |-> Owner(from), buf |-> Kept, named |-> Known]
  BY OwnerIs
<1>2. mine <=> from = Owner(from)
  <2>1. s0.client = Owner(from)
    BY <1>1
  <2> QED
    BY <2>1, OwnerIs
<1>3. /\ dns' = NoDns /\ cfg' = cfg /\ stream' = stream
      /\ \E r \in Recognise(payload, s1, mine) :
           /\ session' = IF r.gathered /\ r.ev # NoEvent
                         THEN [s1 EXCEPT !.named = @ \cup {r.ev.domain}] ELSE s1
           /\ found' = IF /\ r.ev # NoEvent /\ Admitted(r.ev.proto, from, to)
                          /\ ~Excluded(from) /\ Reported(r.ev.domain)
                       THEN found \cup {r.ev} ELSE found
  BY DEF HandleTcp
<1>4. s1 = [live |-> TRUE, client |-> Owner(from), buf |-> Grown(from, payload), named |-> Known]
  <2> HIDE DEF s0, mine
  <2>1. CASE mine
    BY <1>1, <1>2, <2>1 DEF Grown, Appended, AppendPayload
  <2>2. CASE ~mine
    BY <1>1, <1>2, <2>2 DEF Grown
  <2> QED
    BY <2>1, <2>2
<1> HIDE DEF s0, s1, mine
<1>5. PICK r \in Recognise(payload, s1, mine) :
           /\ session' = IF r.gathered /\ r.ev # NoEvent
                         THEN [s1 EXCEPT !.named = @ \cup {r.ev.domain}] ELSE s1
           /\ found' = IF Told(r.ev, from, to) THEN found \cup {r.ev} ELSE found
  BY <1>3 DEF Told
<1> DEFINE ev == r.ev
           g == r.gathered
<1>6. /\ g \in BOOLEAN
      /\ g => /\ mine /\ ev \in ParseTCPPayload(s1.buf) /\ NoEvent \in ParseTCPPayload(payload)
      /\ ~g => ev \in ParseTCPPayload(payload) /\ (mine => ev # NoEvent)
  <2> DEFINE A == ParseTCPPayload(payload)
             B == ParseTCPPayload(s1.buf)
  <2> HIDE DEF A, B
  <2>1. \/ \E e \in A : r = [ev |-> e, gathered |-> FALSE] /\ (mine => e # NoEvent)
        \/ mine /\ NoEvent \in A /\ \E e \in B : r = [ev |-> e, gathered |-> TRUE]
    BY DEF Recognise, A, B
  <2>2. CASE \E e \in A : r = [ev |-> e, gathered |-> FALSE] /\ (mine => e # NoEvent)
    BY <2>2 DEF A, B
  <2>3. CASE mine /\ NoEvent \in A /\ \E e \in B : r = [ev |-> e, gathered |-> TRUE]
    BY <2>3 DEF A, B
  <2> QED
    BY <2>1, <2>2, <2>3
<1>7. s1.buf = Grown(from, payload)
  BY <1>4
<1>8. session' = [live |-> TRUE, client |-> Owner(from), buf |-> Grown(from, payload),
                  named |-> IF g /\ ev # NoEvent THEN Known \cup {ev.domain} ELSE Known]
  <2>1. CASE g /\ ev # NoEvent
    <3>1. session' = [s1 EXCEPT !.named = @ \cup {ev.domain}]
      BY <1>5, <2>1
    <3> HIDE DEF ev, g
    <3> QED
      BY <1>4, <2>1, <3>1
  <2>2. CASE ~(g /\ ev # NoEvent)
    BY <1>4, <1>5, <2>2
  <2> QED
    BY <2>1, <2>2
<1>9. Made(ev, g, from, to, payload)
  BY <1>2, <1>5, <1>6, <1>7, <1>8 DEF Made
<1> QED
  BY <1>3, <1>6, <1>9

(* The actions that are TCP packets *)
TcpMove(from, to, payload) ==
  /\ HandleTcp(from, to, payload)
  /\ \/ /\ from = stream.client /\ to = stream.server
        /\ \E i \in 1..Size : \E j \in i..Size :
             /\ payload = Segment(i, j) /\ at' \in 0..Size
             /\ \/ i = at + 1 /\ at' = j /\ faults' = faults
                \/ i # at + 1 /\ faults < MaxFaults /\ faults' = faults + 1
     \/ /\ from = stream.client /\ to = stream.server
        /\ payload = <<>> /\ UNCHANGED <<at, faults>>
     \/ /\ from = stream.server /\ to = stream.client
        /\ payload \in {<<>>, <<0>>} /\ UNCHANGED <<at, faults>>

LEMMA SendMoves ==
  ASSUME Shaped, NEW i \in 1..Size, NEW j \in i..Size, ClientSends(i, j),
         i # at + 1 => faults < MaxFaults, i = at + 1 => at < j
  PROVE  TcpMove(stream.client, stream.server, Segment(i, j))
<1>1. /\ HandleTcp(stream.client, stream.server, Segment(i, j))
      /\ at' = Max({at, j}) /\ faults' = IF i = at + 1 THEN faults ELSE faults + 1
  BY DEF ClientSends, Segment
<1>2. Size \in Nat /\ at \in 0..Size
  BY StreamIs DEF Shaped
<1>3. at \in Nat /\ j \in Nat /\ j \in 0..Size
  BY <1>2
<1>4. Max({at, j}) = IF at <= j THEN j ELSE at
  BY <1>3, MaxTwo
<1>5. at' \in 0..Size /\ (i = at + 1 => at' = j)
  BY <1>1, <1>2, <1>3, <1>4
<1> QED
  BY <1>1, <1>5 DEF TcpMove

LEMMA TcpMoves ==
  ASSUME Shaped,
         \/ \E j \in (at + 1)..Len(stream.says) : ClientSends(at + 1, j)
         \/ /\ faults < MaxFaults
            /\ \E i \in DOMAIN stream.says \ {at + 1} :
                 \E j \in i..Len(stream.says) : ClientSends(i, j)
         \/ ClientAcks
         \/ ServerSends
  PROVE  \E from, to \in {stream.client, stream.server} : \E payload : TcpMove(from, to, payload)
<1>0. Size \in Nat /\ at \in 0..Size /\ DOMAIN stream.says = 1..Size /\ Len(stream.says) = Size
  BY StreamIs DEF Shaped, Size
<1>1. ASSUME NEW j \in (at + 1)..Len(stream.says), ClientSends(at + 1, j)
      PROVE  TcpMove(stream.client, stream.server, Segment(at + 1, j))
  <2> DEFINE i == at + 1
  <2>1. i \in 1..Size /\ j \in i..Size /\ at < j
    BY <1>0, <1>1
  <2>2. ClientSends(i, j) /\ i = at + 1
    BY <1>1
  <2> HIDE DEF i
  <2>3. TcpMove(stream.client, stream.server, Segment(i, j))
    BY <2>1, <2>2, SendMoves
  <2> QED
    BY <2>3 DEF i
<1>2. ASSUME faults < MaxFaults, NEW i \in DOMAIN stream.says \ {at + 1},
             NEW j \in i..Len(stream.says), ClientSends(i, j)
      PROVE  TcpMove(stream.client, stream.server, Segment(i, j))
  <2>1. i \in 1..Size /\ j \in i..Size /\ i # at + 1
    BY <1>0
  <2> QED
    BY <1>2, <2>1, SendMoves
<1>3. CASE ClientAcks
  <2>1. TcpMove(stream.client, stream.server, <<>>)
    BY <1>3 DEF ClientAcks, TcpMove
  <2> QED
    BY <2>1
<1>4. CASE ServerSends
  <2>1. PICK payload \in {<<>>, <<0>>} : HandleTcp(stream.server, stream.client, payload)
    BY <1>4 DEF ServerSends
  <2>2. TcpMove(stream.server, stream.client, payload)
    BY <1>4, <2>1 DEF ServerSends, TcpMove
  <2> QED
    BY <2>2
<1> QED
  BY <1>1, <1>2, <1>3, <1>4

LEMMA PayloadIs ==
  ASSUME Shaped, NEW from, NEW to, NEW payload, TcpMove(from, to, payload)
  PROVE  /\ payload \in Seq(0..Size)
         /\ from = stream.server => \A k \in DOMAIN payload : payload[k] = 0
<1>0. Size \in Nat /\ 0 \in 0..Size /\ stream.client # stream.server
  BY StreamIs DEF Shaped
<1>1. ASSUME NEW i \in 1..Size, NEW j \in i..Size
      PROVE  Segment(i, j) \in Seq(0..Size)
  <2>1. i \in Nat \ {0} /\ j \in 0..Size /\ i <= j + 1
    BY <1>0
  <2> QED
    BY <1>0, <2>1, SegmentIs
<1>2. <<>> \in Seq(0..Size) /\ <<0>> \in Seq(0..Size)
  <2> DEFINE S == 0..Size
  <2>1. 0 \in S
    BY <1>0
  <2> HIDE DEF S
  <2>2. <<>> \in Seq(S) /\ <<0>> \in Seq(S)
    BY <2>1
  <2> QED
    BY <2>2 DEF S
<1>3. payload \in Seq(0..Size)
  BY <1>1, <1>2 DEF TcpMove
<1>4. ASSUME from = stream.server
      PROVE  \A k \in DOMAIN payload : payload[k] = 0
  <2>1. payload \in {<<>>, <<0>>}
    BY <1>0, <1>4 DEF TcpMove
  <2> QED
    BY <2>1
<1> QED
  BY <1>3, <1>4
-----------------------------------------------------------------------------
(* A TCP packet preserves the invariant. *)
LEMMA KeptIs ==
  ASSUME Shaped
  PROVE  Kept \in Seq(0..Size) /\ Len(Kept) <= MaxPayloadBuf /\ Len(Kept) \in Nat
<1>0. MaxPayloadBuf \in Nat /\ MaxPayloadBuf > 0
  BY CaptureAssumption
<1> DEFINE S == 0..Size
<1>1. CASE session = NoSession
  <2>1. Kept = <<>>
    BY <1>1 DEF Kept, NoSession
  <2> HIDE DEF S
  <2>2. <<>> \in Seq(S) /\ Len(<<>>) = 0
    OBVIOUS
  <2> QED
    BY <1>0, <2>1, <2>2 DEF S
<1>2. CASE session # NoSession
  <2>1. /\ session = [live |-> TRUE, client |-> session.client, buf |-> session.buf,
                      named |-> session.named]
        /\ session.buf \in Seq(S) /\ Len(session.buf) <= MaxPayloadBuf
    BY <1>2 DEF Shaped
  <2>2. session.live
    BY <2>1
  <2>3. Kept = session.buf
    BY <2>2 DEF Kept
  <2> HIDE DEF S
  <2>4. Kept \in Seq(S) /\ Len(Kept) <= MaxPayloadBuf /\ Len(Kept) \in Nat
    BY <2>1, <2>3
  <2> QED
    BY <2>4 DEF S
<1> QED
  BY <1>1, <1>2

(* Whatever a packet adds, what was gathered stays where it is. *)
LEMMA GrownIs ==
  ASSUME Shaped, NEW from, NEW payload \in Seq(0..Size)
  PROVE  LET b == Grown(from, payload) IN
         /\ b \in Seq(0..Size) /\ Len(b) <= MaxPayloadBuf /\ Len(b) \in Nat
         /\ DOMAIN b = 1..Len(b) /\ DOMAIN Kept = 1..Len(Kept)
         /\ Len(Kept) <= Len(b) /\ \A k \in 1..Len(Kept) : b[k] = Kept[k]
         /\ \A k \in 1..Len(b) : \/ k \in DOMAIN Kept /\ b[k] = Kept[k]
                                 \/ /\ from = Owner(from)
                                    /\ \E n \in DOMAIN payload : b[k] = payload[n]
<1> DEFINE S == 0..Size
           b == Grown(from, payload)
<1>1. Kept \in Seq(S) /\ Len(Kept) <= MaxPayloadBuf /\ payload \in Seq(S)
  BY KeptIs
<1> HIDE DEF S
<1>2. Len(Kept) \in Nat /\ DOMAIN Kept = 1..Len(Kept)
      /\ Len(payload) \in Nat /\ DOMAIN payload = 1..Len(payload)
  BY <1>1
<1>3. CASE from = Owner(from)
  <2>1. b = Appended(Kept, payload)
    BY <1>3 DEF Grown
  <2>2. /\ b \in Seq(S) /\ Len(b) = Held(Len(Kept) + Len(payload))
        /\ Len(Kept) <= Len(b) /\ Len(b) <= MaxPayloadBuf
        /\ \A i \in 1..Len(b) :
             b[i] = IF i <= Len(Kept) THEN Kept[i] ELSE payload[i - Len(Kept)]
    BY <1>1, <2>1, AppendedIs
  <2> HIDE DEF b
  <2>3. Len(b) \in Nat /\ DOMAIN b = 1..Len(b)
    BY <2>2
  <2>4. Held(Len(Kept) + Len(payload)) <= Len(Kept) + Len(payload)
    BY <1>2, CaptureAssumption DEF Held
  <2>5. \A k \in 1..Len(Kept) : k \in 1..Len(b) /\ b[k] = Kept[k]
    BY <1>2, <2>2, <2>3
  <2>6. ASSUME NEW k \in 1..Len(b)
        PROVE  \/ k \in DOMAIN Kept /\ b[k] = Kept[k]
               \/ \E n \in DOMAIN payload : b[k] = payload[n]
    <3>1. CASE k <= Len(Kept)
      BY <1>2, <2>2, <2>3, <3>1
    <3>2. CASE ~(k <= Len(Kept))
      <4>1. k - Len(Kept) \in 1..Len(payload)
        BY <1>2, <2>2, <2>3, <2>4, <3>2
      <4>2. b[k] = payload[k - Len(Kept)]
        BY <2>2, <3>2
      <4> QED
        BY <1>2, <4>1, <4>2
    <3> QED
      BY <3>1, <3>2
  <2> QED
    BY <1>2, <1>3, <2>2, <2>3, <2>5, <2>6 DEF b, S
<1>4. CASE from # Owner(from)
  <2>1. b = Kept
    BY <1>4 DEF Grown
  <2>2. Len(Kept) <= Len(Kept)
    BY <1>2
  <2> HIDE DEF b
  <2> QED
    BY <1>1, <1>2, <2>1, <2>2 DEF b, S
<1> QED
  BY <1>3, <1>4

LEMMA TcpShaped ==
  ASSUME Shaped, NEW from \in {stream.client, stream.server}, NEW to, NEW payload,
         TcpMove(from, to, payload)
  PROVE  Shaped'
<1>1. HandleTcp(from, to, payload)
  BY DEF TcpMove
<1>2. /\ cfg' = cfg /\ stream' = stream
      /\ \E ev : \E g \in BOOLEAN : Made(ev, g, from, to, payload)
  BY <1>1, TcpStep
<1>3. PICK ev, g : Made(ev, g, from, to, payload)
  BY <1>2
<1>4. payload \in Seq(0..Size)
  BY PayloadIs
<1> DEFINE b == Grown(from, payload)
           n == IF g /\ ev # NoEvent THEN Known \cup {ev.domain} ELSE Known
<1>5. b \in Seq(0..Size) /\ Len(b) <= MaxPayloadBuf
  BY <1>4, GrownIs
<1>6. session' = [live |-> TRUE, client |-> Owner(from), buf |-> b, named |-> n]
  BY <1>3 DEF Made
<1>7. Owner(from) \in {stream.client, stream.server}
  BY OwnerIs
<1> HIDE DEF b, n
<1>8. /\ session' = [live |-> TRUE, client |-> session'.client, buf |-> session'.buf,
                     named |-> session'.named]
      /\ session'.client = Owner(from) /\ session'.buf = b
  BY <1>6
<1>9. at' \in 0..Size /\ faults' \in 0..MaxFaults
  <2>1. at \in 0..Size /\ faults \in 0..MaxFaults /\ MaxFaults \in Nat /\ Size \in Nat
    BY CaptureAssumption, StreamIs DEF Shaped
  <2>2. at' \in 0..Size
    BY <2>1 DEF TcpMove
  <2>3. faults' = faults \/ (faults < MaxFaults /\ faults' = faults + 1)
    BY DEF TcpMove
  <2> QED
    BY <2>1, <2>2, <2>3
<1>10. Size' = Size
  BY <1>2 DEF Size
<1> QED
  BY <1>2, <1>5, <1>7, <1>8, <1>9, <1>10 DEF Shaped

(* A packet in order, when all were *)
LEMMA TcpGathered ==
  ASSUME Shaped, Gathered, NEW from \in {stream.client, stream.server}, NEW to, NEW payload,
         TcpMove(from, to, payload)
  PROVE  /\ Owner(from) = stream.server =>
              \A k \in DOMAIN Grown(from, payload) : Grown(from, payload)[k] = 0
         /\ (Owner(from) = stream.client /\ faults' = 0) =>
              Grown(from, payload) = Segment(1, Held(at'))
<1> DEFINE b == Grown(from, payload)
<1>0. /\ Size \in Nat /\ stream.client # stream.server /\ at \in 0..Size /\ faults \in 0..MaxFaults
      /\ MaxFaults \in Nat /\ MaxPayloadBuf \in Nat /\ MaxPayloadBuf > 0
  BY CaptureAssumption, StreamIs DEF Shaped
<1>1. /\ payload \in Seq(0..Size)
      /\ from = stream.server => \A k \in DOMAIN payload : payload[k] = 0
  BY PayloadIs
<1>2. ASSUME Owner(from) = stream.server
      PROVE  \A k \in DOMAIN b : b[k] = 0
  <2>1. \A k \in DOMAIN Kept : Kept[k] = 0
    BY <1>2 DEF Gathered, Owner, Kept
  <2>2. /\ DOMAIN b = 1..Len(b)
        /\ \A k \in 1..Len(b) : \/ k \in DOMAIN Kept /\ b[k] = Kept[k]
                                \/ from = Owner(from) /\ \E n \in DOMAIN payload : b[k] = payload[n]
    BY <1>1, GrownIs
  <2> HIDE DEF b
  <2> QED
    BY <1>1, <1>2, <2>1, <2>2
<1>3. ASSUME Owner(from) = stream.client, faults' = 0
      PROVE  b = Segment(1, Held(at'))
  <2>1. faults = 0
    <3>1. faults' = faults \/ faults' = faults + 1
      BY DEF TcpMove
    <3> QED
      BY <1>0, <1>3, <3>1
  <2>2. Kept = Segment(1, Held(at))
    <3>1. CASE session.live
      BY <1>3, <2>1, <3>1 DEF Gathered, Owner, Kept
    <3>2. CASE ~session.live
      <4>1. at = 0
        BY <2>1, <3>2 DEF Gathered
      <4>2. Held(at) = 0
        BY <1>0, <4>1 DEF Held
      <4>3. Segment(1, 0) = <<>>
        BY DEF Segment
      <4> QED
        BY <3>2, <4>2, <4>3 DEF Kept
    <3> QED
      BY <3>1, <3>2
  <2>3. CASE from = stream.client
    <3>1. b = Appended(Kept, payload)
      BY <1>3, <2>3 DEF Grown
    <3>2. CASE payload = <<>> /\ at' = at
      <4>1. Kept \in Seq(0..Size) /\ Len(Kept) <= MaxPayloadBuf
        BY KeptIs
      <4>2. Appended(Kept, <<>>) = Kept
        BY <4>1, AppendNothing
      <4> QED
        BY <2>2, <3>1, <3>2, <4>2
    <3>3. CASE \E j \in (at + 1)..Size : payload = Segment(at + 1, j) /\ at' = j
      <4>1. PICK j \in (at + 1)..Size : payload = Segment(at + 1, j) /\ at' = j
        BY <3>3
      <4>2. Appended(Segment(1, Held(at)), Segment(at + 1, j)) = Segment(1, Held(j))
        BY <1>0, AppendNext
      <4> QED
        BY <2>2, <3>1, <4>1, <4>2
    <3>4. (payload = <<>> /\ at' = at)
          \/ \E j \in (at + 1)..Size : payload = Segment(at + 1, j) /\ at' = j
      <4>1. ~(faults' = faults + 1)
        BY <1>3, <2>1
      <4> QED
        BY <1>0, <2>3, <4>1 DEF TcpMove
    <3> QED
      BY <3>2, <3>3, <3>4
  <2>4. CASE from = stream.server
    <3>1. b = Kept /\ at' = at
      BY <1>0, <1>3, <2>4 DEF Grown, TcpMove
    <3> QED
      BY <2>2, <3>1
  <2> QED
    BY <2>3, <2>4
<1> QED
  BY <1>2, <1>3
(* What was made of the buffer while all packets came in order *)
LEMMA BufferAsked ==
  ASSUME Shaped, Gathered, NEW from \in {stream.client, stream.server}, NEW to, NEW payload,
         TcpMove(from, to, payload), faults' = 0,
         NEW ev \in ParseTCPPayload(Grown(from, payload)), ev # NoEvent
  PROVE  /\ \E n \in DOMAIN stream.names : ev.domain = Norm[stream.names[n]]
         /\ stream.proto = "https" => ev.domain = Norm[stream.names[1]]
<1> DEFINE b == Grown(from, payload)
           h == Held(at')
<1>0. stream \in Streams /\ Owner(from) \in {stream.client, stream.server}
  BY OwnerIs DEF Shaped
<1>1. b \in Seq(0..Size) /\ DOMAIN b = 1..Len(b) /\ Len(b) \in Nat
  <2>1. payload \in Seq(0..Size)
    BY PayloadIs
  <2> QED
    BY <2>1, GrownIs
<1>2. ~(b = <<>> \/ b[1] = 0)
  BY <1>0, <1>1, ServerParse
<1>3. 1 \in DOMAIN b
  <2> DEFINE S == 0..Size
  <2>1. b \in Seq(S)
    BY <1>1
  <2> HIDE DEF S, b
  <2> QED
    BY <1>1, <1>2, <2>1
<1>4. Owner(from) = stream.client /\ b = Segment(1, h)
  BY <1>0, <1>2, <1>3, TcpGathered
<1>5. h \in 0..Size /\ Size \in Nat
  <2>1. /\ Size \in Nat /\ at \in 0..Size /\ MaxPayloadBuf \in Nat
    BY CaptureAssumption, StreamIs DEF Shaped
  <2>2. at' \in 0..Size
    BY <2>1 DEF TcpMove
  <2> QED
    BY <2>1, <2>2 DEF Held
<1> HIDE DEF b, h
<1>6. 1 \in 1..Size /\ h \in 1..Size
  <2>1. DOMAIN b = 1..h
    BY <1>4, <1>5, BeginningIs
  <2> QED
    BY <1>3, <1>5, <2>1
<1> QED
  BY <1>0, <1>4, <1>6, SegmentAsked DEF b

LEMMA TcpNamed ==
  ASSUME Shaped, Gathered, NamedOnce, NEW from \in {stream.client, stream.server}, NEW to,
         NEW payload, TcpMove(from, to, payload)
  PROVE  NamedOnce'
<1>1. /\ cfg' = cfg /\ stream' = stream
      /\ \E ev : \E g \in BOOLEAN : Made(ev, g, from, to, payload)
  BY TcpStep DEF TcpMove
<1>2. PICK ev, g : Made(ev, g, from, to, payload)
  BY <1>1
<1> DEFINE b == Grown(from, payload)
           n == IF g /\ ev # NoEvent THEN Known \cup {ev.domain} ELSE Known
           t == Text(Kept)
           u == Text(b)
<1>3. /\ session' = [live |-> TRUE, client |-> Owner(from), buf |-> b, named |-> n]
      /\ g => ev \in ParseTCPPayload(b)
  BY <1>2 DEF Made
<1>4. payload \in Seq(0..Size) /\ stream \in Streams
  BY PayloadIs DEF Shaped
<1>5. /\ b \in Seq(0..Size) /\ Len(b) \in Nat
      /\ DOMAIN b = 1..Len(b) /\ DOMAIN Kept = 1..Len(Kept)
      /\ Len(Kept) <= Len(b) /\ \A k \in 1..Len(Kept) : b[k] = Kept[k]
  BY <1>4, GrownIs
<1>6. Len(Kept) \in Nat
  BY KeptIs
<1>7. Norm[NoName] = NoName
  BY CaptureAssumption
<1>8. Text(session.buf)' = u
  <2>1. session'.buf = b
    BY <1>3
  <2> HIDE DEF b
  <2> QED
    BY <1>1, <2>1 DEF Text
<1>9. session'.live /\ session'.named = n /\ stream'.proto = stream.proto
      /\ stream'.names = stream.names
  BY <1>1, <1>3
<1> HIDE DEF b, n
<1>10. ASSUME stream.proto = "http", NEW d \in n
       PROVE  d = Norm[ExtractHTTPHost(u)] /\ d # NoName
  <2>1. CASE d \in Known
    <3>1. d = Norm[ExtractHTTPHost(t)] /\ d # NoName
      BY <1>10, <2>1 DEF NamedOnce, Known, Kept
    <3>2. ExtractHTTPHost(t) # NoName
      BY <1>7, <3>1
    <3>3. Len(t) = Len(Kept) /\ DOMAIN t = 1..Len(Kept) /\ Len(u) = Len(b) /\ DOMAIN u = 1..Len(b)
      BY <1>5, <1>6, TextIs
    <3>4. \A k \in 1..Len(Kept) : u[k] = t[k]
      <4>1. \A k \in 1..Len(Kept) : k \in 1..Len(b)
        BY <1>5, <1>6
      <4> QED
        BY <1>5, <4>1 DEF Text
    <3> HIDE DEF t, u
    <3>5. ExtractHTTPHost(u) = ExtractHTTPHost(t)
      BY <1>5, <1>6, <3>2, <3>3, <3>4, HostStays
    <3> QED
      BY <3>1, <3>5
  <2>2. CASE g /\ ev # NoEvent /\ d = ev.domain
    <3>1. ev = HttpEvent(u)
      BY <1>3, <1>4, <1>5, <1>10, <2>2, HttpParse
    <3> HIDE DEF u
    <3> QED
      BY <2>2, <3>1 DEF HttpEvent
  <2> QED
    BY <2>1, <2>2 DEF n
<1>11. ASSUME stream.proto = "https", faults' = 0
       PROVE  n \subseteq {Norm[stream.names[1]]}
  <2>1. faults = 0
    <3>1. faults' = faults \/ faults' = faults + 1
      BY DEF TcpMove
    <3>2. faults \in 0..MaxFaults /\ MaxFaults \in Nat
      BY CaptureAssumption DEF Shaped
    <3> QED
      BY <1>11, <3>1, <3>2
  <2>2. Known \subseteq {Norm[stream.names[1]]}
    BY <1>11, <2>1 DEF NamedOnce, Known
  <2>3. (g /\ ev # NoEvent) => ev.domain = Norm[stream.names[1]]
    BY <1>3, <1>11, BufferAsked DEF b
  <2> QED
    BY <2>2, <2>3 DEF n
<1> HIDE DEF u
<1>12. ASSUME stream'.proto = "http", NEW d \in session'.named
       PROVE  d = Norm[ExtractHTTPHost(Text(session.buf)')] /\ d # NoName
  BY <1>8, <1>9, <1>10, <1>12
<1> QED
  BY <1>1, <1>9, <1>11, <1>12 DEF NamedOnce

LEMMA TcpAsked ==
  ASSUME Shaped, Gathered, DomainsAsked, NEW from \in {stream.client, stream.server}, NEW to,
         NEW payload, TcpMove(from, to, payload)
  PROVE  DomainsAsked'
<1>1. /\ stream' = stream
      /\ \E ev : \E g \in BOOLEAN : Made(ev, g, from, to, payload)
  BY TcpStep DEF TcpMove
<1>2. PICK ev, g : Made(ev, g, from, to, payload)
  BY <1>1
<1> SUFFICES ASSUME faults' = 0, NEW e \in found'
             PROVE  \E n \in DOMAIN stream.names : e.domain = Norm[stream.names[n]]
  BY <1>1 DEF DomainsAsked
<1>3. faults = 0 /\ ~(faults' = faults + 1)
  <2>1. faults' = faults \/ faults' = faults + 1
    BY DEF TcpMove
  <2>2. faults \in 0..MaxFaults /\ MaxFaults \in Nat
    BY CaptureAssumption DEF Shaped
  <2> QED
    BY <2>1, <2>2
<1>4. CASE e \in found
  BY <1>3, <1>4 DEF DomainsAsked
<1>5. CASE e \notin found
  <2>1. e = ev /\ ev # NoEvent
    BY <1>2, <1>5 DEF Made, Told
  <2>2. CASE g
    <3>1. ev \in ParseTCPPayload(Grown(from, payload))
      BY <1>2, <2>2 DEF Made
    <3> QED
      BY <2>1, <3>1, BufferAsked
  <2>3. CASE ~g
    <3>1. ev \in ParseTCPPayload(payload)
      BY <1>2, <2>3 DEF Made
    <3>2. ~(payload = <<>> \/ payload[1] = 0)
      <4>1. payload \in Seq(0..Size)
        BY PayloadIs
      <4> QED
        BY <2>1, <3>1, <4>1, ServerParse DEF Shaped
    <3>3. PICK i \in 1..Size : \E j \in i..Size : payload = Segment(i, j)
      BY <3>2 DEF TcpMove
    <3>4. PICK j \in i..Size : payload = Segment(i, j)
      BY <3>3
    <3> QED
      BY <2>1, <3>1, <3>4, SegmentAsked DEF Shaped
  <2> QED
    BY <2>2, <2>3
<1> QED
  BY <1>4, <1>5

(* The packet that completes the first header makes its event, or the      *)
(* buffer does.                                                            *)
LEMMA TcpFirst ==
  ASSUME Shaped, Gathered, FirstFoundOnce, NEW from \in {stream.client, stream.server}, NEW to,
         NEW payload, TcpMove(from, to, payload)
  PROVE  FirstFoundOnce'
<1>1. /\ cfg' = cfg /\ stream' = stream
      /\ \E ev : \E g \in BOOLEAN : Made(ev, g, from, to, payload)
  BY TcpStep DEF TcpMove
<1>2. PICK ev, g : Made(ev, g, from, to, payload)
  BY <1>1
<1> DEFINE u == stream.upto
           W == Wanted(stream.names[1])
<1>3. W' = W
  BY <1>1 DEF Wanted, Admitted, IsProtocolEnabled, Excluded, Reported
<1>4. session'.client = Owner(from) /\ session'.live
  BY <1>2 DEF Made
<1> SUFFICES ASSUME faults' = 0, Owner(from) = stream.client, at' >= u, u <= MaxPayloadBuf, W
             PROVE  \E e \in found' : /\ e.domain = Norm[stream.names[1]]
                                      /\ stream.proto = "https" => e.ja4 = JA4(FirstHello(stream))
  <2>1. FirstHello(stream)' = FirstHello(stream)
    BY <1>1 DEF FirstHello
  <2>2. Wanted(stream.names[1])' = Wanted(stream.names[1])
    BY <1>3
  <2> QED
    BY <1>1, <1>4, <2>1, <2>2 DEF FirstFoundOnce, InOrder
<1>0. /\ Size \in Nat /\ u \in 1..Size /\ stream.client # stream.server
      /\ at \in 0..Size /\ faults \in 0..MaxFaults /\ MaxFaults \in Nat /\ MaxPayloadBuf \in Nat
      /\ stream \in Streams
  BY CaptureAssumption, StreamIs DEF Shaped
<1>5. faults = 0 /\ ~(faults' = faults + 1)
  <2>1. faults' = faults \/ faults' = faults + 1
    BY DEF TcpMove
  <2> QED
    BY <1>0, <2>1
<1>6. CASE at >= u
  <2>1. session.live
    <3>1. at # 0
      BY <1>0, <1>6
    <3> QED
      BY <1>5, <3>1 DEF Gathered
  <2>2. InOrder
    BY <1>5, <2>1 DEF InOrder, Owner
  <2>3. found \subseteq found'
    BY <1>2 DEF Made
  <2> QED
    BY <1>6, <2>2, <2>3 DEF FirstFoundOnce
<1>7. CASE ~(at >= u)
  <2>1. at' # at
    BY <1>7
  <2>2. /\ from = stream.client /\ to = stream.server
        /\ \E j \in (at + 1)..Size : payload = Segment(at + 1, j) /\ at' = j
    BY <1>5, <2>1 DEF TcpMove
  <2>3. PICK j \in (at + 1)..Size : payload = Segment(at + 1, j) /\ at' = j
    BY <2>2
  <2>4. j \in u..Size /\ Held(j) \in u..Size
    BY <1>0, <2>3 DEF Held
  <2>5. Grown(from, payload) = Segment(1, Held(j))
    BY <2>3, TcpGathered
  <2>6. PICK e : ParseTCPPayload(Segment(1, Held(j))) = {e} /\ IsFirst(e)
    BY <1>0, <2>4, FirstParse
  <2>7. IsFirst(ev)
    <3>1. CASE at = 0
      <4>1. payload = Segment(1, j)
        <5>1. at + 1 = 1
          BY <3>1
        <5> QED
          BY <2>3, <5>1
      <4>2. PICK f : ParseTCPPayload(payload) = {f} /\ IsFirst(f)
        BY <1>0, <2>4, <4>1, FirstParse
      <4>3. NoEvent \notin ParseTCPPayload(payload)
        BY <4>2 DEF IsFirst
      <4>4. ev \in ParseTCPPayload(payload)
        BY <1>2, <4>3 DEF Made
      <4> QED
        BY <4>2, <4>4
    <3>2. CASE at # 0
      <4> DEFINE i == at + 1
      <4>1. i \in 2..u /\ j \in i..Size
        BY <1>0, <1>7, <2>3, <3>2
      <4>2. payload = Segment(i, j)
        BY <2>3
      <4> HIDE DEF i
      <4>3. ParseTCPPayload(payload) = {NoEvent}
        BY <1>0, <4>1, <4>2, LaterParse
      <4>4. g
        BY <1>2, <2>2, <4>3 DEF Made
      <4>5. ev = e
        BY <1>2, <2>5, <2>6, <4>4 DEF Made
      <4> QED
        BY <2>6, <4>5
    <3> QED
      BY <3>1, <3>2
  <2>8. Told(ev, from, to)
    BY <2>2, <2>7 DEF Told, IsFirst, Wanted
  <2>9. ev \in found'
    BY <1>2, <2>8 DEF Made
  <2> QED
    BY <2>7, <2>9 DEF IsFirst
<1> QED
  BY <1>6, <1>7

LEMMA TcpKeeps ==
  ASSUME CInv, NEW from \in {stream.client, stream.server}, NEW to, NEW payload,
         TcpMove(from, to, payload)
  PROVE  CInv'
<1>1. Shaped' /\ NamedOnce' /\ DomainsAsked' /\ FirstFoundOnce'
  BY TcpAsked, TcpFirst, TcpNamed, TcpShaped DEF CInv
<1>2. /\ dns' = NoDns /\ stream' = stream
      /\ \E ev : \E g \in BOOLEAN : Made(ev, g, from, to, payload)
  BY TcpStep DEF TcpMove, CInv
<1>3. PICK ev, g : Made(ev, g, from, to, payload)
  BY <1>2
<1>4. Forged'
  BY <1>2 DEF Forged, NoDns
<1>5. session'.live /\ session'.client = Owner(from) /\ session'.buf = Grown(from, payload)
  BY <1>3 DEF Made
<1>6. Held(at)' = Held(at')
  BY DEF Held
<1>7. Gathered'
  <2>1. /\ Owner(from) = stream.server =>
              \A k \in DOMAIN Grown(from, payload) : Grown(from, payload)[k] = 0
        /\ (Owner(from) = stream.client /\ faults' = 0) =>
              Grown(from, payload) = Segment(1, Held(at'))
    BY TcpGathered DEF CInv
  <2> QED
    BY <1>2, <1>5, <1>6, <2>1 DEF Gathered
<1> QED
  BY <1>1, <1>4, <1>7 DEF CInv
LEMMA UdpKeeps ==
  ASSUME CInv, NEW p \in Datagrams, HandleUdp(p)
  PROVE  CInv'
<1>1. UNCHANGED <<cfg, stream, session, at, faults, found>>
  BY DEF HandleUdp
<1>2. Shaped' /\ Gathered' /\ DomainsAsked'
  BY <1>1 DEF CInv, Shaped, Gathered, DomainsAsked, Size, Held
<1>3. Text(session.buf)' = Text(session.buf)
  BY <1>1 DEF Text
<1>4. NamedOnce'
  BY <1>1, <1>3 DEF CInv, NamedOnce
<1>5. Wanted(stream.names[1])' = Wanted(stream.names[1])
  BY <1>1 DEF Wanted, Admitted, IsProtocolEnabled, Excluded, Reported
<1>6. FirstHello(stream)' = FirstHello(stream)
  BY <1>1 DEF FirstHello
<1>7. FirstFoundOnce'
  BY <1>1, <1>5, <1>6 DEF CInv, FirstFoundOnce, InOrder
<1>8. Forged'
  <2> DEFINE answer == SendDNSPoison(p, ExtractQName(p.msg), cfg.dnsPoison)
  <2>1. /\ dns'.packet = p
        /\ dns'.forged = {} \/ (IsDNSQuery(p.msg) /\ dns'.forged = {answer})
    <3> HIDE DEF answer
    <3> QED
      BY DEF HandleUdp, answer
  <2> HIDE DEF answer
  <2> QED
    BY <1>1, <2>1 DEF Forged, answer
<1> QED
  BY <1>2, <1>4, <1>7, <1>8 DEF CInv

LEMMA ExpireKeeps ==
  ASSUME CInv, Expire
  PROVE  CInv'
<1>1. /\ session' = NoSession /\ faults' = faults + 1 /\ dns' = NoDns
      /\ faults < MaxFaults /\ UNCHANGED <<cfg, stream, at, found>>
  BY DEF Expire
<1>2. faults \in 0..MaxFaults /\ MaxFaults \in Nat
  BY CaptureAssumption DEF CInv, Shaped
<1>3. faults' \in 0..MaxFaults /\ faults' # 0 /\ ~session'.live
  BY <1>1, <1>2 DEF NoSession
<1>4. Shaped'
  BY <1>1, <1>3 DEF CInv, Shaped, Size
<1>5. Gathered' /\ NamedOnce' /\ DomainsAsked' /\ FirstFoundOnce'
  BY <1>3 DEF Gathered, NamedOnce, DomainsAsked, FirstFoundOnce, InOrder
<1>6. Forged'
  BY <1>1 DEF Forged, NoDns
<1> QED
  BY <1>4, <1>5, <1>6 DEF CInv

LEMMA StutterKeeps ==
  ASSUME CInv, UNCHANGED vars
  PROVE  CInv'
<1>1. UNCHANGED <<cfg, stream, session, at, faults, found, dns>>
  BY DEF vars
<1>2. Shaped' /\ Gathered' /\ DomainsAsked' /\ Forged'
  BY <1>1 DEF CInv, Shaped, Gathered, DomainsAsked, Forged, Size, Held
<1>3. Text(session.buf)' = Text(session.buf)
  BY <1>1 DEF Text
<1>4. NamedOnce'
  BY <1>1, <1>3 DEF CInv, NamedOnce
<1>5. Wanted(stream.names[1])' = Wanted(stream.names[1])
  BY <1>1 DEF Wanted, Admitted, IsProtocolEnabled, Excluded, Reported
<1>6. FirstHello(stream)' = FirstHello(stream)
  BY <1>1 DEF FirstHello
<1>7. FirstFoundOnce'
  BY <1>1, <1>5, <1>6 DEF CInv, FirstFoundOnce, InOrder
<1> QED
  BY <1>2, <1>4, <1>7 DEF CInv

-----------------------------------------------------------------------------
(* The invariant holds whatever packets are captured in whatever order     *)
(* (handlePacket, sessionTable.Cleanup).                                   *)
THEOREM Invariance == Spec => []CInv
<1>1. Init => CInv
  <2> SUFFICES ASSUME Init PROVE CInv
    OBVIOUS
  <2>1. /\ \E raw \in RawConfigs : cfg = LoadConfig(raw)
        /\ stream \in Streams
        /\ session = NoSession /\ at = 0 /\ faults = 0 /\ found = {} /\ dns = NoDns
    BY DEF Init
  <2>2. Size \in Nat /\ stream.upto \in 1..Size /\ MaxFaults \in Nat
    BY <2>1, CaptureAssumption, StreamIs
  <2>3. Shaped
    BY <2>1, <2>2 DEF Shaped
  <2>4. ~session.live
    BY <2>1 DEF NoSession
  <2>5. Gathered /\ NamedOnce /\ DomainsAsked /\ FirstFoundOnce /\ Forged
    BY <2>1, <2>4 DEF Gathered, NamedOnce, DomainsAsked, FirstFoundOnce, InOrder, Forged
  <2> QED
    BY <2>3, <2>5 DEF CInv
<1>2. CInv /\ [Next]_vars => CInv'
  <2> SUFFICES ASSUME CInv, [Next]_vars PROVE CInv'
    OBVIOUS
  <2>1. CASE \/ \E j \in (at + 1)..Len(stream.says) : ClientSends(at + 1, j)
             \/ /\ faults < MaxFaults
                /\ \E i \in DOMAIN stream.says \ {at + 1} :
                     \E j \in i..Len(stream.says) : ClientSends(i, j)
             \/ ClientAcks
             \/ ServerSends
    BY <2>1, TcpMoves, TcpKeeps DEF CInv
  <2>2. CASE \E p \in Datagrams : HandleUdp(p)
    BY <2>2, UdpKeeps
  <2>3. CASE Expire
    BY <2>3, ExpireKeeps
  <2>4. CASE UNCHANGED vars
    BY <2>4, StutterKeeps
  <2> QED
    BY <2>1, <2>2, <2>3, <2>4 DEF Next
<1> QED
  BY <1>1, <1>2, PTL DEF Spec

(* Type correctness; the gathered header stays within maxPayloadBuf        *)
(* (session.go:58-73, config.go:66-71).                                    *)
THEOREM TypeCorrect == Spec => []TypeOK
<1>1. CInv => TypeOK
  <2> SUFFICES ASSUME CInv PROVE TypeOK
    OBVIOUS
  <2>1. /\ \E raw \in RawConfigs : cfg = LoadConfig(raw)
        /\ stream \in Streams /\ at \in 0..Size /\ faults \in 0..MaxFaults
    BY DEF CInv, Shaped
  <2>2. cfg.mode \in {"enforcement", "monitoring"} /\ cfg.dnsPoison \in {"blackhole", "nxdomain"}
    <3>1. PICK raw \in RawConfigs : cfg = LoadConfig(raw)
      BY <2>1
    <3>2. "mode" \in DOMAIN raw /\ "dnsPoison" \in DOMAIN raw
      BY CaptureAssumption
    <3>3. /\ cfg.mode = IF raw.mode = "enforcement" THEN raw.mode ELSE "monitoring"
          /\ cfg.dnsPoison = IF raw.dnsPoison = "blackhole" THEN raw.dnsPoison ELSE "nxdomain"
      BY <3>1, <3>2 DEF LoadConfig
    <3> QED
      BY <3>3
  <2>3. ASSUME session # NoSession
        PROVE  /\ session.client \in {stream.client, stream.server}
               /\ Len(session.buf) <= MaxPayloadBuf
               /\ ToSet(session.buf) \subseteq 0..Size
    <3>1. /\ session.client \in {stream.client, stream.server}
          /\ session.buf \in Seq(0..Size) /\ Len(session.buf) <= MaxPayloadBuf
      BY <2>3 DEF CInv, Shaped
    <3> DEFINE S == 0..Size
    <3>2. session.buf \in Seq(S)
      BY <3>1
    <3> HIDE DEF S
    <3>3. \A i \in DOMAIN session.buf : session.buf[i] \in S
      BY <3>2
    <3> QED
      BY <3>1, <3>3 DEF ToSet, S
  <2> QED
    BY <2>1, <2>2, <2>3 DEF TypeOK, Size
<1> QED
  BY <1>1, Invariance, PTL

(* However the first header is divided into packets its name is reported   *)
(* once it is there (capture.go:117-141).                                  *)
THEOREM HeadersAreFound == Spec => []RequestsFound
<1>1. CInv => RequestsFound
  BY DEF CInv, FirstFoundOnce, RequestsFound
<1> QED
  BY <1>1, Invariance, PTL

(* While the packets are captured once each and in order, no name is       *)
(* reported that the client did not ask for, cut off headers included      *)
(* (parse.go:292, ja3.go:80).  Nothing is said of headers with gaps.       *)
THEOREM NamesAreAsked == Spec => []DomainsAsked
<1>1. CInv => DomainsAsked
  BY DEF CInv
<1> QED
  BY <1>1, Invariance, PTL

(* What was gathered has one name for ever (capture.go:138).               *)
THEOREM SessionsHaveOneName == Spec => []OneHeaderPerSession
<1>1. CInv => OneHeaderPerSession
  <2> SUFFICES ASSUME CInv, session.live, faults = 0 \/ stream.proto = "http"
               PROVE  Cardinality(session.named) <= 1
    BY DEF OneHeaderPerSession
  <2>1. \E d : session.named \subseteq {d}
    <3>1. CASE stream.proto = "http"
      BY <3>1 DEF CInv, NamedOnce
    <3>2. CASE stream.proto = "https"
      BY <3>2 DEF CInv, NamedOnce
    <3> QED
      BY <3>1, <3>2, StreamIs DEF CInv, Shaped
  <2>2. PICK d : session.named \subseteq {d}
    BY <2>1
  <2>3. IsFiniteSet({d}) /\ Cardinality({d}) = 1
    BY FS_Singleton
  <2>4. Cardinality(session.named) <= Cardinality({d})
    BY <2>2, <2>3, FS_Subset
  <2> QED
    BY <2>3, <2>4
<1> QED
  BY <1>1, Invariance, PTL

(* If the whole hello of a client is one of a software known by its JA4,   *)
(* with extensions in any order and any GREASE values, the client is       *)
(* recognised however the hello is divided, and whatever was made of the   *)
(* hello while it was cut off (ja3.go:186-234).                            *)
THEOREM FingerprintsAreFound ==
  (\A s \in Streams : s.proto = "https" =>
     \E known : SameSoftware(FirstHello(s), known) /\ s.ja4 = JA4(known))
  => (Spec => []ClientRecognised)
<1> SUFFICES ASSUME \A s \in Streams : s.proto = "https" =>
                      \E known : SameSoftware(FirstHello(s), known) /\ s.ja4 = JA4(known)
             PROVE  Spec => []ClientRecognised
  OBVIOUS
<1>1. ASSUME NEW s \in Streams, s.proto = "https"
      PROVE  JA4(FirstHello(s)) = s.ja4
  <2>1. PICK known : SameSoftware(FirstHello(s), known) /\ s.ja4 = JA4(known)
    BY <1>1
  <2> QED
    BY <2>1, FingerprintIsStable
<1>2. CInv => ClientRecognised
  BY <1>1 DEF CInv, Shaped, FirstFoundOnce, ClientRecognised
<1> QED
  BY <1>2, Invariance, PTL

(* What is forged answers a query and is an answer its client accepts      *)
(* (parse.go:119, block.go:161-263).                                       *)
THEOREM ForgeriesAreAccepted == Spec => []ForgedIsAcceptable
<1>1. CInv => ForgedIsAcceptable
  <2> SUFFICES ASSUME CInv, dns.handled, NEW answer \in dns.forged
               PROVE  /\ ~dns.packet.msg.qr
                      /\ (/\ dns.packet.msg.qtype = "A"
                          /\ \A l \in ToSet(dns.packet.msg.labels) : Len(l) = 1)
                         => Accepts(dns.packet, answer)
    BY DEF ForgedIsAcceptable
  <2> DEFINE p == dns.packet
             labels == p.msg.labels
  <2>1. dns # NoDns
    BY DEF NoDns
  <2>2. /\ p \in Datagrams /\ IsDNSQuery(p.msg)
        /\ answer = SendDNSPoison(p, ExtractQName(p.msg), cfg.dnsPoison)
    BY <2>1 DEF CInv, Forged
  <2> HIDE DEF p
  <2>3. ~p.msg.qr
    BY <2>2 DEF IsDNSQuery
  <2>4. ASSUME p.msg.qtype = "A", \A l \in ToSet(labels) : Len(l) = 1
        PROVE  Accepts(p, answer)
    <3>1. labels \in Seq(ToSet(labels))
          /\ \A l \in ToSet(labels) : l \in Seq(STRING) /\ l # <<NoBytes>>
      BY <2>2, DatagramsAssumption
    <3>2. \A i \in DOMAIN labels : labels[i] \in ToSet(labels)
      BY DEF ToSet
    <3> DEFINE S == ToSet(labels)
               L == Seq(STRING)
    <3>3. labels \in Seq(L)
      <4>1. \A l \in S : l \in L
        BY <3>1
      <4>2. labels \in Seq(S)
        BY <3>1
      <4> HIDE DEF S, L, labels
      <4> QED
        BY <4>1, <4>2
    <3>4. EncodeQName(FlattenSeq(labels)) = labels
      BY <2>4, <3>1, <3>2, <3>3, LabelsSurvive
    <3>5. answer = [src |-> p.dst, dst |-> p.src,
                    msg |-> BuildDNSResponse(p.msg.id, ExtractQName(p.msg), cfg.dnsPoison)]
      BY <2>2 DEF SendDNSPoison
    <3>6. /\ answer.msg.qr /\ answer.msg.id = p.msg.id /\ answer.msg.qtype = "A"
          /\ answer.msg.labels = EncodeQName(ExtractQName(p.msg))
      BY <3>5 DEF BuildDNSResponse
    <3>7. answer.msg.labels = labels
      BY <3>4, <3>6 DEF ExtractQName
    <3> QED
      BY <2>4, <3>5, <3>6, <3>7 DEF Accepts
  <2> QED
    BY <2>3, <2>4 DEF p
<1> QED
  BY <1>1, Invariance, PTL
=============================================================================
