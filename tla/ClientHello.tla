----------------------------- MODULE ClientHello -----------------------------
(***************************************************************************)
(* The TLS fingerprints of bypass-guard (ja3.go).  A ClientHello on the    *)
(* wire is a sequence of fields [f, v], a field being bytes that no packet *)
(* boundary divides in a way the parser could tell: "record" (the first    *)
(* bytes, up to the handshake type), "fixed" (up to the session id, with   *)
(* the legacy version), one "cipher" each, "comp" (compression methods and *)
(* the length of the extensions, counted in fields), and for each          *)
(* extension "ext" (type and length) and the elements of its body: "sni",  *)
(* "group", "format", "version", "sigalg" or "alpn".  A protocol name has  *)
(* more than one byte.                                                     *)
(***************************************************************************)
EXTENDS Naturals, SequencesExt, Subsequence

NoName == <<>>
Junk == <<"junk">> \* a name nobody asked for
NoAlpn == ""

IsGREASE(v) == v % 16 = 10 /\ v \div 256 = v % 256

Values(b, f) ==
  LET s == Picked(b, {i \in DOMAIN b : b[i].f = f}) IN [i \in DOMAIN s |-> s[i].v]

(* Fault: the length of the name is not compared with what is there. *)
ServerNameClipped(parts) ==
  IF parts = <<>> THEN NoName
  ELSE IF Len(parts) = parts[1].of THEN parts[1].name ELSE Junk

(* The server name counts once all of it is there. *)
ServerName(parts) ==
  IF parts # <<>> /\ Len(parts) = parts[1].of THEN parts[1].name ELSE NoName

(* supported_versions: the highest that is neither GREASE nor a draft *)
Highest(versions) ==
  Max({0} \cup {v \in ToSet(versions) : ~IsGREASE(v) /\ v \div 256 # 127})

(* Where the compression methods and the length of the extensions are, and *)
(* the last field of the extensions.                                       *)
Comp(b) == SelectInSeq(b, LAMBDA a : a.f = "comp")
HelloEnd(b) == Comp(b) + b[Comp(b)].v

(* parseClientHello succeeds on a hello whose extensions are cut off. *)
IsHello(b) == Len(b) >= 2 /\ b[1].f = "record" /\ b[2].f = "fixed" /\ Comp(b) > 0

(* The part of the hello that is there *)
Hello(b) == IF HelloEnd(b) < Len(b) THEN SubSeq(b, 1, HelloEnd(b)) ELSE b

ParseClientHello(b) ==
  LET h == Hello(b) IN
  [version |-> h[2].v,
   tlsVer  |-> Highest(Values(h, "version")),
   ciphers |-> Values(h, "cipher"),
   exts    |-> Values(h, "ext"),
   curves  |-> Values(h, "group"),
   formats |-> Values(h, "format"),
   sigAlgs |-> Values(h, "sigalg"),
   sni     |-> ServerName(Values(h, "sni")),
   alpn    |-> IF Values(h, "alpn") = <<>> THEN NoAlpn ELSE Values(h, "alpn")[1]]

(* The hashes are taken to be injective: a fingerprint is what is hashed. *)
JA3(c) == <<c.version, c.ciphers, c.exts, c.curves, c.formats>>

Ja4Version(c) == IF c.tlsVer # 0 THEN c.tlsVer ELSE c.version

Without(s, T) == Picked(s, {i \in DOMAIN s : ~IsGREASE(s[i]) /\ s[i] \notin T})

(* Fault: the extensions are hashed in the order of the hello. *)
JA4Unsorted(c) ==
  [ver |-> Ja4Version(c), sni |-> c.sni # NoName, alpn |-> c.alpn,
   ciphers |-> ToBag(Without(c.ciphers, {})), exts |-> Without(c.exts, {0, 16}),
   sigs |-> ToBag(c.sigAlgs)]

(* Lists are sorted before they are hashed, which leaves bags of them,     *)
(* and their lengths are those of the bags.  0 and 16 are SNI and ALPN.    *)
JA4(c) ==
  [ver |-> Ja4Version(c), sni |-> c.sni # NoName, alpn |-> c.alpn,
   ciphers |-> ToBag(Without(c.ciphers, {})), exts |-> ToBag(Without(c.exts, {0, 16})),
   sigs |-> ToBag(c.sigAlgs)]
=============================================================================
