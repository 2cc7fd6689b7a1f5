------------------------------ MODULE MCCapture ------------------------------
(* Finite instance of Capture: a keep-alive HTTP client, two hellos of the *)
(* same software that differ in GREASE values and order of extensions, DNS *)
(* queries of every kind.  Chat.AI is to be blocked, the others are known. *)
EXTENDS Capture

E(i, p) == [ip |-> i, port |-> p]
F(f, v) == [f |-> f, v |-> v]
P(n, i, k) == [name |-> n, part |-> i, of |-> k]
Chat == <<"Chat", "AI">>
Api == <<"Api", "io">>

MCNorm == (NoName :> NoName) @@ (Junk :> Junk) @@ (Chat :> <<"chat", "ai">>)
  @@ (Api :> <<"api", "io">>) @@ (<<"other">> :> <<"other">>)

Http == <<F("method", 0), F("crlf", 0), F("host", 0), F("part", P(Chat, 1, 2)),
          F("part", P(Chat, 2, 2)), F("crlf", 0),
          F("method", 0), F("host", 0), F("part", P(Api, 1, 1)), F("crlf", 0)>>
Sni == <<F("ext", 0), F("sni", P(Chat, 1, 2)), F("sni", P(Chat, 2, 2))>>
HelloA == <<F("record", 0), F("fixed", 771), F("cipher", 4865),
            F("comp", 8), F("ext", 10)>> \o Sni
          \o <<F("ext", 43), F("version", 772), F("ext", 16), F("alpn", "h2")>>
HelloB == <<F("record", 0), F("fixed", 771), F("cipher", 2570), F("cipher", 4865),
            F("comp", 8), F("ext", 43), F("version", 772)>> \o Sni
          \o <<F("ext", 16), F("alpn", "h2"), F("ext", 10)>>
Ja4 == [ver |-> 772, sni |-> TRUE, alpn |-> "h2", ciphers |-> SetToBag({4865}),
        exts |-> SetToBag({10, 43}), sigs |-> EmptyBag]

Tls(hello, more) ==
  [client |-> E(1, 5), server |-> E(9, 443), proto |-> "https",
   says |-> hello \o more, names |-> <<Chat>>, upto |-> Len(hello), ja4 |-> Ja4]
MCStreams ==
  {Tls(HelloA, <<>>), Tls(HelloB, <<F("data", 0)>>),
   [client |-> E(2, 5), server |-> E(9, 80), proto |-> "http",
    says |-> Http, names |-> <<Chat, Api>>, upto |-> 6, ja4 |-> JunkPrint]}

Msg(qr, labels, type) ==
  [id |-> 7, qr |-> qr, qdcount |-> 1, labels |-> labels, wellFormed |-> TRUE, qtype |-> type]
Dgram(m) == [src |-> E(1, 6), dst |-> E(8, 53), msg |-> m]
MCDatagrams ==
  {Dgram(Msg(FALSE, l, t)) :
     l \in {<<<<"Chat">>, <<"AI">>>>, <<<<"Chat", "AI">>>>, <<<<"other">>>>}, t \in {"A", "AAAA"}}
  \cup {Dgram(Msg(TRUE, <<<<"Chat">>, <<"AI">>>>, "A"))}

Raw(m, d, ps, policy, excl) ==
  [mode |-> m, dnsPoison |-> d, protocols |-> ps, portPolicy |-> policy,
   fixedPorts |-> {80, 53}, excludeSrcIPs |-> excl]
MCRawConfigs ==
  {Raw("enforcement", "blackhole", {"dns", "http", "https"}, "any", {}),
   Raw("Enforcement", "127.0.0.1", {"dns", "http"}, "fixed", {1})}

MCBlocked == {<<"chat", "ai">>}
MCMatched == {<<"chat", "ai">>, <<"api", "io">>, Junk}
=============================================================================
