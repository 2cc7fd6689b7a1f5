------------------------------ MODULE DnsPoison ------------------------------
(***************************************************************************)
(* DNS in bypass-guard: recognition of a query (parse.go) and the forged   *)
(* answer (block.go).  A label on the wire is any bytes: it is given as    *)
(* the sequence of the pieces its dots separate, <<"chat">> or, with a     *)
(* dot among its bytes, <<"a", "b">>.  A name, labels joined by dots, is   *)
(* the sequence of all pieces.                                             *)
(***************************************************************************)
EXTENDS Naturals, SequencesExt, Subsequence

CONSTANT MaxLabels \* labels of a name at most (20)

ASSUME PoisonAssumption == MaxLabels \in Nat

(* extractQName's second result: no label is longer than 63 bytes, the     *)
(* name ends within the packet (both: wellFormed), it has labels, not too  *)
(* many.                                                                   *)
QNameOk(p) == p.wellFormed /\ p.labels # <<>> /\ Len(p.labels) <= MaxLabels

ExtractQName(p) == FlattenSeq(p.labels)

(* Fault: answers pass as queries. *)
IsDNSQueryOrAnswer(p) == p.qdcount = 1 /\ QNameOk(p)

IsDNSQuery(p) == ~p.qr /\ p.qdcount = 1 /\ QNameOk(p)

NoBytes == "" \* an empty piece of a name

(* encodeQName and splitLabels: every piece but an empty one is a label. *)
EncodeQName(name) ==
  LET pieces == Picked(name, {i \in DOMAIN name : name[i] # NoBytes}) IN
  [i \in DOMAIN pieces |-> <<pieces[i]>>]

(* The question of the answer is of type A whatever was asked. *)
BuildDNSResponse(txid, qname, mode) ==
  [id |-> txid, qr |-> TRUE, rcode |-> IF mode = "blackhole" THEN 0 ELSE 3,
   qdcount |-> 1, labels |-> EncodeQName(qname), wellFormed |-> TRUE, qtype |-> "A",
   answer |-> IF mode = "blackhole" THEN <<"127.0.0.1">> ELSE <<>>]

(* SendDNSPoison: the server of the query answers its client. *)
SendDNSPoison(p, query, mode) ==
  [src |-> p.dst, dst |-> p.src, msg |-> BuildDNSResponse(p.msg.id, query, mode)]
=============================================================================
