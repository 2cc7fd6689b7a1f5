----------------------------- MODULE MCTcpReset -----------------------------
(* Finite instance of TcpReset: an ordinary connection and one whose two   *)
(* ports are equal, sequence numbers modulo 8 around the wrap.             *)
EXTENDS TcpReset

E(i, p) == [ip |-> i, port |-> p]
S(q, a, n) == [seq |-> q, ack |-> a, len |-> n]
MCSegments == {S(7, 0, 1), S(6, 7, 1), S(0, 7, 0), S(0, 0, 0)}
MCConnections == {<<E(2, 4), E(1, 3)>>, <<E(1, 3), E(3, 3)>>}
=============================================================================
