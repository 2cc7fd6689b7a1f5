----------------------------- MODULE Subsequence ------------------------------
(***************************************************************************)
(* The part of a sequence that a loop keeps, as lists of the code are      *)
(* built by appending what passes a test.  SelectSeq says the same; this   *)
(* is written by positions because the provers know nothing of SelectSeq.  *)
(***************************************************************************)
EXTENDS Naturals, FiniteSets

(* The position of I that has k others before it *)
Nth(I, k) == CHOOSE i \in I : Cardinality({j \in I : j < i}) = k

(* The elements of s at the positions I, in their order *)
Picked(s, I) == [k \in 1..Cardinality(I) |-> s[Nth(I, k - 1)]]
=============================================================================
