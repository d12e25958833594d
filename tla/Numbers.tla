------------------------------- MODULE Numbers -------------------------------
(* Finite sets of numbers, in order.                                       *)
EXTENDS Integers, FiniteSets

(* The k-th smallest number of S.                                          *)
Nth(S, k) == CHOOSE i \in S : Cardinality({j \in S : j <= i}) = k

(* The numbers of S, each once, the smallest first.                        *)
Ascending(S) == [k \in 1 .. Cardinality(S) |-> Nth(S, k)]
=============================================================================
