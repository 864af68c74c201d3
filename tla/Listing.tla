------------------------------ MODULE Listing -------------------------------
(* Lists made of a set and an order on it: what a query returns ORDER BY,   *)
(* what a filter leaves of a list.  Without recursion, so that what they    *)
(* are made of can be proved.                                               *)
EXTENDS Naturals, Sequences, FiniteSets

\* The elements of S, each after those that are before it.
InOrder(S, before) ==
  [j \in 1 .. Cardinality(S) |->
     CHOOSE x \in S : Cardinality({y \in S : <<y, x>> \in before}) = j - 1]

\* What is left of s when only those places are kept.
Kept(s, places) ==
  LET list == InOrder(places, {p \in places \X places : p[1] < p[2]})
  IN [j \in 1 .. Cardinality(places) |-> s[list[j]]]
=============================================================================
