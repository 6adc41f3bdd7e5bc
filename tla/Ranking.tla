------------------------------- MODULE Ranking -------------------------------
(***************************************************************************)
(* What sorted() makes of a set: the element that k - 1 others come before *)
(* is the kth.  Less is a strict order in which any two elements differ.   *)
(***************************************************************************)
EXTENDS Naturals, FiniteSets

Ranked(S, Less(_, _)) ==
  [k \in 1..Cardinality(S) |-> CHOOSE x \in S : Cardinality({y \in S : Less(y, x)}) = k - 1]
=============================================================================
