-------------------------------- MODULE Orders --------------------------------
(* Sets of numbers in order, in a form that can be proved about (the sorting  *)
(* operators of SequencesExt are recursive).                                 *)
EXTENDS Integers, FiniteSets, Sequences

\* The members of a finite set of numbers in their order.
InOrder(S) ==
  CHOOSE s \in [1 .. Cardinality(S) -> S] : \A i, k \in DOMAIN s : i < k => s[i] < s[k]
=============================================================================
