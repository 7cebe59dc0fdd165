------------------------------ MODULE Ordering ------------------------------
(* ORDER BY over a column of numbers that has no two the same.              *)
EXTENDS Integers, FiniteSets

\* A set of numbers as a sequence, the least one first.
InOrder(S) ==
  CHOOSE s \in [1..Cardinality(S) -> S] : \A i, j \in DOMAIN s : i < j => s[i] < s[j]
=============================================================================
