-------------------------------- MODULE Ranking --------------------------------
(* What sorting by a strict total order gives.  The order is a set of pairs, with *)
(* which it can be reasoned about; the sorting operators of the library cannot.    *)
EXTENDS Integers, Sequences, FiniteSets

\* What comes before x in S.
Below(S, before, x) == {y \in S : <<y, x>> \in before}

\* sorted(): each member stands behind all those that come before it.
Sorted(S, before) ==
  [i \in 1 .. Cardinality(S) |-> CHOOSE x \in S : Cardinality(Below(S, before, x)) = i - 1]

\* ranked[:k].
FirstOf(ranked, k) == SubSeq(ranked, 1, IF k < Len(ranked) THEN k ELSE Len(ranked))
================================================================================
