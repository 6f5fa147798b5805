------------------------------- MODULE Agreement -------------------------------
(* Cohen's kappa over a pool of items that judges labelled (compute_iaa.py).    *)
(* An item is a function from the judges who labelled it to their labels; a     *)
(* fraction is exact, with a numerator and a positive denominator, where the    *)
(* code rounds to four places.                                                  *)
EXTENDS Integers, Sequences, FiniteSets, FiniteSetsExt, Functions

Undefined == [num |-> 0, den |-> 0]
Plus(x, y) == [num |-> x.num * y.den + y.num * x.den, den |-> x.den * y.den]

JudgesInPool(pool) == UNION {DOMAIN item : item \in Range(pool)}

\* Mutant of AlignedLabels: an item that only the first judge has is taken as agreed on.
AlignedWithGaps(pool, a, b) ==
  [i \in {j \in DOMAIN pool : a \in DOMAIN pool[j]} |->
    <<pool[i][a], IF b \in DOMAIN pool[i] THEN pool[i][b] ELSE pool[i][a]>>]

\* aligned_labels: the two labels of every item that both labelled, by its place in the pool.
AlignedLabels(pool, a, b) ==
  [i \in {j \in DOMAIN pool : {a, b} \subseteq DOMAIN pool[j]} |-> <<pool[i][a], pool[i][b]>>]

\* How often the judge in this column gave the label.
CountOf(labels, column, c) == Cardinality({i \in DOMAIN labels : labels[i][column] = c})

\* cohen_kappa.  With n items, observed agreement is agree / n and the expected one
\* chance / n^2; kappa is undefined without items and where chance alone explains all.
CohenKappa(labels) ==
  LET n == Cardinality(DOMAIN labels)
      categories == {labels[i][1] : i \in DOMAIN labels} \cup {labels[i][2] : i \in DOMAIN labels}
      agree == Cardinality({i \in DOMAIN labels : labels[i][1] = labels[i][2]})
      chance == SumFunction([c \in categories |-> CountOf(labels, 1, c) * CountOf(labels, 2, c)])
  IN IF chance = n * n THEN Undefined
     ELSE [num |-> n * agree - chance, den |-> n * n - chance]

\* pairwise_kappa: the pairs of judges for whom it is defined.
Pairs(pool) == kSubset(2, JudgesInPool(pool))
PairKappa(pool, pair) ==
  LET a == CHOOSE j \in pair : TRUE
      b == CHOOSE j \in pair : j # a
  IN CohenKappa(AlignedLabels(pool, a, b))

\* overall_kappa: the mean over the pairs that have one.
OverallKappa(pool) ==
  LET defined == {p \in Pairs(pool) : PairKappa(pool, p) # Undefined}
      total == FoldFunction(Plus, [num |-> 0, den |-> 1], [p \in defined |-> PairKappa(pool, p)])
  IN IF defined = {} THEN Undefined
     ELSE [num |-> total.num, den |-> total.den * Cardinality(defined)]
================================================================================
