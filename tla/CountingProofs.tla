---------------------------- MODULE CountingProofs ----------------------------
(* Lemmas about finite sets, for those who count and add up: the least number,   *)
(* induction on the subsets of a set, sums over a set as a fold, and sorting by  *)
(* a strict total order.  A property to be shown by induction is given as the    *)
(* set of what has it.                                                           *)
EXTENDS Ranking, Functions, FiniteSetTheorems, SequenceTheorems, TLAPS

\* A set of numbers has a least one.
LEMMA LeastNumber ==
  ASSUME NEW T, T \subseteq Nat, T # {}
  PROVE  \E m \in T : \A n \in T : m <= n
<1> DEFINE R == OpToRel(<, Nat)
<1>1. \A m, n \in Nat : <<n, m>> \in R <=> n < m
  BY DEF OpToRel
<1>2. IsWellFoundedOn(R, Nat)
  BY NatLessThanWellFounded
<1> HIDE DEF R
<1>3. PICK m \in T : \A n \in T : ~(<<n, m>> \in R)
  BY <1>2, WFMin
<1>4. m \in Nat /\ \A n \in T : n \in Nat /\ ~(n < m)
  BY <1>1, <1>3
<1>5. \A n \in T : m <= n
  BY <1>4
<1> QED BY <1>5

\* The image of a finite set is finite and no larger.
LEMMA ImageFinite ==
  ASSUME NEW S, IsFiniteSet(S), NEW f, DOMAIN f = S
  PROVE  /\ IsFiniteSet({f[x] : x \in S})
         /\ Cardinality({f[x] : x \in S}) <= Cardinality(S)
         /\ (\A x, y \in S : f[x] = f[y] => x = y) => Cardinality({f[x] : x \in S}) = Cardinality(S)
<1> DEFINE T == {f[x] : x \in S}
           g == [x \in S |-> f[x]]
<1>1. g \in Surjection(S, T)
  BY DEF Surjection
<1>2. (\A x, y \in S : f[x] = f[y] => x = y) => g \in Injection(S, T)
  BY DEF Injection, IsInjective
<1> HIDE DEF g, T
<1>3. IsFiniteSet(T) /\ Cardinality(T) <= Cardinality(S) /\ (Cardinality(T) = Cardinality(S) <=> g \in Injection(S, T))
  BY <1>1, FS_Surjection
<1> QED BY <1>2, <1>3 DEF T

\* Disjoint sets have as many members together as one by one.
LEMMA DisjointUnion ==
  ASSUME NEW A, NEW B, IsFiniteSet(A), IsFiniteSet(B), A \cap B = {}
  PROVE  Cardinality(A \cup B) = Cardinality(A) + Cardinality(B)
<1>1. Cardinality(A \cup B) = Cardinality(A) + Cardinality(B) - Cardinality(A \cap B)
  BY FS_Union
<1>2. Cardinality(A \cap B) = 0
  BY FS_EmptySet
<1>3. Cardinality(A) \in Nat /\ Cardinality(B) \in Nat
  BY FS_CardinalityType
<1> QED BY <1>1, <1>2, <1>3

\* What the empty set has, and what a set has if it has it without some member of it,
\* every subset of a finite set has.
LEMMA SubsetInduction ==
  ASSUME NEW S, IsFiniteSet(S), NEW G, {} \in G,
         \A s \in SUBSET S : s # {} => \E x \in s : s \ {x} \in G => s \in G
  PROVE  \A s \in SUBSET S : s \in G
<1> DEFINE bad == {s \in SUBSET S : s \notin G}
           T == {Cardinality(s) : s \in bad}
<1> SUFFICES ASSUME bad # {} PROVE FALSE
  OBVIOUS
<1>1. \A s \in SUBSET S : IsFiniteSet(s) /\ Cardinality(s) \in Nat
  BY FS_Subset, FS_CardinalityType
<1>2. T \subseteq Nat /\ T # {}
  BY <1>1
<1>3. PICK m \in T : \A n \in T : m <= n
  <2> HIDE DEF T
  <2> QED BY <1>2, LeastNumber
<1>4. PICK s \in bad : Cardinality(s) = m
  BY <1>3
<1>5. PICK x \in s : s \ {x} \in G => s \in G
  BY <1>4
<1>6. IsFiniteSet(s) /\ Cardinality(s) \in Nat /\ s \ {x} \in SUBSET S
  BY <1>1, <1>4
<1>7. Cardinality(s \ {x}) = Cardinality(s) - 1
  BY <1>5, <1>6, FS_RemoveElement
<1>8. s \ {x} \in G
  <2>1. SUFFICES ASSUME s \ {x} \notin G PROVE FALSE
    OBVIOUS
  <2>2. Cardinality(s) - 1 \in T
    BY <1>6, <1>7, <2>1
  <2>3. Cardinality(s) <= Cardinality(s) - 1
    BY <1>3, <1>4, <2>2
  <2> QED BY <1>6, <2>3
<1>9. s \in G
  BY <1>4, <1>5, <1>8
<1> QED BY <1>4, <1>9

-------------------------------------------------------------------------------
(* Folds.  The library folds over a set by taking some member out, folding over  *)
(* the rest and adding the member to that.                                       *)

Some(s) == CHOOSE x \in s : TRUE

IsFold(g, S, R, base, add) ==
  /\ g \in [SUBSET S -> R]
  /\ \A s \in SUBSET S : g[s] = IF s = {} THEN base ELSE add[<<Some(s), g[s \ {Some(s)}]>>]

\* There is a function that folds every subset of a finite set.
LEMMA FoldExists ==
  ASSUME NEW S, IsFiniteSet(S), NEW R, NEW base \in R, NEW add \in [S \X R -> R]
  PROVE  \E g : IsFold(g, S, R, base, add)
<1> DEFINE Small(m) == {s \in SUBSET S : Cardinality(s) <= m}
           Folds(g, m) ==
             \A s \in Small(m) : g[s] = IF s = {} THEN base ELSE add[<<Some(s), g[s \ {Some(s)}]>>]
           Good == {m \in Nat : \E g \in [Small(m) -> R] : Folds(g, m)}
<1>1. \A s \in SUBSET S : IsFiniteSet(s) /\ Cardinality(s) \in Nat /\ Cardinality(s) <= Cardinality(S)
  BY FS_Subset, FS_CardinalityType
<1>2. \A s \in SUBSET S :
        s # {} => /\ Some(s) \in s /\ s \ {Some(s)} \in SUBSET S
                  /\ Cardinality(s \ {Some(s)}) = Cardinality(s) - 1
  <2> SUFFICES ASSUME NEW s \in SUBSET S, s # {}
               PROVE  /\ Some(s) \in s /\ s \ {Some(s)} \in SUBSET S
                      /\ Cardinality(s \ {Some(s)}) = Cardinality(s) - 1
    OBVIOUS
  <2>1. Some(s) \in s
    BY DEF Some
  <2> QED BY <1>1, <2>1, FS_RemoveElement
<1>3. 0 \in Good
  <2> DEFINE g == [s \in Small(0) |-> base]
  <2>1. \A s \in Small(0) : s = {}
    BY <1>1, FS_EmptySet
  <2>2. g \in [Small(0) -> R] /\ Folds(g, 0)
    BY <2>1
  <2> QED BY <2>2
<1>4. ASSUME NEW m \in Nat, m \in Good PROVE m + 1 \in Good
  <2>1. PICK g \in [Small(m) -> R] : Folds(g, m)
    BY <1>4
  <2> DEFINE h == [s \in Small(m + 1) |-> IF s = {} THEN base ELSE add[<<Some(s), g[s \ {Some(s)}]>>]]
  <2>2. \A s \in Small(m + 1) : s # {} => s \ {Some(s)} \in Small(m) /\ Some(s) \in S
    BY <1>1, <1>2
  <2>3. Small(m) \subseteq Small(m + 1) /\ \A s \in Small(m) : h[s] = g[s]
    <3>1. Small(m) \subseteq Small(m + 1)
      BY <1>1
    <3> QED BY <2>1, <3>1
  <2>4. h \in [Small(m + 1) -> R]
    BY <2>2
  <2>5. Folds(h, m + 1)
    <3> SUFFICES ASSUME NEW s \in Small(m + 1)
                 PROVE  h[s] = IF s = {} THEN base ELSE add[<<Some(s), h[s \ {Some(s)}]>>]
      OBVIOUS
    <3>1. h[s] = IF s = {} THEN base ELSE add[<<Some(s), g[s \ {Some(s)}]>>]
      OBVIOUS
    <3>2. s # {} => h[s \ {Some(s)}] = g[s \ {Some(s)}]
      BY <2>2, <2>3
    <3> QED BY <3>1, <3>2
  <2>6. \E k \in [Small(m + 1) -> R] : Folds(k, m + 1)
    <3> HIDE DEF h, Small, Folds
    <3> QED BY <2>4, <2>5
  <2> HIDE DEF Small, Folds
  <2> QED BY <2>6
<1>5. Cardinality(S) \in Good
  <2> DEFINE T == Nat \ Good
  <2> HIDE DEF Good
  <2> SUFFICES ASSUME T # {} PROVE FALSE
    BY FS_CardinalityType
  <2>1. PICK m \in T : \A n \in T : m <= n
    <3> HIDE DEF T
    <3>1. T \subseteq Nat
      BY DEF T
    <3> QED BY <3>1, LeastNumber
  <2>2. m \in Nat /\ m # 0
    BY <1>3, <2>1
  <2>3. m - 1 \in Nat /\ m - 1 \in Good
    BY <2>1, <2>2
  <2> QED BY <1>4, <2>1, <2>2, <2>3
<1>6. Small(Cardinality(S)) = SUBSET S
  BY <1>1
<1>7. PICK g \in [SUBSET S -> R] : Folds(g, Cardinality(S))
  BY <1>5, <1>6
<1> QED BY <1>6, <1>7 DEF IsFold

IsSum(g, f) ==
  /\ g \in [SUBSET DOMAIN f -> Nat] /\ g[DOMAIN f] = SumFunction(f) /\ g[{}] = 0
  /\ \A s \in SUBSET DOMAIN f : s # {} => \E x \in s : g[s] = f[x] + g[s \ {x}]

\* A sum over a function adds its values up one by one, whatever the order.
LEMMA SumFits ==
  ASSUME NEW f, IsFiniteSet(DOMAIN f), f \in [DOMAIN f -> Nat]
  PROVE  \E g : IsSum(g, f)
<1> DEFINE S == DOMAIN f
           add == [p \in S \X Nat |-> f[p[1]] + p[2]]
           Fold(g) == g = [s \in SUBSET S |-> IF s = {} THEN 0 ELSE f[Some(s)] + g[s \ {Some(s)}]]
           sum == CHOOSE g : Fold(g)
<1>1. \A s \in SUBSET S : s # {} => Some(s) \in s
  BY DEF Some
<1>2. \E g \in [SUBSET S -> Nat] : Fold(g)
  <2>1. add \in [S \X Nat -> Nat]
    OBVIOUS
  <2>2. \A x \in S, n \in Nat : add[<<x, n>>] = f[x] + n
    OBVIOUS
  <2>3. IsFiniteSet(S) /\ 0 \in Nat
    OBVIOUS
  <2> HIDE DEF add, S
  <2>4. PICK g : IsFold(g, S, Nat, 0, add)
    BY <2>1, <2>3, FoldExists
  <2>5. \A s \in SUBSET S : s # {} => add[<<Some(s), g[s \ {Some(s)}]>>] = f[Some(s)] + g[s \ {Some(s)}]
    BY <1>1, <2>2, <2>4 DEF IsFold
  <2>6. Fold(g)
    BY <2>4, <2>5 DEF IsFold
  <2> QED BY <2>4, <2>6 DEF IsFold
<1>3. Fold(sum)
  BY <1>2
<1>4. SumFunction(f) = sum[S]
  BY Zenon DEF SumFunction, SumFunctionOnSet, FoldFunctionOnSet, MapThenFoldSet, Some
<1> HIDE DEF sum
<1>5. /\ sum[{}] = 0
      /\ \A s \in SUBSET S : s # {} => sum[s] = f[Some(s)] + sum[s \ {Some(s)}]
  BY <1>3
<1>6. \A s \in SUBSET S : s \in {t \in SUBSET S : sum[t] \in Nat}
  <2> DEFINE G == {t \in SUBSET S : sum[t] \in Nat}
  <2>1. {} \in G
    BY <1>5
  <2>2. ASSUME NEW s \in SUBSET S, s # {} PROVE \E x \in s : s \ {x} \in G => s \in G
    <3>1. Some(s) \in s
      BY <1>1, <2>2
    <3>2. s \ {Some(s)} \in SUBSET S /\ f[Some(s)] \in Nat
      BY <3>1
    <3>3. sum[s] = f[Some(s)] + sum[s \ {Some(s)}]
      BY <1>5, <2>2
    <3>4. s \ {Some(s)} \in G => s \in G
      BY <3>2, <3>3
    <3> QED BY <3>1, <3>4
  <2> HIDE DEF G
  <2>3. \A s \in SUBSET S : s \in G
    BY <2>1, <2>2, SubsetInduction
  <2> QED BY <2>3 DEF G
<1>7. sum \in [SUBSET S -> Nat]
  BY <1>3, <1>6
<1>8. \A s \in SUBSET S : s # {} => \E x \in s : sum[s] = f[x] + sum[s \ {x}]
  BY <1>1, <1>5
<1>9. IsSum(sum, f)
  BY <1>4, <1>5, <1>7, <1>8 DEF IsSum
<1> QED BY <1>9

-------------------------------------------------------------------------------
(* Sorting by a strict total order. *)

StrictTotal(S, before) ==
  /\ \A x \in S : <<x, x>> \notin before
  /\ \A x, y, z \in S : <<x, y>> \in before /\ <<y, z>> \in before => <<x, z>> \in before
  /\ \A x, y \in S : x = y \/ <<x, y>> \in before \/ <<y, x>> \in before

\* Who is below a member is counted, and the member is not below itself.
LEMMA BelowCounts ==
  ASSUME NEW S, IsFiniteSet(S), NEW before, StrictTotal(S, before), NEW x \in S
  PROVE  /\ IsFiniteSet(Below(S, before, x)) /\ Cardinality(Below(S, before, x)) \in Nat
         /\ Cardinality(Below(S, before, x)) < Cardinality(S)
<1> DEFINE B == Below(S, before, x)
<1>1. B \subseteq S /\ x \notin B
  BY DEF Below, StrictTotal
<1>2. IsFiniteSet(B) /\ Cardinality(B) <= Cardinality(S) /\ (Cardinality(B) = Cardinality(S) => B = S)
  BY <1>1, FS_Subset
<1>3. Cardinality(B) \in Nat /\ Cardinality(S) \in Nat
  BY <1>2, FS_CardinalityType
<1>4. Cardinality(B) # Cardinality(S)
  BY <1>1, <1>2
<1> HIDE DEF B
<1>5. Cardinality(B) < Cardinality(S)
  BY <1>2, <1>3, <1>4
<1> QED BY <1>2, <1>3, <1>5 DEF B

\* More is below a member than below what comes before it.
LEMMA BelowGrows ==
  ASSUME NEW S, IsFiniteSet(S), NEW before, StrictTotal(S, before), NEW x \in S, NEW y \in S,
         <<x, y>> \in before
  PROVE  Cardinality(Below(S, before, x)) < Cardinality(Below(S, before, y))
<1> DEFINE B == Below(S, before, x)
           C == Below(S, before, y)
<1>1. B \subseteq C /\ x \in C /\ x \notin B
  BY DEF Below, StrictTotal
<1>2. IsFiniteSet(C) /\ Cardinality(B) \in Nat /\ Cardinality(C) \in Nat
  BY BelowCounts
<1>3. Cardinality(B) <= Cardinality(C) /\ (Cardinality(B) = Cardinality(C) => B = C)
  BY <1>1, <1>2, FS_Subset
<1>4. Cardinality(B) # Cardinality(C)
  BY <1>1, <1>3
<1> HIDE DEF B, C
<1>5. Cardinality(B) < Cardinality(C)
  BY <1>2, <1>3, <1>4
<1> QED BY <1>5 DEF B, C

\* Each place is taken, by exactly one member.
LEMMA PlacesTaken ==
  ASSUME NEW S, IsFiniteSet(S), NEW before, StrictTotal(S, before), NEW i \in 1 .. Cardinality(S)
  PROVE  \E x \in S : Cardinality(Below(S, before, x)) = i - 1
<1> DEFINE n == Cardinality(S)
           place == [x \in S |-> Cardinality(Below(S, before, x))]
           T == {place[x] : x \in S}
<1>1. n \in Nat
  BY FS_CardinalityType
<1>2. \A x \in S : place[x] \in Nat /\ place[x] < n
  BY BelowCounts
<1>3. \A x, y \in S : x # y => place[x] # place[y]
  <2> SUFFICES ASSUME NEW x \in S, NEW y \in S, x # y PROVE place[x] # place[y]
    OBVIOUS
  <2>1. CASE <<x, y>> \in before
    BY <1>2, <2>1, BelowGrows
  <2>2. CASE <<y, x>> \in before
    BY <1>2, <2>2, BelowGrows
  <2> QED BY <2>1, <2>2 DEF StrictTotal
<1> HIDE DEF n
<1>4. place \in Bijection(S, T)
  BY <1>3 DEF Bijection, Injection, Surjection, IsInjective
<1>5. IsFiniteSet(T) /\ Cardinality(T) = n
  <2> HIDE DEF T, place
  <2>1. ExistsBijection(S, T)
    BY <1>4 DEF ExistsBijection
  <2> QED BY <2>1, FS_Bijection DEF n
<1>6. T \subseteq 0 .. n - 1
  BY <1>1, <1>2
<1>7. IsFiniteSet(0 .. n - 1) /\ Cardinality(0 .. n - 1) = n
  <2>1. IsFiniteSet(0 .. n - 1) /\ Cardinality(0 .. n - 1) = IF 0 > n - 1 THEN 0 ELSE (n - 1) - 0 + 1
    BY <1>1, FS_Interval
  <2> QED BY <1>1, <2>1
<1>8. T = 0 .. n - 1
  <2> HIDE DEF T
  <2> QED BY <1>5, <1>6, <1>7, FS_Subset
<1>9. i - 1 \in T
  <2>1. i \in 1 .. n
    BY DEF n
  <2> HIDE DEF T
  <2> QED BY <1>1, <1>8, <2>1
<1> QED BY <1>9

\* Sorting gives each member once, in its order.
LEMMA SortedFits ==
  ASSUME NEW S, IsFiniteSet(S), NEW before, StrictTotal(S, before)
  PROVE  /\ Sorted(S, before) \in Seq(S) /\ Len(Sorted(S, before)) = Cardinality(S)
         /\ \A i \in 1 .. Cardinality(S) :
              /\ Sorted(S, before)[i] \in S
              /\ Cardinality(Below(S, before, Sorted(S, before)[i])) = i - 1
         /\ \A x \in S : \E i \in 1 .. Cardinality(S) : Sorted(S, before)[i] = x
         /\ \A i, j \in 1 .. Cardinality(S) :
              i < j => <<Sorted(S, before)[i], Sorted(S, before)[j]>> \in before
<1> DEFINE s == Sorted(S, before)
           n == Cardinality(S)
<1>1. n \in Nat
  BY FS_CardinalityType
<1>2. \A i \in 1 .. n : s[i] \in S /\ Cardinality(Below(S, before, s[i])) = i - 1
  BY PlacesTaken DEF Sorted
<1>3. s \in Seq(S) /\ Len(s) = n
  <2>1. s = [i \in 1 .. n |-> s[i]]
    BY DEF Sorted
  <2> HIDE DEF s, n
  <2> QED BY <1>1, <1>2, <2>1
<1>4. \A x \in S : \E i \in 1 .. n : s[i] = x
  <2> SUFFICES ASSUME NEW x \in S PROVE \E i \in 1 .. n : s[i] = x
    OBVIOUS
  <2> DEFINE i == Cardinality(Below(S, before, x)) + 1
  <2>1. i \in 1 .. n /\ i - 1 = Cardinality(Below(S, before, x))
    BY <1>1, BelowCounts
  <2> HIDE DEF i, s, n
  <2>2. s[i] \in S /\ Cardinality(Below(S, before, s[i])) = Cardinality(Below(S, before, x))
    BY <1>2, <2>1
  <2>3. Cardinality(Below(S, before, x)) \in Nat /\ Cardinality(Below(S, before, s[i])) \in Nat
    BY <2>2, BelowCounts
  <2>4. ~(<<s[i], x>> \in before) /\ ~(<<x, s[i]>> \in before)
    BY <2>2, <2>3, BelowGrows
  <2>5. s[i] = x
    BY <2>2, <2>4 DEF StrictTotal
  <2> QED BY <2>1, <2>5
<1>5. ASSUME NEW i \in 1 .. n, NEW j \in 1 .. n, i < j
      PROVE  <<s[i], s[j]>> \in before
  <2> HIDE DEF s, n
  <2>1. s[i] \in S /\ s[j] \in S /\ Cardinality(Below(S, before, s[i])) < Cardinality(Below(S, before, s[j]))
    BY <1>1, <1>2, <1>5
  <2>2. s[i] # s[j] /\ ~(<<s[j], s[i]>> \in before)
    <3>1. Cardinality(Below(S, before, s[i])) \in Nat /\ Cardinality(Below(S, before, s[j])) \in Nat
      BY <2>1, BelowCounts
    <3>2. <<s[j], s[i]>> \in before => Cardinality(Below(S, before, s[j])) < Cardinality(Below(S, before, s[i]))
      BY <2>1, BelowGrows
    <3> QED BY <2>1, <3>1, <3>2
  <2> QED BY <2>1, <2>2 DEF StrictTotal
<1> QED BY <1>2, <1>3, <1>4, <1>5

\* What is cut off at k.
LEMMA FirstFits ==
  ASSUME NEW S, NEW ranked \in Seq(S), NEW k \in Nat
  PROVE  LET m == IF k < Len(ranked) THEN k ELSE Len(ranked)
         IN /\ FirstOf(ranked, k) \in Seq(S) /\ Len(FirstOf(ranked, k)) = m
            /\ m \in Nat /\ m <= Len(ranked) /\ DOMAIN FirstOf(ranked, k) = 1 .. m
            /\ \A i \in 1 .. m : FirstOf(ranked, k)[i] = ranked[i]
<1> DEFINE m == IF k < Len(ranked) THEN k ELSE Len(ranked)
<1>1. Len(ranked) \in Nat /\ m \in Nat /\ m <= Len(ranked) /\ m <= k
  BY LenProperties
<1>2. FirstOf(ranked, k) = SubSeq(ranked, 1, m)
  BY DEF FirstOf
<1> HIDE DEF m
<1>3. SubSeq(ranked, 1, m) = [i \in 1 .. m |-> ranked[i]]
  BY <1>1
<1>4. [i \in 1 .. m |-> ranked[i]] \in Seq(S)
  BY <1>1, LenProperties
<1>5. FirstOf(ranked, k) \in Seq(S) /\ Len(FirstOf(ranked, k)) = m /\ DOMAIN FirstOf(ranked, k) = 1 .. m
      /\ \A i \in 1 .. m : FirstOf(ranked, k)[i] = ranked[i]
  BY <1>1, <1>2, <1>3, <1>4
<1> QED BY <1>1, <1>5 DEF m
================================================================================
