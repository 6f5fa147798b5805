---------------------------- MODULE BenchmarkProofs ----------------------------
(* Proofs about Benchmark, for any number of traditions, any corpora, fixtures    *)
(* and configurations: what is measured is the ranking of the whole corpus, the   *)
(* measures mean what they say, and so does a disclosed agreement of judges.      *)
EXTENDS Benchmark, CountingProofs, TLAPS

\* The order of a ranking by the scores v, and what the first k of it are.
Order(v, S) == {p \in S \X S : Precedes(p[1], v[p[1]], p[2], v[p[2]])}
Ahead(v, x) == {r \in CorpusRecords : Precedes(r, v[r], x, v[x])}
Wanted(k) == IF k < Cardinality(CorpusRecords) THEN k ELSE Cardinality(CorpusRecords)

IsTop(ranked, v, k) ==
  /\ ranked \in Seq(CorpusRecords) /\ Len(ranked) = Wanted(k)
  /\ \A p \in 1 .. Len(ranked) : Cardinality(Ahead(v, ranked[p])) = p - 1

Scores == [CorpusRecords -> Nat]
------------------------------------------------------------------------------
(* The corpus.                                                               *)

LEMMA LinesFit ==
  ASSUME bench \in Benches, NEW t \in Traditions, NEW query
  PROVE  /\ IsFiniteSet(In(t)!Entries) /\ Cardinality(In(t)!Entries) \in Nat
         /\ \A n \in In(t)!Entries : n \in Nat \ {0} /\ In(t)!Score(query, n) \in Nat
<1> DEFINE lines == bench.corpus[t]
<1>1. lines \in Seq(Range(lines)) /\ \A line \in Range(lines) : IsFiniteSet(line.haystack)
  BY BenchAssumption
<1>2. DOMAIN lines = 1 .. Len(lines) /\ Len(lines) \in Nat
  <2> HIDE DEF lines
  <2> QED BY <1>1, LenProperties
<1>3. IsFiniteSet(1 .. Len(lines))
  BY <1>2, FS_Interval
<1>4. In(t)!Entries \subseteq 1 .. Len(lines)
  BY <1>2 DEF In!Entries
<1>5. IsFiniteSet(In(t)!Entries) /\ Cardinality(In(t)!Entries) \in Nat
  BY <1>3, <1>4, FS_Subset, FS_CardinalityType
<1>6. ASSUME NEW n \in In(t)!Entries PROVE In(t)!Score(query, n) \in Nat
  <2>1. IsFiniteSet(lines[n].haystack)
    BY <1>1, <1>2, <1>4 DEF Range
  <2>2. \A S : Cardinality(S \cap lines[n].haystack) \in Nat
    BY <2>1, FS_Intersection, FS_CardinalityType
  <2>3. /\ Cardinality(query.long \cap lines[n].haystack) \in Nat
        /\ Cardinality(query.short \cap lines[n].haystack) \in Nat
    BY <2>2
  <2>4. \A S : In(t)!Cardinality(S) = Cardinality(S)
    BY DEF In!Cardinality, Cardinality
  <2> QED BY <2>3, <2>4 DEF In!Score
<1> QED BY <1>2, <1>4, <1>5, <1>6

LEMMA CorpusFits ==
  ASSUME bench \in Benches
  PROVE  /\ IsFiniteSet(CorpusRecords) /\ Cardinality(CorpusRecords) \in Nat
         /\ \A r : r \in CorpusRecords <=>
              \E t \in Traditions : \E n \in In(t)!Entries : r = <<t, n>>
         /\ \A r \in CorpusRecords : r = <<r[1], r[2]>> /\ r[1] \in Nat /\ r[2] \in Nat
<1> DEFINE Part(t) == {<<t, n>> : n \in In(t)!Entries}
           f == [t \in Traditions |-> Part(t)]
<1>1. \A t \in Traditions : IsFiniteSet(Part(t))
  <2> SUFFICES ASSUME NEW t \in Traditions PROVE IsFiniteSet(Part(t))
    OBVIOUS
  <2> DEFINE g == [n \in In(t)!Entries |-> <<t, n>>]
  <2>1. Part(t) = {g[n] : n \in In(t)!Entries} /\ DOMAIN g = In(t)!Entries
    OBVIOUS
  <2>2. IsFiniteSet(In(t)!Entries)
    BY LinesFit
  <2> HIDE DEF g, Part
  <2> QED BY <2>1, <2>2, ImageFinite
<1>2. CorpusRecords = UNION {f[t] : t \in Traditions}
  BY DEF CorpusRecords
<1>3. IsFiniteSet({f[t] : t \in Traditions})
  <2>1. DOMAIN f = Traditions
    OBVIOUS
  <2> HIDE DEF f
  <2> QED BY <2>1, TraditionAssumption, ImageFinite
<1>4. \A T \in {f[t] : t \in Traditions} : IsFiniteSet(T)
  BY <1>1
<1>5. IsFiniteSet(CorpusRecords)
  <2> HIDE DEF f
  <2> QED BY <1>2, <1>3, <1>4, FS_UNION
<1>6. \A r : r \in CorpusRecords <=> \E t \in Traditions : \E n \in In(t)!Entries : r = <<t, n>>
  BY DEF CorpusRecords
<1>7. \A r \in CorpusRecords : r = <<r[1], r[2]>> /\ r[1] \in Nat /\ r[2] \in Nat
  <2> SUFFICES ASSUME NEW r \in CorpusRecords PROVE r = <<r[1], r[2]>> /\ r[1] \in Nat /\ r[2] \in Nat
    OBVIOUS
  <2>0. PICK t \in Traditions : \E n \in In(t)!Entries : r = <<t, n>>
    BY <1>6
  <2>1. PICK n \in In(t)!Entries : r = <<t, n>>
    BY <2>0
  <2>2. t \in Nat /\ n \in Nat
    BY <2>1, LinesFit, TraditionAssumption
  <2> QED BY <2>1, <2>2
<1> QED BY <1>5, <1>6, <1>7, FS_CardinalityType

\* Both scores are numbers.
LEMMA ScoresFit ==
  ASSUME bench \in Benches
  PROVE  /\ \A query : [r \in CorpusRecords |-> LexicalScore(query, r)] \in Scores
         /\ \A i \in DOMAIN bench.queries : [r \in CorpusRecords |-> Bm25Score(i, r)] \in Scores
<1>1. ASSUME NEW query, NEW r \in CorpusRecords PROVE LexicalScore(query, r) \in Nat
  <2>0. PICK t \in Traditions : \E n \in In(t)!Entries : r = <<t, n>>
    BY CorpusFits
  <2>1. PICK n \in In(t)!Entries : r = <<t, n>>
    BY <2>0
  <2>2. In(t)!Score(query, n) \in Nat
    BY LinesFit
  <2>3. r[1] = t /\ r[2] = n
    BY <2>1
  <2> QED BY <2>2, <2>3 DEF LexicalScore
<1>2. ASSUME NEW i \in DOMAIN bench.queries, NEW r \in CorpusRecords PROVE Bm25Score(i, r) \in Nat
  <2>0. PICK t \in Traditions : \E n \in In(t)!Entries : r = <<t, n>>
    BY CorpusFits
  <2>1. PICK n \in In(t)!Entries : r = <<t, n>>
    BY <2>0
  <2>2. n \in DOMAIN bench.corpus[t] /\ bench.corpus[t][n].entry
    BY DEF In!Entries
  <2>3. bench.bm25[i][<<t, bench.corpus[t][n].place>>] \in Nat
    BY <2>2, BenchAssumption DEF Range
  <2> QED BY <2>1, <2>3 DEF Bm25Score, RecordKey
<1> QED BY <1>1, <1>2 DEF Scores

\* The order is total: two records of one score are not at one line of one tradition.
LEMMA OrderTotal ==
  ASSUME bench \in Benches, NEW v \in Scores, NEW S, S \subseteq CorpusRecords
  PROVE  StrictTotal(S, Order(v, S))
<1>1. \A r \in S : r = <<r[1], r[2]>> /\ r[1] \in Nat /\ r[2] \in Nat /\ v[r] \in Nat
  BY CorpusFits DEF Scores
<1>2. \A x, y \in S : <<x, y>> \in Order(v, S) <=> Precedes(x, v[x], y, v[y])
  BY DEF Order
<1>3. \A x \in S : ~Precedes(x, v[x], x, v[x])
  BY <1>1 DEF Precedes
<1>4. ASSUME NEW x \in S, NEW y \in S, NEW z \in S, Precedes(x, v[x], y, v[y]), Precedes(y, v[y], z, v[z])
      PROVE  Precedes(x, v[x], z, v[z])
  BY <1>1, <1>4 DEF Precedes
<1>5. ASSUME NEW x \in S, NEW y \in S, ~Precedes(x, v[x], y, v[y]), ~Precedes(y, v[y], x, v[x])
      PROVE  x = y
  BY <1>1, <1>5 DEF Precedes
<1> QED BY <1>2, <1>3, <1>4, <1>5 DEF StrictTotal
------------------------------------------------------------------------------
(* Rankings of the whole corpus from rankings of its parts.                  *)

\* It is enough to sort some of the corpus, if k of them are ahead of whatever is left out.
LEMMA SortedIsTop ==
  ASSUME bench \in Benches, NEW v \in Scores, NEW k \in Nat, NEW C, C \subseteq CorpusRecords,
         \A y \in CorpusRecords \ C :
           \E K : K \subseteq C /\ Cardinality(K) >= k /\ \A x \in K : Precedes(x, v[x], y, v[y])
  PROVE  IsTop(FirstOf(Sorted(C, Order(v, C)), k), v, k)
<1> DEFINE R == CorpusRecords
           before == Order(v, C)
           s == Sorted(C, before)
           ranked == FirstOf(s, k)
<1>1. IsFiniteSet(R) /\ Cardinality(R) \in Nat /\ IsFiniteSet(C) /\ Cardinality(C) \in Nat
      /\ Cardinality(C) <= Cardinality(R) /\ (Cardinality(C) = Cardinality(R) => C = R)
  BY CorpusFits, FS_Subset, FS_CardinalityType
<1>2. StrictTotal(C, before) /\ StrictTotal(R, Order(v, R))
  BY OrderTotal
<1>3. /\ s \in Seq(C) /\ Len(s) = Cardinality(C)
      /\ \A p \in 1 .. Cardinality(C) : s[p] \in C /\ Cardinality(Below(C, before, s[p])) = p - 1
  <2> HIDE DEF before
  <2> QED BY <1>1, <1>2, SortedFits
<1>4. \A p \in 1 .. Cardinality(C) : IsFiniteSet(Below(C, before, s[p]))
  <2> HIDE DEF before, s
  <2> QED BY <1>1, <1>2, <1>3, BelowCounts
<1>5. \A K : K \subseteq C => IsFiniteSet(K) /\ Cardinality(K) \in Nat /\ Cardinality(K) <= Cardinality(C)
  BY <1>1, FS_Subset, FS_CardinalityType
<1>6. /\ ranked \in Seq(C)
      /\ LET m == IF k < Cardinality(C) THEN k ELSE Cardinality(C)
         IN Len(ranked) = m /\ \A p \in 1 .. m : ranked[p] = s[p]
  <2> HIDE DEF s
  <2> QED BY <1>3, FirstFits
<1>7. Cardinality(C) < k => C = R
  <2> SUFFICES ASSUME Cardinality(C) < k, NEW y \in R \ C PROVE FALSE
    BY <1>1
  <2>1. PICK K : K \subseteq C /\ Cardinality(K) >= k
    OBVIOUS
  <2>2. Cardinality(K) \in Nat /\ Cardinality(K) <= Cardinality(C)
    BY <1>5, <2>1
  <2> QED BY <1>1, <2>1, <2>2
<1>8. Len(ranked) = Wanted(k)
  <2> HIDE DEF ranked
  <2> QED BY <1>1, <1>6, <1>7 DEF Wanted
<1>9. ASSUME NEW p \in 1 .. Len(ranked)
      PROVE  Cardinality(Ahead(v, ranked[p])) = p - 1
  <2>1. p \in 1 .. Cardinality(C) /\ p \in Nat /\ p <= k /\ ranked[p] = s[p] /\ s[p] \in C
    <3> HIDE DEF ranked, s
    <3> QED BY <1>1, <1>3, <1>6, <1>9
  <2>2. Cardinality(Below(C, before, s[p])) = p - 1 /\ IsFiniteSet(Below(C, before, s[p]))
    BY <1>3, <1>4, <2>1
  <2>3. Below(C, before, s[p]) = {r \in C : Precedes(r, v[r], s[p], v[s[p]])}
    <3> HIDE DEF s
    <3> QED BY <2>1 DEF Below, Order
  <2>4. ASSUME NEW y \in R \ C, Precedes(y, v[y], s[p], v[s[p]]) PROVE FALSE
    <3>1. PICK K : K \subseteq C /\ Cardinality(K) >= k /\ \A x \in K : Precedes(x, v[x], y, v[y])
      OBVIOUS
    <3> HIDE DEF s
    <3>2. \A x \in K : Precedes(x, v[x], s[p], v[s[p]])
      <4> SUFFICES ASSUME NEW x \in K PROVE Precedes(x, v[x], s[p], v[s[p]])
        OBVIOUS
      <4>1. x \in R /\ y \in R /\ s[p] \in R
        BY <2>1, <3>1
      <4>2. <<x, y>> \in Order(v, R) /\ <<y, s[p]>> \in Order(v, R)
        BY <2>4, <3>1, <4>1 DEF Order
      <4>3. <<x, s[p]>> \in Order(v, R)
        BY <1>2, <4>1, <4>2 DEF StrictTotal
      <4> QED BY <4>1, <4>3 DEF Order
    <3>3. K \subseteq Below(C, before, s[p])
      BY <2>3, <3>1, <3>2
    <3>4. Cardinality(K) <= p - 1
      BY <2>2, <3>3, FS_Subset
    <3>5. Cardinality(K) \in Nat
      BY <1>5, <3>1
    <3> QED BY <2>1, <3>1, <3>4, <3>5
  <2>5. Ahead(v, s[p]) = Below(C, before, s[p])
    <3> HIDE DEF s
    <3> QED BY <2>3, <2>4 DEF Ahead
  <2> QED BY <2>1, <2>2, <2>5
<1>10. ranked \in Seq(R)
  <2> HIDE DEF ranked
  <2> QED BY <1>6
<1> HIDE DEF ranked
<1>11. IsTop(ranked, v, k)
  BY <1>8, <1>9, <1>10 DEF IsTop
<1> QED BY <1>11 DEF ranked

\* What a tradition leaves out has k lines of that tradition ahead of it.
LEMMA CandidatesFit ==
  ASSUME bench \in Benches, NEW query, NEW k \in Nat
  PROVE  /\ Candidates(query, k) \subseteq CorpusRecords
         /\ \A y \in CorpusRecords \ Candidates(query, k) :
              \E K : /\ K \subseteq Candidates(query, k) /\ Cardinality(K) >= k
                     /\ \A x \in K : Precedes(x, LexicalScore(query, x), y, LexicalScore(query, y))
<1> DEFINE Earlier(t) ==
      {p \in In(t)!Entries \X In(t)!Entries :
         \/ In(t)!Score(query, p[1]) > In(t)!Score(query, p[2])
         \/ In(t)!Score(query, p[1]) = In(t)!Score(query, p[2]) /\ p[1] < p[2]}
<1>1. ASSUME NEW t \in Traditions
      PROVE  /\ In(t)!Retrieve(query, k) = FirstOf(Sorted(In(t)!Entries, Earlier(t)), k)
             /\ StrictTotal(In(t)!Entries, Earlier(t))
  <2>1. In(t)!Ranked(query) = Sorted(In(t)!Entries, Earlier(t))
    BY DEF In!Ranked, In!Sorted, Sorted, In!Below, Below, In!Cardinality, Cardinality
  <2>2. In(t)!Retrieve(query, k) = FirstOf(In(t)!Ranked(query), k)
    BY DEF In!Retrieve, In!FirstOf, FirstOf
  <2>3. \A n \in In(t)!Entries : n \in Nat /\ In(t)!Score(query, n) \in Nat
    BY LinesFit
  <2>4. StrictTotal(In(t)!Entries, Earlier(t))
    BY <2>3 DEF StrictTotal
  <2> QED BY <2>1, <2>2, <2>4
<1>2. ASSUME NEW t \in Traditions
      PROVE  LET E == In(t)!Entries
                 s == Sorted(E, Earlier(t))
                 first == FirstOf(s, k)
                 m == IF k < Cardinality(E) THEN k ELSE Cardinality(E)
             IN /\ In(t)!Retrieve(query, k) = first
                /\ m \in Nat /\ DOMAIN first = 1 .. m /\ \A i \in 1 .. m : first[i] = s[i]
                /\ \A i \in 1 .. Cardinality(E) : s[i] \in E
                /\ \A n \in E : \E i \in 1 .. Cardinality(E) : s[i] = n
                /\ \A i, j \in 1 .. Cardinality(E) : i < j => <<s[i], s[j]>> \in Earlier(t)
  <2> DEFINE E == In(t)!Entries
             before == Earlier(t)
             s == Sorted(E, before)
  <2>1. In(t)!Retrieve(query, k) = FirstOf(s, k) /\ StrictTotal(E, before)
    BY <1>1
  <2>2. IsFiniteSet(E) /\ Cardinality(E) \in Nat
    BY LinesFit
  <2>3. /\ s \in Seq(E) /\ Len(s) = Cardinality(E)
        /\ \A i \in 1 .. Cardinality(E) : s[i] \in E
        /\ \A n \in E : \E i \in 1 .. Cardinality(E) : s[i] = n
        /\ \A i, j \in 1 .. Cardinality(E) : i < j => <<s[i], s[j]>> \in before
    <3> HIDE DEF E, before
    <3> QED BY <2>1, <2>2, SortedFits
  <2>4. LET m == IF k < Cardinality(E) THEN k ELSE Cardinality(E)
        IN m \in Nat /\ DOMAIN FirstOf(s, k) = 1 .. m /\ \A i \in 1 .. m : FirstOf(s, k)[i] = s[i]
    <3> HIDE DEF E, s
    <3> QED BY <2>3, FirstFits
  <2> QED BY <2>1, <2>3, <2>4
<1> HIDE DEF Earlier
<1>3. Candidates(query, k) \subseteq CorpusRecords
  <2> SUFFICES ASSUME NEW t \in Traditions, NEW n \in Range(In(t)!Retrieve(query, k))
               PROVE  <<t, n>> \in CorpusRecords
    BY DEF Candidates
  <2>1. n \in In(t)!Entries
    <3>1. \A i \in DOMAIN In(t)!Retrieve(query, k) : In(t)!Retrieve(query, k)[i] \in In(t)!Entries
      <4> DEFINE N == Cardinality(In(t)!Entries)
                 m == IF k < N THEN k ELSE N
                 s == Sorted(In(t)!Entries, Earlier(t))
                 first == In(t)!Retrieve(query, k)
      <4>1. DOMAIN first = 1 .. m /\ \A i \in 1 .. m : first[i] = s[i]
        BY <1>2
      <4>2. \A i \in 1 .. N : s[i] \in In(t)!Entries
        BY <1>2
      <4>3. N \in Nat
        BY LinesFit
      <4> HIDE DEF N, s, first
      <4> QED BY <4>1, <4>2, <4>3 DEF first
    <3> QED BY <3>1 DEF Range
  <2> QED BY <2>1, CorpusFits
<1>4. ASSUME NEW y \in CorpusRecords \ Candidates(query, k)
      PROVE  \E K : /\ K \subseteq Candidates(query, k) /\ Cardinality(K) >= k
                    /\ \A x \in K : Precedes(x, LexicalScore(query, x), y, LexicalScore(query, y))
  <2>0. PICK t \in Traditions : \E n \in In(t)!Entries : y = <<t, n>>
    BY CorpusFits
  <2>1. PICK n \in In(t)!Entries : y = <<t, n>>
    BY <2>0
  <2> DEFINE N == Cardinality(In(t)!Entries)
             s == Sorted(In(t)!Entries, Earlier(t))
             first == In(t)!Retrieve(query, k)
             m == IF k < N THEN k ELSE N
             f == [i \in 1 .. k |-> <<t, s[i]>>]
             K == {f[i] : i \in 1 .. k}
  <2>2. /\ N \in Nat /\ DOMAIN first = 1 .. m /\ \A i \in 1 .. m : first[i] = s[i]
        /\ \A i \in 1 .. N : s[i] \in In(t)!Entries
        /\ \A i, j \in 1 .. N : i < j => <<s[i], s[j]>> \in Earlier(t)
    BY <1>2, LinesFit
  <2>3. PICK j \in 1 .. N : s[j] = n
    BY <1>2
  <2>4. n \notin Range(first)
    BY <2>1 DEF Candidates
  <2> HIDE DEF N, s, first
  <2>5. k < j /\ k < N
    <3>1. j \notin 1 .. m
      BY <2>2, <2>3, <2>4 DEF Range
    <3> QED BY <2>2, <3>1
  <2>6. \A i \in 1 .. k : i \in DOMAIN first /\ first[i] = s[i] /\ i \in 1 .. N /\ i < j
    BY <2>2, <2>5
  <2>7. K \subseteq Candidates(query, k)
    <3>1. \A i \in 1 .. k : s[i] \in Range(first)
      BY <2>6 DEF Range
    <3>2. \A l \in Range(first) : <<t, l>> \in Candidates(query, k)
      BY DEF Candidates, first
    <3> QED BY <3>1, <3>2
  <2>8. \A l \in In(t)!Entries : l \in Nat /\ In(t)!Score(query, l) \in Nat
    BY LinesFit
  <2>9. Cardinality(K) = k
    <3>1. \A i, h \in 1 .. k : f[i] = f[h] => i = h
      <4> SUFFICES ASSUME NEW i \in 1 .. k, NEW h \in 1 .. k, i < h PROVE s[i] # s[h]
        OBVIOUS
      <4>1. <<s[i], s[h]>> \in Earlier(t) /\ s[i] \in In(t)!Entries
        BY <2>2, <2>6
      <4> QED BY <2>8, <4>1 DEF Earlier
    <3>2. IsFiniteSet(1 .. k) /\ Cardinality(1 .. k) = k
      BY FS_Interval
    <3>3. DOMAIN f = 1 .. k
      OBVIOUS
    <3> DEFINE I == 1 .. k
    <3>4. \A i, h \in I : f[i] = f[h] => i = h
      BY <3>1
    <3>5. IsFiniteSet(I) /\ Cardinality(I) = k /\ DOMAIN f = I
      BY <3>2, <3>3
    <3> HIDE DEF f, I
    <3>6. Cardinality({f[i] : i \in I}) = Cardinality(I)
      BY <3>4, <3>5, ImageFinite
    <3> QED BY <3>5, <3>6 DEF I
  <2>10. \A x \in K : Precedes(x, LexicalScore(query, x), y, LexicalScore(query, y))
    <3> SUFFICES ASSUME NEW i \in 1 .. k
                 PROVE  Precedes(<<t, s[i]>>, LexicalScore(query, <<t, s[i]>>), y, LexicalScore(query, y))
      OBVIOUS
    <3>1. <<s[i], n>> \in Earlier(t)
      BY <2>2, <2>3, <2>6
    <3>2. LexicalScore(query, <<t, s[i]>>) = In(t)!Score(query, s[i]) /\ LexicalScore(query, y) = In(t)!Score(query, n)
      BY <2>1 DEF LexicalScore
    <3> QED BY <2>1, <3>1, <3>2 DEF Earlier, Precedes
  <2> HIDE DEF K
  <2> QED BY <2>7, <2>9, <2>10
<1> QED BY <1>3, <1>4
Lexical(query) == [r \in CorpusRecords |-> LexicalScore(query, r)]
Bm25(i) == [r \in CorpusRecords |-> Bm25Score(i, r)]
Measured(i) == [r \in CorpusRecords |-> ScoreOf(i, r)]

LEMMA SearchIsTop ==
  ASSUME bench \in Benches, NEW query, NEW k \in Nat
  PROVE  IsTop(Search(query, k), Lexical(query), k)
<1> DEFINE C == Candidates(query, k)
           v == Lexical(query)
<1>1. v \in Scores
  BY ScoresFit DEF Lexical
<1>2. C \subseteq CorpusRecords
  BY CandidatesFit
<1>3. \A y \in CorpusRecords \ C :
        \E K : K \subseteq C /\ Cardinality(K) >= k /\ \A x \in K : Precedes(x, v[x], y, v[y])
  <2> SUFFICES ASSUME NEW y \in CorpusRecords \ C
               PROVE  \E K : K \subseteq C /\ Cardinality(K) >= k /\ \A x \in K : Precedes(x, v[x], y, v[y])
    OBVIOUS
  <2>1. PICK K : /\ K \subseteq C /\ Cardinality(K) >= k
                 /\ \A x \in K : Precedes(x, LexicalScore(query, x), y, LexicalScore(query, y))
    BY CandidatesFit
  <2>2. \A x \in CorpusRecords : v[x] = LexicalScore(query, x)
    BY DEF Lexical
  <2>3. \A x \in K : Precedes(x, v[x], y, v[y])
    BY <1>2, <2>1, <2>2
  <2> QED BY <2>1, <2>3
<1>4. ByLexicalScore(query, C) = Sorted(C, Order(v, C))
  <2>1. {p \in C \X C : Precedes(p[1], LexicalScore(query, p[1]), p[2], LexicalScore(query, p[2]))} = Order(v, C)
    <3>1. \A p \in C \X C : v[p[1]] = LexicalScore(query, p[1]) /\ v[p[2]] = LexicalScore(query, p[2])
      BY <1>2 DEF Lexical
    <3> HIDE DEF C, v
    <3> QED BY <3>1 DEF Order
  <2> QED BY <2>1 DEF ByLexicalScore
<1>5. Search(query, k) = FirstOf(Sorted(C, Order(v, C)), k)
  BY <1>4 DEF Search
<1> HIDE DEF C, v
<1>6. IsTop(FirstOf(Sorted(C, Order(v, C)), k), v, k)
  BY <1>1, <1>2, <1>3, SortedIsTop
<1> QED BY <1>5, <1>6 DEF v

\* Asked for as many lines as the corpus has, a tradition leaves none out.
LEMMA SearchBm25IsTop ==
  ASSUME bench \in Benches, NEW i \in DOMAIN bench.queries, NEW k \in Nat
  PROVE  IsTop(SearchBm25(i, k), Bm25(i), k)
<1> DEFINE N == Cardinality(CorpusRecords)
           asked == IF N = 0 THEN 1 ELSE N
           C == Candidates(bench.queries[i], asked)
           v == Bm25(i)
<1>1. v \in Scores /\ N \in Nat /\ IsFiniteSet(CorpusRecords)
  BY ScoresFit, CorpusFits DEF Bm25
<1>2. asked \in Nat /\ asked >= N
  BY <1>1
<1>3. C = CorpusRecords
  <2> HIDE DEF asked
  <2>1. C \subseteq CorpusRecords
    BY <1>2, CandidatesFit
  <2>2. ASSUME NEW y \in CorpusRecords \ C PROVE FALSE
    <3>1. PICK K : K \subseteq C /\ Cardinality(K) >= asked
      BY <1>2, CandidatesFit
    <3> HIDE DEF C
    <3>2. K \subseteq CorpusRecords /\ K # CorpusRecords
      BY <2>1, <3>1
    <3>3. Cardinality(K) <= N /\ Cardinality(K) # N /\ Cardinality(K) \in Nat
      BY <1>1, <3>2, FS_Subset, FS_CardinalityType
    <3> HIDE DEF N
    <3> QED BY <1>1, <1>2, <3>1, <3>3
  <2> QED BY <2>1, <2>2
<1>4. {p \in C \X C : Precedes(p[1], Bm25Score(i, p[1]), p[2], Bm25Score(i, p[2]))} = Order(v, C)
  <2>1. \A p \in C \X C : v[p[1]] = Bm25Score(i, p[1]) /\ v[p[2]] = Bm25Score(i, p[2])
    BY <1>3 DEF Bm25
  <2> HIDE DEF C, v
  <2> QED BY <2>1 DEF Order
<1>5. SearchBm25(i, k) = FirstOf(Sorted(C, Order(v, C)), k)
  BY <1>4 DEF SearchBm25
<1> HIDE DEF C, v
<1>6. IsTop(FirstOf(Sorted(C, Order(v, C)), k), v, k)
  BY <1>1, <1>3, SortedIsTop
<1> QED BY <1>5, <1>6 DEF v

\* What a ranking at the top is known by.
LEMMA TopFacts ==
  ASSUME bench \in Benches, NEW v \in Scores, NEW k \in Nat, NEW ranked, IsTop(ranked, v, k)
  PROVE  /\ Len(ranked) \in Nat /\ DOMAIN ranked = 1 .. Len(ranked)
         /\ Len(ranked) <= Cardinality(CorpusRecords)
         /\ \A p \in DOMAIN ranked : ranked[p] \in CorpusRecords
         /\ \A p, q \in DOMAIN ranked : ranked[p] = ranked[q] => p = q
         /\ ranked # <<>> => /\ 1 \in DOMAIN ranked
                             /\ \A r \in CorpusRecords : v[r] <= v[ranked[1]]
         /\ ranked = <<>> /\ k > 0 => CorpusRecords = {}
         /\ k >= Cardinality(CorpusRecords) =>
              \A r \in CorpusRecords : \E p \in DOMAIN ranked : ranked[p] = r
<1> DEFINE R == CorpusRecords
           N == Cardinality(R)
<1>1. IsFiniteSet(R) /\ N \in Nat /\ \A r \in R : r = <<r[1], r[2]>> /\ r[1] \in Nat /\ r[2] \in Nat /\ v[r] \in Nat
  BY CorpusFits DEF Scores
<1>2. Len(ranked) \in Nat /\ DOMAIN ranked = 1 .. Len(ranked) /\ \A p \in DOMAIN ranked : ranked[p] \in R
  <2>1. ranked \in Seq(R)
    BY DEF IsTop
  <2> HIDE DEF R
  <2> QED BY <2>1, LenProperties
<1>3. Len(ranked) = IF k < N THEN k ELSE N
  BY DEF IsTop, Wanted
<1>4. \A p \in DOMAIN ranked : Cardinality(Ahead(v, ranked[p])) = p - 1
  BY <1>2 DEF IsTop
<1>5. ASSUME NEW p \in DOMAIN ranked, NEW q \in DOMAIN ranked, ranked[p] = ranked[q]
      PROVE  p = q
  <2>1. p - 1 = q - 1
    BY <1>4, <1>5
  <2> QED BY <1>2, <2>1
<1>6. ASSUME ranked # <<>>
      PROVE  1 \in DOMAIN ranked /\ \A r \in R : v[r] <= v[ranked[1]]
  <2>1. 1 \in DOMAIN ranked /\ ranked[1] \in R
    <3>1. Len(ranked) # 0
      BY <1>6 DEF IsTop
    <3> QED BY <1>2, <3>1
  <2>2. Ahead(v, ranked[1]) = {}
    <3>1. Ahead(v, ranked[1]) \subseteq R
      BY DEF Ahead
    <3>2. IsFiniteSet(Ahead(v, ranked[1]))
      BY <1>1, <3>1, FS_Subset
    <3>3. Cardinality(Ahead(v, ranked[1])) = 0
      BY <1>4, <2>1
    <3> QED BY <3>2, <3>3, FS_EmptySet
  <2>3. \A r \in R : ~Precedes(r, v[r], ranked[1], v[ranked[1]])
    BY <2>2 DEF Ahead
  <2>4. \A r \in R : ~(v[r] > v[ranked[1]])
    BY <2>3 DEF Precedes
  <2> QED BY <1>1, <2>1, <2>4
<1>7. ASSUME ranked = <<>>, k > 0 PROVE R = {}
  <2>1. N = 0
    <3>1. Len(ranked) = 0
      BY <1>7
    <3> HIDE DEF N
    <3> QED BY <1>1, <1>3, <1>7, <3>1
  <2> QED BY <1>1, <2>1, FS_EmptySet
<1>8. ASSUME k >= N, NEW r \in R PROVE \E p \in DOMAIN ranked : ranked[p] = r
  <2> DEFINE f == [p \in 1 .. N |-> ranked[p]]
  <2>1. DOMAIN ranked = 1 .. N
    <3> HIDE DEF N
    <3> QED BY <1>1, <1>2, <1>3, <1>8
  <2>2. f \in Injection(1 .. N, R)
    BY <1>2, <1>5, <2>1 DEF Injection, IsInjective
  <2>3. Cardinality(1 .. N) = N /\ IsFiniteSet(1 .. N)
    <3>1. N \in Nat
      BY <1>1
    <3> HIDE DEF N
    <3>2. IsFiniteSet(1 .. N) /\ Cardinality(1 .. N) = IF 1 > N THEN 0 ELSE N - 1 + 1
      BY <3>1, FS_Interval
    <3> QED BY <3>1, <3>2
  <2> HIDE DEF f
  <2>4. f \in Surjection(1 .. N, R)
    BY <1>1, <2>2, <2>3, FS_Injection
  <2>5. PICK p \in 1 .. N : f[p] = r
    BY <2>4 DEF Surjection
  <2> QED BY <2>1, <2>5 DEF f
<1>9. Len(ranked) <= N
  <2> HIDE DEF N
  <2> QED BY <1>1, <1>3
<1> QED BY <1>2, <1>5, <1>6, <1>7, <1>8, <1>9
------------------------------------------------------------------------------
(* What is asked and measured.                                               *)

\* Of finitely many cutoffs one is the largest.
LEMMA MaxKFits ==
  ASSUME bench \in Benches
  PROVE  MaxK \in bench.ks /\ MaxK \in Nat \ {0} /\ \A k \in bench.ks : k <= MaxK
<1> DEFINE ks == bench.ks
           before == {p \in ks \X ks : p[1] > p[2]}
           s == Sorted(ks, before)
<1>1. ks \subseteq Nat \ {0} /\ ks # {} /\ IsFiniteSet(ks)
  BY BenchAssumption
<1>2. Cardinality(ks) \in Nat /\ Cardinality(ks) > 0
  <2> HIDE DEF ks
  <2> QED BY <1>1, FS_CardinalityType, FS_EmptySet
<1>3. StrictTotal(ks, before)
  <2> HIDE DEF ks
  <2> QED BY <1>1 DEF StrictTotal
<1>4. /\ \A i \in 1 .. Cardinality(ks) : s[i] \in ks
      /\ \A k \in ks : \E i \in 1 .. Cardinality(ks) : s[i] = k
      /\ \A i, j \in 1 .. Cardinality(ks) : i < j => <<s[i], s[j]>> \in before
  <2> HIDE DEF ks, before
  <2> QED BY <1>1, <1>3, SortedFits
<1>5. s[1] \in ks /\ \A k \in ks : k <= s[1]
  <2> HIDE DEF ks, s
  <2>1. 1 \in 1 .. Cardinality(ks)
    BY <1>2
  <2>2. ASSUME NEW k \in ks PROVE k <= s[1]
    <3>1. PICK i \in 1 .. Cardinality(ks) : s[i] = k
      BY <1>4
    <3>2. CASE i = 1
      BY <1>1, <3>1, <3>2
    <3>3. CASE 1 < i
      <4>1. <<s[1], k>> \in before
        BY <1>4, <2>1, <3>1, <3>3
      <4>2. s[1] > k /\ s[1] \in Nat /\ k \in Nat
        BY <1>1, <1>4, <2>1, <4>1
      <4> QED BY <4>2
    <3> QED BY <1>2, <3>2, <3>3
  <2> QED BY <1>4, <2>1, <2>2
<1> HIDE DEF s
<1>6. MaxK \in ks /\ \A k \in ks : k <= MaxK
  BY <1>5 DEF MaxK
<1> QED BY <1>1, <1>6

\* What the i-th query is answered with.
Asked(i) == ApplyThreshold(i, Rank(i))

LEMMA AskedFits ==
  ASSUME bench \in Benches, NEW i \in DOMAIN bench.queries
  PROVE  /\ Measured(i) \in Scores
         /\ IsTop(Rank(i), Measured(i), MaxK)
         /\ Asked(i) = IF UsesThreshold /\ ~Supported(i) THEN <<>> ELSE Rank(i)
<1> DEFINE query == bench.queries[i]
           lexical == IF UsesBm25 THEN Search(query, MaxK) ELSE Rank(i)
           confidence == IF lexical = <<>> THEN 0 ELSE LexicalScore(query, lexical[1])
           v == Lexical(query)
<1>1. MaxK \in Nat /\ MaxK > 0
  BY MaxKFits
<1>2. IsTop(Search(query, MaxK), v, MaxK) /\ IsTop(SearchBm25(i, MaxK), Bm25(i), MaxK)
  BY <1>1, SearchIsTop, SearchBm25IsTop
<1>3. Measured(i) = IF UsesBm25 THEN Bm25(i) ELSE v
  BY DEF Measured, ScoreOf, Bm25, Lexical
<1>4. IsTop(Rank(i), Measured(i), MaxK)
  BY <1>2, <1>3 DEF Rank
<1>5. Measured(i) \in Scores /\ v \in Scores
  BY <1>3, ScoresFit DEF Bm25, Lexical
<1>6. lexical = Search(query, MaxK)
  BY DEF Rank
<1> HIDE DEF lexical, v
<1>7. \A r \in CorpusRecords : v[r] = LexicalScore(query, r) /\ v[r] \in Nat
  BY <1>5 DEF v, Lexical, Scores
<1>8. IsTop(lexical, v, MaxK)
  BY <1>2, <1>6
<1>9. confidence < bench.threshold <=> ~Supported(i)
  <2>1. bench.threshold \in Nat \ {0}
    BY BenchAssumption
  <2>2. Supported(i) <=> \E r \in CorpusRecords : LexicalScore(query, r) >= bench.threshold
    BY DEF Supported, Best
  <2>3. CASE lexical = <<>>
    <3>1. CorpusRecords = {}
      BY <1>1, <1>5, <1>8, <2>3, TopFacts
    <3> QED BY <2>1, <2>2, <2>3, <3>1
  <2>4. CASE lexical # <<>>
    <3>1. lexical[1] \in CorpusRecords /\ \A r \in CorpusRecords : v[r] <= v[lexical[1]]
      BY <1>1, <1>5, <1>8, <2>4, TopFacts
    <3>2. confidence = v[lexical[1]]
      BY <1>7, <2>4, <3>1
    <3>3. \A r \in CorpusRecords : LexicalScore(query, r) <= confidence /\ LexicalScore(query, r) \in Nat
      BY <1>7, <3>1, <3>2
    <3>4. confidence = LexicalScore(query, lexical[1])
      BY <2>4
    <3> HIDE DEF confidence
    <3> QED BY <2>1, <2>2, <3>1, <3>3, <3>4
  <2> QED BY <2>3, <2>4
<1>10. Asked(i) = IF UsesThreshold /\ confidence < bench.threshold THEN <<>> ELSE Rank(i)
  BY DEF Asked, ApplyThreshold, lexical
<1> QED BY <1>4, <1>5, <1>9, <1>10

\* What is recorded for it.
EntryOf(i) == Evaluate(i, Asked(i))

\* What the fixtures say of the judges.
Disclosed == IF OverallKappa(bench.pool) = Undefined THEN bench.declared ELSE OverallKappa(bench.pool)

\* The entries follow the queries one by one, of fixtures that were found valid, and
\* what is disclosed in the end is what the fixtures say.
BInv ==
  /\ bench \in Benches
  /\ entries \in Seq({EntryOf(i) : i \in DOMAIN bench.queries})
  /\ Len(entries) <= Len(bench.queries)
  /\ \A i \in 1 .. Len(entries) : entries[i] = EntryOf(i)
  /\ entries # <<>> \/ stage = "asking" => Valid(bench)
  /\ stage = "reported" => agreement = Disclosed

LEMMA EntryStays ==
  ASSUME bench' = bench
  PROVE  \A i : EntryOf(i)' = EntryOf(i)
<1> SUFFICES ASSUME NEW i PROVE EntryOf(i)' = EntryOf(i)
  OBVIOUS
<1>1. Rank(i)' = Rank(i)
  BY DEF Rank, UsesBm25, SearchBm25, Search, MaxK, Candidates, ByLexicalScore, CorpusRecords, LexicalScore,
         Bm25Score, RecordKey, In!Retrieve, In!Ranked, In!Sorted, In!FirstOf, In!Score, In!Entries
<1>2. \A query : Search(query, MaxK)' = Search(query, MaxK)
  BY DEF Search, MaxK, Candidates, ByLexicalScore, LexicalScore, In!Retrieve, In!Ranked, In!Sorted, In!FirstOf,
         In!Score, In!Entries
<1>3. Asked(i)' = Asked(i)
  BY <1>1, <1>2 DEF Asked, ApplyThreshold, UsesBm25, UsesThreshold, LexicalScore, In!Score
<1>4. \A ranked : Evaluate(i, ranked)' = Evaluate(i, ranked)
  BY DEF Evaluate, Positions, RecordKey, RelevantKeys, Judgment, ScoreOf, UsesBm25, LexicalScore, Bm25Score, In!Score
<1> QED BY <1>3, <1>4 DEF EntryOf

LEMMA InitBInv == Init => BInv
<1> SUFFICES ASSUME Init PROVE BInv
  OBVIOUS
<1>1. bench \in Benches /\ entries = <<>> /\ stage = "validating"
  BY DEF Init
<1>2. Len(bench.queries) \in Nat
  <2>1. bench.queries \in Seq(Range(bench.queries))
    BY <1>1, BenchAssumption
  <2> QED BY <2>1, LenProperties
<1> QED BY <1>1, <1>2 DEF BInv

LEMMA StepBInv == BInv /\ [Next]_vars => BInv'
<1> SUFFICES ASSUME BInv, [Next]_vars PROVE BInv'
  OBVIOUS
<1> DEFINE All == {EntryOf(i) : i \in DOMAIN bench.queries}
<1>1. /\ bench \in Benches /\ entries \in Seq(All) /\ Len(entries) <= Len(bench.queries)
      /\ \A i \in 1 .. Len(entries) : entries[i] = EntryOf(i)
      /\ entries # <<>> \/ stage = "asking" => Valid(bench)
  BY DEF BInv
<1>2. bench' = bench
  BY DEF Next, Validate, Ask, Disclose, vars
<1>3. All' = All /\ \A i : EntryOf(i)' = EntryOf(i)
  BY <1>2, EntryStays
<1>4. Valid(bench)' <=> Valid(bench)
  BY <1>2 DEF Valid, CorpusRecords, RecordKey, In!Entries
<1>5. /\ entries' \in Seq(All) /\ Len(entries') <= Len(bench.queries)
      /\ \A i \in 1 .. Len(entries') : entries'[i] = EntryOf(i)
      /\ entries' # <<>> \/ stage' = "asking" => Valid(bench)
  <2>1. CASE Validate
    BY <1>1, <2>1 DEF Validate
  <2>2. CASE Ask
    <3> DEFINE i == Len(entries) + 1
    <3>1. /\ stage = "asking" /\ stage' = stage /\ i <= Len(bench.queries)
          /\ entries' = Append(entries, EntryOf(i))
      BY <2>2 DEF Ask, EntryOf, Asked
    <3>2. Len(entries) \in Nat /\ bench.queries \in Seq(Range(bench.queries))
      BY <1>1, BenchAssumption, LenProperties
    <3>3. DOMAIN bench.queries = 1 .. Len(bench.queries) /\ Len(bench.queries) \in Nat
      BY <3>2, LenProperties
    <3>4. EntryOf(i) \in All
      BY <3>1, <3>2, <3>3
    <3> HIDE DEF All
    <3>5. /\ entries' \in Seq(All) /\ Len(entries') = i /\ entries'[i] = EntryOf(i)
          /\ \A j \in 1 .. Len(entries) : entries'[j] = entries[j]
      BY <1>1, <3>1, <3>4, AppendProperties
    <3> QED BY <1>1, <3>1, <3>2, <3>5
  <2>3. CASE Disclose
    BY <1>1, <2>3 DEF Disclose
  <2>4. CASE UNCHANGED vars
    BY <1>1, <2>4 DEF vars
  <2> QED BY <2>1, <2>2, <2>3, <2>4 DEF Next
<1>6. stage' = "reported" => agreement' = Disclosed'
  <2>1. stage = "reported" => agreement = Disclosed
    BY DEF BInv
  <2>2. Disclosed' = Disclosed
    BY <1>2 DEF Disclosed
  <2>3. CASE Validate
    BY <2>3 DEF Validate
  <2>4. CASE Ask
    BY <2>4 DEF Ask
  <2>5. CASE Disclose
    BY <2>2, <2>5 DEF Disclose, Disclosed
  <2>6. CASE UNCHANGED vars
    BY <2>1, <2>2, <2>6 DEF vars
  <2> QED BY <2>3, <2>4, <2>5, <2>6 DEF Next
<1> QED BY <1>1, <1>2, <1>3, <1>4, <1>5, <1>6 DEF BInv

LEMMA BInductive == Spec => []BInv
BY InitBInv, StepBInv, PTL DEF Spec
------------------------------------------------------------------------------
(* What the invariant says of the properties.                                *)

\* An entry that has been made.
LEMMA EntryFits ==
  ASSUME BInv, NEW i \in DOMAIN entries
  PROVE  /\ bench \in Benches /\ i \in DOMAIN bench.queries /\ Valid(bench)
         /\ entries[i] = EntryOf(i) /\ entries[i].ranked = Asked(i)
<1>1. /\ bench \in Benches /\ Len(entries) <= Len(bench.queries) /\ Len(entries) \in Nat
      /\ DOMAIN entries = 1 .. Len(entries)
  BY LenProperties DEF BInv
<1>2. bench.queries \in Seq(Range(bench.queries))
  BY <1>1, BenchAssumption
<1>3. DOMAIN bench.queries = 1 .. Len(bench.queries) /\ Len(bench.queries) \in Nat
  BY <1>2, LenProperties
<1>4. i \in 1 .. Len(entries) /\ i \in DOMAIN bench.queries /\ entries # <<>>
  BY <1>1, <1>3
<1>5. EntryOf(i).ranked = Asked(i)
  BY DEF EntryOf, Evaluate
<1>6. entries[i] = EntryOf(i) /\ Valid(bench)
  BY <1>4 DEF BInv
<1> QED BY <1>1, <1>4, <1>5, <1>6

LEMMA TopByInv == BInv => GlobalTopK
<1> SUFFICES ASSUME BInv, NEW i \in DOMAIN entries
             PROVE  LET ranked == entries[i].ranked
                        Before(x, y) == Precedes(x, ScoreOf(i, x), y, ScoreOf(i, y))
                        wanted == IF MaxK < Cardinality(CorpusRecords) THEN MaxK ELSE Cardinality(CorpusRecords)
                    IN /\ Len(ranked) = IF UsesThreshold /\ ~Supported(i) THEN 0 ELSE wanted
                       /\ \A p \in DOMAIN ranked :
                            Cardinality({r \in CorpusRecords : Before(r, ranked[p])}) = p - 1
  BY DEF GlobalTopK
<1> DEFINE ranked == entries[i].ranked
           v == Measured(i)
<1>1. bench \in Benches /\ i \in DOMAIN bench.queries /\ ranked = Asked(i)
  BY EntryFits
<1>2. /\ v \in Scores /\ IsTop(Rank(i), v, MaxK)
      /\ ranked = IF UsesThreshold /\ ~Supported(i) THEN <<>> ELSE Rank(i)
  BY <1>1, AskedFits
<1>3. MaxK \in Nat
  BY <1>1, MaxKFits
<1>4. DOMAIN Rank(i) = 1 .. Len(Rank(i)) /\ \A p \in DOMAIN Rank(i) : Rank(i)[p] \in CorpusRecords
  BY <1>1, <1>2, <1>3, TopFacts
<1>5. Len(Rank(i)) = Wanted(MaxK) /\ \A p \in DOMAIN Rank(i) : Cardinality(Ahead(v, Rank(i)[p])) = p - 1
  BY <1>2, <1>4 DEF IsTop
<1>6. \A x \in CorpusRecords : Ahead(v, x) = {r \in CorpusRecords : Precedes(r, ScoreOf(i, r), x, ScoreOf(i, x))}
  BY DEF Ahead, Measured
<1>7. CASE UsesThreshold /\ ~Supported(i)
  BY <1>2, <1>7
<1>8. CASE ~(UsesThreshold /\ ~Supported(i))
  <2>1. ranked = Rank(i)
    BY <1>2, <1>8
  <2> HIDE DEF v, ranked
  <2>2. \A p \in DOMAIN ranked :
          Cardinality({r \in CorpusRecords : Precedes(r, ScoreOf(i, r), ranked[p], ScoreOf(i, ranked[p]))}) = p - 1
    BY <1>4, <1>5, <1>6, <2>1
  <2> QED BY <1>5, <1>8, <2>1, <2>2 DEF Wanted, ranked
<1> QED BY <1>7, <1>8
\* The hits of a query, where no two records have the same key.
LEMMA HitsFit ==
  ASSUME bench \in Benches, KeysDistinct, NEW i \in DOMAIN bench.queries
  PROVE  LET hits == Positions(i, Asked(i))
         IN /\ hits \subseteq Nat \ {0} /\ hits \subseteq DOMAIN Asked(i) /\ IsFiniteSet(RelevantKeys(i))
            /\ \A T : T \subseteq hits =>
                 /\ IsFiniteSet(T) /\ Cardinality(T) \in Nat /\ (Cardinality(T) = 0 <=> T = {})
                 /\ Cardinality(T) <= Cardinality(RelevantKeys(i))
                 /\ Cardinality(T) = Cardinality(RelevantKeys(i)) <=>
                      \A key \in RelevantKeys(i) : \E p \in T : RecordKey(Asked(i)[p]) = key
<1> DEFINE ranked == Asked(i)
           hits == Positions(i, ranked)
           keys == RelevantKeys(i)
<1>1. IsFiniteSet(keys)
  <2> DEFINE judged == {e \in Judgment(i).relevant : e.relevance >= 1}
             f == [e \in judged |-> e.key]
  <2>1. IsFiniteSet(Judgment(i).relevant)
    BY BenchAssumption, FS_EmptySet DEF Judgment
  <2>2. IsFiniteSet(judged)
    BY <2>1, FS_Subset
  <2>3. keys = {f[e] : e \in judged} /\ DOMAIN f = judged
    BY DEF RelevantKeys
  <2> HIDE DEF judged, f, keys
  <2> QED BY <2>2, <2>3, ImageFinite
<1>2. /\ DOMAIN ranked \subseteq Nat \ {0}
      /\ \A p \in DOMAIN ranked : ranked[p] \in CorpusRecords
      /\ \A p, q \in DOMAIN ranked : ranked[p] = ranked[q] => p = q
  <2>1. ranked = <<>> \/ ranked = Rank(i)
    BY AskedFits
  <2>2. /\ Len(Rank(i)) \in Nat /\ DOMAIN Rank(i) = 1 .. Len(Rank(i))
        /\ \A p \in DOMAIN Rank(i) : Rank(i)[p] \in CorpusRecords
        /\ \A p, q \in DOMAIN Rank(i) : Rank(i)[p] = Rank(i)[q] => p = q
    <3>1. IsTop(Rank(i), Measured(i), MaxK) /\ Measured(i) \in Scores /\ MaxK \in Nat
      BY AskedFits, MaxKFits
    <3> QED BY <3>1, TopFacts
  <2>3. CASE ranked = <<>>
    BY <2>3
  <2>4. CASE ranked = Rank(i)
    <3> HIDE DEF ranked
    <3> QED BY <2>2, <2>4
  <2> QED BY <2>1, <2>3, <2>4
<1> HIDE DEF ranked, keys
<1>3. hits \subseteq DOMAIN ranked /\ \A p \in hits : RecordKey(ranked[p]) \in keys
  BY DEF Positions, keys
<1>4. \A p, q \in hits : RecordKey(ranked[p]) = RecordKey(ranked[q]) => p = q
  BY <1>2, <1>3 DEF KeysDistinct
<1> HIDE DEF hits
<1>5. ASSUME NEW T, T \subseteq hits
      PROVE  /\ IsFiniteSet(T) /\ Cardinality(T) \in Nat /\ (Cardinality(T) = 0 <=> T = {})
             /\ Cardinality(T) <= Cardinality(keys)
             /\ Cardinality(T) = Cardinality(keys) <=> \A key \in keys : \E p \in T : RecordKey(ranked[p]) = key
  <2> DEFINE f == [p \in T |-> RecordKey(ranked[p])]
  <2>1. f \in Injection(T, keys)
    BY <1>3, <1>4, <1>5 DEF Injection, IsInjective
  <2>2. f \in Surjection(T, keys) <=> \A key \in keys : \E p \in T : RecordKey(ranked[p]) = key
    BY <1>3, <1>5 DEF Surjection
  <2> HIDE DEF f
  <2>3. IsFiniteSet(T) /\ Cardinality(T) <= Cardinality(keys) /\ (Cardinality(T) = Cardinality(keys) <=> f \in Surjection(T, keys))
    BY <1>1, <2>1, FS_Injection
  <2>4. Cardinality(T) \in Nat /\ (Cardinality(T) = 0 <=> T = {})
    BY <2>3, FS_CardinalityType, FS_EmptySet
  <2> QED BY <2>2, <2>3, <2>4
<1> QED BY <1>1, <1>2, <1>3, <1>5 DEF hits, ranked, keys
\* A query that has been answered at all, with everything if k lines are the whole corpus.
LEMMA AnsweredFits ==
  ASSUME bench \in Benches, NEW i \in DOMAIN bench.queries, Asked(i) # <<>>
  PROVE  /\ 1 \in DOMAIN Asked(i) /\ Asked(i)[1] \in CorpusRecords
         /\ \A r \in CorpusRecords :
              ScoreOf(i, r) \in Nat /\ ScoreOf(i, r) <= ScoreOf(i, Asked(i)[1])
         /\ \A k \in bench.ks : k >= Cardinality(CorpusRecords) =>
              \A r \in CorpusRecords : \E p \in DOMAIN Asked(i) : Asked(i)[p] = r /\ p <= k
<1> DEFINE ranked == Rank(i)
           v == Measured(i)
<1>1. Asked(i) = ranked
  BY AskedFits
<1>2. v \in Scores /\ IsTop(ranked, v, MaxK) /\ MaxK \in Nat
  BY AskedFits, MaxKFits
<1>3. \A r \in CorpusRecords : v[r] = ScoreOf(i, r) /\ v[r] \in Nat
  BY <1>2 DEF Measured, Scores
<1> HIDE DEF ranked, v
<1>4. /\ Len(ranked) \in Nat /\ DOMAIN ranked = 1 .. Len(ranked) /\ Len(ranked) <= Cardinality(CorpusRecords)
      /\ \A p \in DOMAIN ranked : ranked[p] \in CorpusRecords
      /\ 1 \in DOMAIN ranked /\ \A r \in CorpusRecords : v[r] <= v[ranked[1]]
      /\ MaxK >= Cardinality(CorpusRecords) => \A r \in CorpusRecords : \E p \in DOMAIN ranked : ranked[p] = r
  BY <1>1, <1>2, TopFacts
<1>5. ASSUME NEW k \in bench.ks, k >= Cardinality(CorpusRecords), NEW r \in CorpusRecords
      PROVE  \E p \in DOMAIN ranked : ranked[p] = r /\ p <= k
  <2>1. k <= MaxK /\ k \in Nat /\ Cardinality(CorpusRecords) \in Nat
    BY MaxKFits, BenchAssumption, CorpusFits
  <2>2. MaxK >= Cardinality(CorpusRecords)
    BY <1>2, <1>5, <2>1
  <2>3. PICK p \in DOMAIN ranked : ranked[p] = r
    BY <1>4, <2>2
  <2>4. p <= k
    BY <1>4, <1>5, <2>1
  <2> QED BY <2>3, <2>4
<1> QED BY <1>1, <1>3, <1>4, <1>5

LEMMA MeasuresByInv == BInv => MeasuresSound
<1> SUFFICES ASSUME BInv, KeysDistinct, NEW i \in DOMAIN entries
             PROVE  LET e == entries[i]
                    IN /\ \A k \in bench.ks :
                            /\ e.found[k] <= e.relevant /\ e.found[k] <= k
                            /\ (e.firstRank \in 1 .. k) <=> e.found[k] > 0
                            /\ k >= Cardinality(CorpusRecords) /\ e.ranked # <<>> => e.found[k] = e.relevant
                       /\ e.falseSupport <=>
                            e.noAnswer /\ e.ranked # <<>> /\ \E r \in CorpusRecords : ScoreOf(i, r) > 0
  BY DEF MeasuresSound
<1> DEFINE e == entries[i]
           hits == Positions(i, Asked(i))
           keys == RelevantKeys(i)
           Within(k) == {p \in hits : p <= k}
<1>1. bench \in Benches /\ i \in DOMAIN bench.queries /\ Valid(bench) /\ e = EntryOf(i)
  BY EntryFits
<1>2. /\ e.ranked = Asked(i) /\ e.noAnswer = Judgment(i).noAnswer /\ e.relevant = Cardinality(keys)
      /\ e.firstRank = IF hits = {} THEN 0 ELSE CHOOSE p \in hits : \A q \in hits : p <= q
      /\ e.falseSupport = (Judgment(i).noAnswer /\ Asked(i) # <<>> /\ ScoreOf(i, Asked(i)[1]) > 0)
      /\ \A k \in bench.ks : e.found[k] = Cardinality(Within(k))
  BY <1>1 DEF EntryOf, Evaluate
<1>3. /\ hits \subseteq Nat \ {0} /\ hits \subseteq DOMAIN Asked(i)
      /\ \A T : T \subseteq hits =>
           /\ IsFiniteSet(T) /\ Cardinality(T) \in Nat /\ (Cardinality(T) = 0 <=> T = {})
           /\ Cardinality(T) <= Cardinality(keys)
           /\ Cardinality(T) = Cardinality(keys) <=> \A key \in keys : \E p \in T : RecordKey(Asked(i)[p]) = key
  BY <1>1, HitsFit
<1>4. \A p \in DOMAIN Asked(i) : RecordKey(Asked(i)[p]) \in keys => p \in hits
  BY DEF Positions
<1>5. \A key \in keys : \E r \in CorpusRecords : RecordKey(r) = key
  <2> SUFFICES ASSUME NEW key \in keys PROVE \E r \in CorpusRecords : RecordKey(r) = key
    OBVIOUS
  <2>1. i \in DOMAIN bench.judgments
    BY <1>1 DEF Valid
  <2>2. PICK f \in bench.judgments[i].relevant : f.key = key
    BY <2>1 DEF RelevantKeys, Judgment
  <2>3. f.key \in {RecordKey(r) : r \in CorpusRecords}
    BY <1>1, <2>1, <2>2 DEF Valid
  <2> QED BY <2>2, <2>3
<1> HIDE DEF e, hits, keys
<1>6. \A p \in hits : p \in Nat /\ p > 0
  BY <1>3
<1>7. ASSUME NEW k \in bench.ks
      PROVE  /\ e.found[k] <= e.relevant /\ e.found[k] <= k
             /\ (e.firstRank \in 1 .. k) <=> e.found[k] > 0
             /\ k >= Cardinality(CorpusRecords) /\ e.ranked # <<>> => e.found[k] = e.relevant
  <2>1. k \in Nat /\ k > 0
    BY <1>1, BenchAssumption
  <2>2. /\ Cardinality(Within(k)) \in Nat /\ (Cardinality(Within(k)) = 0 <=> Within(k) = {})
        /\ Cardinality(Within(k)) <= Cardinality(keys)
        /\ Cardinality(Within(k)) = Cardinality(keys) <=>
             \A key \in keys : \E p \in Within(k) : RecordKey(Asked(i)[p]) = key
    BY <1>3
  <2>3. Cardinality(Within(k)) <= k
    <3>1. Within(k) \subseteq 1 .. k
      BY <1>6, <2>1
    <3>2. IsFiniteSet(1 .. k) /\ Cardinality(1 .. k) = k
      BY <2>1, FS_Interval
    <3> HIDE DEF Within
    <3>3. Cardinality(Within(k)) <= Cardinality(1 .. k)
      BY <3>1, <3>2, FS_Subset
    <3> QED BY <3>2, <3>3
  <2>4. (e.firstRank \in 1 .. k) <=> Within(k) # {}
    <3>1. CASE hits = {}
      BY <1>2, <3>1
    <3>2. CASE hits # {}
      <4>1. \E p \in hits : \A q \in hits : p <= q
        BY <1>3, <3>2, LeastNumber
      <4>2. e.firstRank \in hits /\ \A q \in hits : e.firstRank <= q
        BY <1>2, <3>2, <4>1
      <4>3. (e.firstRank \in 1 .. k) <=> e.firstRank <= k
        BY <1>6, <2>1, <4>2
      <4>4. Within(k) # {} <=> e.firstRank <= k
        BY <1>6, <2>1, <4>2
      <4> QED BY <4>3, <4>4
    <3> QED BY <3>1, <3>2
  <2>5. ASSUME k >= Cardinality(CorpusRecords), e.ranked # <<>>
        PROVE  \A key \in keys : \E p \in Within(k) : RecordKey(Asked(i)[p]) = key
    <3> SUFFICES ASSUME NEW key \in keys PROVE \E p \in Within(k) : RecordKey(Asked(i)[p]) = key
      OBVIOUS
    <3>1. PICK r \in CorpusRecords : RecordKey(r) = key
      BY <1>5
    <3>2. PICK p \in DOMAIN Asked(i) : Asked(i)[p] = r /\ p <= k
      BY <1>1, <1>2, <2>5, AnsweredFits
    <3>3. p \in Within(k)
      BY <1>4, <3>1, <3>2
    <3> QED BY <3>1, <3>2, <3>3
  <2> HIDE DEF Within
  <2>6. e.found[k] = Cardinality(Within(k)) /\ e.relevant = Cardinality(keys)
    BY <1>2
  <2>7. e.found[k] > 0 <=> Within(k) # {}
    BY <2>2, <2>6
  <2> QED BY <2>2, <2>3, <2>4, <2>5, <2>6, <2>7
<1>8. e.falseSupport <=> e.noAnswer /\ e.ranked # <<>> /\ \E r \in CorpusRecords : ScoreOf(i, r) > 0
  <2>1. CASE Asked(i) = <<>>
    BY <1>2, <2>1
  <2>2. CASE Asked(i) # <<>>
    <3>1. /\ Asked(i)[1] \in CorpusRecords
          /\ \A r \in CorpusRecords : ScoreOf(i, r) \in Nat /\ ScoreOf(i, r) <= ScoreOf(i, Asked(i)[1])
      BY <1>1, <2>2, AnsweredFits
    <3>2. ScoreOf(i, Asked(i)[1]) > 0 <=> \E r \in CorpusRecords : ScoreOf(i, r) > 0
      BY <3>1
    <3> QED BY <1>2, <2>2, <3>2
  <2> QED BY <2>1, <2>2
<1> QED BY <1>7, <1>8 DEF e

------------------------------------------------------------------------------
(* Agreement.                                                                *)

\* Of n items, r have a label from one judge, s from the other and a from both.
LEMMA ProductBound ==
  ASSUME NEW n \in Nat, NEW r \in Nat, NEW s \in Nat, NEW a \in Nat,
         r + s - a <= n, r <= n, s <= n
  PROVE  4 * (r * s) <= n * r + n * s + 2 * (n * a)
<1> DEFINE t == r + s
<1>1. 4 * (r * s) <= t * t
  <2>1. (r - s) * (r - s) >= 0
    OBVIOUS
  <2>2. t * t - 4 * (r * s) = (r - s) * (r - s)
    OBVIOUS
  <2>3. r * s \in Int /\ t * t \in Int /\ (r - s) * (r - s) \in Int
    OBVIOUS
  <2> HIDE DEF t
  <2> QED BY <2>1, <2>2, <2>3
<1>2. n * r + n * s = n * t
  OBVIOUS
<1>3. n * a \in Nat /\ n * t \in Nat /\ t * t \in Nat /\ t \in Nat
  OBVIOUS
<1>4. CASE t <= n
  <2>1. t * t <= n * t
    BY <1>3, <1>4
  <2> QED BY <1>1, <1>2, <1>3, <2>1
<1>5. CASE t > n
  <2> DEFINE d == t - n
  <2>1. d \in Nat /\ d <= a /\ t <= 2 * n
    BY <1>5
  <2>2. t * d <= (2 * n) * d
    BY <1>3, <2>1
  <2>3. n * d <= n * a
    BY <2>1
  <2>4. (2 * n) * d = 2 * (n * d) /\ t * d = t * t - n * t
    OBVIOUS
  <2>5. n * d \in Nat /\ t * d \in Int
    BY <1>3, <2>1
  <2> HIDE DEF d
  <2>6. t * t - n * t <= 2 * (n * a)
    BY <1>3, <2>2, <2>3, <2>4, <2>5
  <2> QED BY <1>1, <1>2, <1>3, <2>6
<1> QED BY <1>3, <1>4, <1>5

\* Where the two judges agree, and where the first says of one item what the second
\* says of another.
Categories(labels) == {labels[i][1] : i \in DOMAIN labels} \cup {labels[i][2] : i \in DOMAIN labels}
Said(labels, column, C) == {i \in DOMAIN labels : labels[i][column] \in C}
Agreed(labels, C) == {i \in Said(labels, 1, C) : labels[i][1] = labels[i][2]}
Matches(labels, C) ==
  {p \in (DOMAIN labels) \X (DOMAIN labels) : labels[p[1]][1] \in C /\ labels[p[1]][1] = labels[p[2]][2]}
Chance(labels) ==
  SumFunction([c \in Categories(labels) |-> CountOf(labels, 1, c) * CountOf(labels, 2, c)])

LEMMA SetsFinite ==
  ASSUME NEW labels, IsFiniteSet(DOMAIN labels), NEW C
  PROVE  /\ \A column \in {1, 2} :
              /\ IsFiniteSet(Said(labels, column, C)) /\ Cardinality(Said(labels, column, C)) \in Nat
              /\ Cardinality(Said(labels, column, C)) <= Cardinality(DOMAIN labels)
         /\ IsFiniteSet(Agreed(labels, C)) /\ Cardinality(Agreed(labels, C)) \in Nat
         /\ Cardinality(Agreed(labels, C)) <= Cardinality(DOMAIN labels)
         /\ IsFiniteSet(Matches(labels, C)) /\ Cardinality(Matches(labels, C)) \in Nat
         /\ Cardinality(DOMAIN labels) \in Nat
<1> DEFINE D == DOMAIN labels
<1>1. \A column \in {1, 2} : Said(labels, column, C) \subseteq D
  BY DEF Said
<1>2. Agreed(labels, C) \subseteq D
  BY DEF Agreed, Said
<1>3. Matches(labels, C) \subseteq D \X D
  BY DEF Matches
<1>4. IsFiniteSet(D) /\ IsFiniteSet(D \X D)
  BY FS_Product
<1> HIDE DEF D
<1>5. \A T \in SUBSET D : IsFiniteSet(T) /\ Cardinality(T) <= Cardinality(D) /\ Cardinality(T) \in Nat
  BY <1>4, FS_Subset, FS_CardinalityType
<1>6. IsFiniteSet(Matches(labels, C)) /\ Cardinality(Matches(labels, C)) \in Nat
  BY <1>3, <1>4, FS_Subset, FS_CardinalityType
<1>7. Cardinality(D) \in Nat
  BY <1>4, FS_CardinalityType
<1> QED BY <1>1, <1>2, <1>5, <1>6, <1>7 DEF D

\* One label more adds what is said, agreed and matched of it.
LEMMA OneLabelMore ==
  ASSUME NEW labels, IsFiniteSet(DOMAIN labels), NEW C, NEW c \in C
  PROVE  /\ \A column \in {1, 2} :
              Cardinality(Said(labels, column, C)) =
                Cardinality(Said(labels, column, C \ {c})) + CountOf(labels, column, c)
         /\ Cardinality(Agreed(labels, C)) =
              Cardinality(Agreed(labels, C \ {c})) + Cardinality(Agreed(labels, {c}))
         /\ Cardinality(Matches(labels, C)) =
              Cardinality(Matches(labels, C \ {c})) + CountOf(labels, 1, c) * CountOf(labels, 2, c)
<1> DEFINE rest == C \ {c}
<1>2. \A column \in {1, 2} : CountOf(labels, column, c) = Cardinality(Said(labels, column, {c}))
  BY DEF CountOf, Said
<1>3. ASSUME NEW column \in {1, 2}
      PROVE  Cardinality(Said(labels, column, C)) =
               Cardinality(Said(labels, column, rest)) + Cardinality(Said(labels, column, {c}))
  <2>1. /\ Said(labels, column, C) = Said(labels, column, rest) \cup Said(labels, column, {c})
        /\ Said(labels, column, rest) \cap Said(labels, column, {c}) = {}
    BY DEF Said
  <2> QED BY <2>1, SetsFinite, DisjointUnion
<1>4. Cardinality(Agreed(labels, C)) = Cardinality(Agreed(labels, rest)) + Cardinality(Agreed(labels, {c}))
  <2>1. /\ Agreed(labels, C) = Agreed(labels, rest) \cup Agreed(labels, {c})
        /\ Agreed(labels, rest) \cap Agreed(labels, {c}) = {}
    BY DEF Agreed, Said
  <2> QED BY <2>1, SetsFinite, DisjointUnion
<1>5. Cardinality(Matches(labels, C)) = Cardinality(Matches(labels, rest)) + Cardinality(Matches(labels, {c}))
  <2>1. /\ Matches(labels, C) = Matches(labels, rest) \cup Matches(labels, {c})
        /\ Matches(labels, rest) \cap Matches(labels, {c}) = {}
    BY DEF Matches
  <2> QED BY <2>1, SetsFinite, DisjointUnion
<1>6. Cardinality(Matches(labels, {c})) =
        Cardinality(Said(labels, 1, {c})) * Cardinality(Said(labels, 2, {c}))
  <2>1. Matches(labels, {c}) = Said(labels, 1, {c}) \X Said(labels, 2, {c})
    <3> DEFINE D == DOMAIN labels
    <3>1. ASSUME NEW p \in D \X D
          PROVE  p \in Matches(labels, {c}) <=> p \in Said(labels, 1, {c}) \X Said(labels, 2, {c})
      <4>1. PICK i, j \in D : p = <<i, j>>
        OBVIOUS
      <4>2. p \in Matches(labels, {c}) <=> labels[i][1] = c /\ labels[j][2] = c
        BY <4>1 DEF Matches
      <4>3. p \in Said(labels, 1, {c}) \X Said(labels, 2, {c}) <=> labels[i][1] = c /\ labels[j][2] = c
        BY <4>1 DEF Said
      <4> QED BY <4>2, <4>3
    <3>2. Matches(labels, {c}) \subseteq D \X D
      BY DEF Matches
    <3>3. Said(labels, 1, {c}) \X Said(labels, 2, {c}) \subseteq D \X D
      BY DEF Said
    <3> QED BY <3>1, <3>2, <3>3
  <2>2. IsFiniteSet(Said(labels, 1, {c})) /\ IsFiniteSet(Said(labels, 2, {c}))
    BY SetsFinite
  <2> QED BY <2>1, <2>2, FS_Product
<1> QED BY <1>2, <1>3, <1>4, <1>5, <1>6

\* What the sum of the code counts: pairs of items.  It exceeds half of all pairs by no
\* more than the agreed items can account for.
LEMMA ChanceFits ==
  ASSUME NEW labels, IsFiniteSet(DOMAIN labels)
  PROVE  LET n == Cardinality(DOMAIN labels)
             agree == Cardinality(Agreed(labels, Categories(labels)))
         IN /\ Chance(labels) = Cardinality(Matches(labels, Categories(labels)))
            /\ Chance(labels) \in Nat
            /\ 2 * Chance(labels) <= n * n + n * agree
<1> DEFINE n == Cardinality(DOMAIN labels)
           S == Categories(labels)
           f == [c \in S |-> CountOf(labels, 1, c) * CountOf(labels, 2, c)]
           R(C) == Cardinality(Said(labels, 1, C))
           T(C) == Cardinality(Said(labels, 2, C))
           A(C) == Cardinality(Agreed(labels, C))
           M(C) == Cardinality(Matches(labels, C))
<1>1. \A C : /\ R(C) \in Nat /\ T(C) \in Nat /\ A(C) \in Nat /\ M(C) \in Nat /\ n \in Nat
             /\ R(C) <= n /\ T(C) <= n /\ A(C) <= n
  BY SetsFinite
<1>2. \A c : CountOf(labels, 1, c) = R({c}) /\ CountOf(labels, 2, c) = T({c})
  BY DEF CountOf, Said
<1>3. IsFiniteSet(S)
  <2> DEFINE D == DOMAIN labels
             first == [i \in D |-> labels[i][1]]
             second == [i \in D |-> labels[i][2]]
  <2>1. IsFiniteSet({first[i] : i \in D}) /\ IsFiniteSet({second[i] : i \in D})
    <3>1. DOMAIN first = D /\ DOMAIN second = D /\ IsFiniteSet(D)
      OBVIOUS
    <3> HIDE DEF first, second, D
    <3> QED BY <3>1, ImageFinite
  <2>2. S = {first[i] : i \in D} \cup {second[i] : i \in D}
    BY DEF Categories
  <2> HIDE DEF first, second, S
  <2> QED BY <2>1, <2>2, FS_Union
<1>4. f \in [S -> Nat] /\ DOMAIN f = S
  <2>1. \A c : R({c}) * T({c}) \in Nat
    <3> HIDE DEF R, T
    <3> QED BY <1>1
  <2> QED BY <1>2, <2>1
<1>5. PICK g : IsSum(g, f)
  <2> HIDE DEF f, S
  <2> QED BY <1>3, <1>4, SumFits
<1>5a. /\ g \in [SUBSET S -> Nat] /\ g[S] = SumFunction(f) /\ g[{}] = 0
       /\ \A C \in SUBSET S : C # {} => \E c \in C : g[C] = f[c] + g[C \ {c}]
  <2> HIDE DEF f, S
  <2> QED BY <1>4, <1>5 DEF IsSum
<1> DEFINE G == {C \in SUBSET S : g[C] = M(C) /\ 4 * g[C] <= n * R(C) + n * T(C) + 2 * (n * A(C))}
<1>6. {} \in G
  <2>1. Said(labels, 1, {}) = {} /\ Said(labels, 2, {}) = {} /\ Agreed(labels, {}) = {} /\ Matches(labels, {}) = {}
    BY DEF Said, Agreed, Matches
  <2>2. R({}) = 0 /\ T({}) = 0 /\ A({}) = 0 /\ M({}) = 0
    BY <2>1, FS_EmptySet
  <2>3. n * 0 = 0
    BY <1>1
  <2> QED BY <1>5a, <2>2, <2>3
<1>7. ASSUME NEW C \in SUBSET S, C # {} PROVE \E c \in C : C \ {c} \in G => C \in G
  <2>1. PICK c \in C : g[C] = f[c] + g[C \ {c}]
    BY <1>5a, <1>7
  <2> DEFINE B == C \ {c}
             r == R({c})
             s == T({c})
             a == A({c})
  <2> SUFFICES ASSUME B \in G PROVE C \in G
    OBVIOUS
  <2>2. /\ r \in Nat /\ s \in Nat /\ a \in Nat /\ n \in Nat /\ r <= n /\ s <= n
        /\ R(B) \in Nat /\ T(B) \in Nat /\ A(B) \in Nat /\ M(B) \in Nat
    BY <1>1
  <2>3. R(C) = R(B) + r /\ T(C) = T(B) + s /\ A(C) = A(B) + a /\ M(C) = M(B) + r * s
    <3>1. /\ R(C) = R(B) + CountOf(labels, 1, c) /\ T(C) = T(B) + CountOf(labels, 2, c)
          /\ A(C) = A(B) + a /\ M(C) = M(B) + CountOf(labels, 1, c) * CountOf(labels, 2, c)
      BY OneLabelMore
    <3>2. CountOf(labels, 1, c) = r /\ CountOf(labels, 2, c) = s
      BY <1>2
    <3> QED BY <3>1, <3>2
  <2>4. r + s - a <= n
    <3> DEFINE X == Said(labels, 1, {c})
               Y == Said(labels, 2, {c})
    <3>1. IsFiniteSet(X) /\ IsFiniteSet(Y)
      BY SetsFinite
    <3>2. X \cap Y = Agreed(labels, {c}) /\ X \cup Y \subseteq DOMAIN labels
      BY DEF Said, Agreed
    <3> HIDE DEF X, Y
    <3>3. Cardinality(X \cup Y) = Cardinality(X) + Cardinality(Y) - Cardinality(Agreed(labels, {c}))
      <4>1. Cardinality(X \cup Y) = Cardinality(X) + Cardinality(Y) - Cardinality(X \cap Y)
        BY <3>1, FS_Union
      <4> QED BY <3>2, <4>1
    <3>4. Cardinality(X \cup Y) <= n
      BY <3>2, FS_Subset
    <3> QED BY <3>3, <3>4 DEF X, Y
  <2>5. f[c] = r * s
    BY <1>2
  <2>6. 4 * (r * s) <= n * r + n * s + 2 * (n * a)
    <3> HIDE DEF n, r, s, a
    <3> QED BY <2>2, <2>4, ProductBound
  <2>7. g[B] = M(B) /\ 4 * g[B] <= n * R(B) + n * T(B) + 2 * (n * A(B))
    OBVIOUS
  <2> HIDE DEF n, r, s, a, R, T, A, M, f, B
  <2>8. g[C] = M(C)
    BY <2>1, <2>2, <2>3, <2>5, <2>7 DEF B
  <2>9. 4 * g[C] <= n * R(C) + n * T(C) + 2 * (n * A(C))
    <3>1. g[C] = r * s + g[B]
      BY <2>1, <2>5 DEF B
    <3>2. /\ n * R(C) = n * R(B) + n * r /\ n * T(C) = n * T(B) + n * s
          /\ n * A(C) = n * A(B) + n * a
      BY <2>2, <2>3
    <3>3. /\ r * s \in Nat /\ n * r \in Nat /\ n * s \in Nat /\ n * a \in Nat
          /\ n * R(B) \in Nat /\ n * T(B) \in Nat /\ n * A(B) \in Nat
      BY <2>2
    <3>4. g[B] \in Nat
      BY <2>2, <2>7
    <3> QED BY <2>6, <2>7, <3>1, <3>2, <3>3, <3>4
  <2> QED BY <2>8, <2>9
<1>8. S \in G
  <2> HIDE DEF G, S
  <2> QED BY <1>3, <1>6, <1>7, SubsetInduction
<1>9. g[S] = M(S) /\ 4 * g[S] <= n * R(S) + n * T(S) + 2 * (n * A(S))
  BY <1>8
<1>10. R(S) = n /\ T(S) = n
  <2>1. Said(labels, 1, S) = DOMAIN labels /\ Said(labels, 2, S) = DOMAIN labels
    BY DEF Said, Categories
  <2> QED BY <2>1
<1>11. Chance(labels) = g[S]
  BY <1>5a DEF Chance
<1>12. 2 * g[S] <= n * n + n * A(S)
  <2> HIDE DEF n, R, T, A, S, M
  <2>1. n * n \in Nat /\ n * A(S) \in Nat /\ g[S] \in Nat
    BY <1>1, <1>9
  <2> QED BY <1>9, <1>10, <2>1
<1>13. M(S) \in Nat
  BY <1>1
<1> HIDE DEF G, M, f
<1> QED BY <1>9, <1>11, <1>12, <1>13 DEF M

\* Kappa as disagreement: of labels of the same item, and of labels of any two items.
Disagreed(labels) == {i \in DOMAIN labels : labels[i][1] # labels[i][2]}
Unmatched(labels) == {p \in (DOMAIN labels) \X (DOMAIN labels) : labels[p[1]][1] # labels[p[2]][2]}

KappaOf(n, observed, expected) ==
  IF expected = 0 THEN Undefined ELSE [num |-> expected - n * observed, den |-> expected]

LEMMA KappaFits ==
  ASSUME NEW labels, IsFiniteSet(DOMAIN labels)
  PROVE  LET n == Cardinality(DOMAIN labels)
             observed == Cardinality(Disagreed(labels))
             expected == Cardinality(Unmatched(labels))
         IN /\ n \in Nat /\ observed \in Nat /\ expected \in Nat
            /\ n * observed <= 2 * expected
            /\ CohenKappa(labels) = KappaOf(n, observed, expected)
<1> DEFINE D == DOMAIN labels
           n == Cardinality(D)
           S == Categories(labels)
           agreed == Agreed(labels, S)
           matched == Matches(labels, S)
           disagreed == Disagreed(labels)
           unmatched == Unmatched(labels)
           agree == Cardinality(agreed)
           chance == Chance(labels)
           observed == Cardinality(disagreed)
           expected == Cardinality(unmatched)
<1>1. /\ agreed = {i \in D : labels[i][1] = labels[i][2]}
      /\ matched = {p \in D \X D : labels[p[1]][1] = labels[p[2]][2]}
  BY DEF Agreed, Said, Matches, Categories
<1>2. D = agreed \cup disagreed /\ agreed \cap disagreed = {}
  BY <1>1 DEF Disagreed
<1>3. D \X D = matched \cup unmatched /\ matched \cap unmatched = {}
  BY <1>1 DEF Unmatched
<1>4. IsFiniteSet(D) /\ IsFiniteSet(D \X D) /\ Cardinality(D \X D) = n * n /\ n \in Nat
  BY FS_Product, FS_CardinalityType
<1>5. /\ IsFiniteSet(agreed) /\ IsFiniteSet(disagreed) /\ agree \in Nat /\ observed \in Nat
      /\ IsFiniteSet(matched) /\ IsFiniteSet(unmatched) /\ expected \in Nat
  <2> HIDE DEF agreed, disagreed, matched, unmatched, D
  <2>1. /\ agreed \in SUBSET D /\ disagreed \in SUBSET D
        /\ matched \in SUBSET (D \X D) /\ unmatched \in SUBSET (D \X D)
    BY <1>2, <1>3
  <2> QED BY <1>4, <2>1, FS_Subset, FS_CardinalityType
<1>6. n = agree + observed
  <2> HIDE DEF agreed, disagreed, D
  <2> QED BY <1>2, <1>5, DisjointUnion
<1>7. chance = Cardinality(matched) /\ chance \in Nat /\ 2 * chance <= n * n + n * agree
  BY ChanceFits
<1>8. n * n = chance + expected
  <2> HIDE DEF matched, unmatched, D, n, chance
  <2> QED BY <1>3, <1>4, <1>5, <1>7, DisjointUnion
<1>9. CohenKappa(labels) =
        IF chance = n * n THEN Undefined
        ELSE [num |-> n * agree - chance, den |-> n * n - chance]
  BY <1>1 DEF CohenKappa, Chance, Categories
<1> HIDE DEF D, n, S, agreed, matched, disagreed, unmatched, agree, chance, observed, expected
<1>10. n * agree = n * n - n * observed /\ n * n \in Nat /\ n * observed \in Nat /\ n * agree \in Nat
  BY <1>4, <1>5, <1>6
<1>11. n * observed <= 2 * expected
  BY <1>5, <1>7, <1>8, <1>10
<1>12. /\ chance = n * n <=> expected = 0
       /\ n * agree - chance = expected - n * observed
       /\ n * n - chance = expected
  BY <1>5, <1>7, <1>8, <1>10
<1>13. CohenKappa(labels) = KappaOf(n, observed, expected)
  BY <1>9, <1>12 DEF KappaOf
<1> QED BY <1>4, <1>5, <1>11, <1>13 DEF n, D, observed, expected, disagreed, unmatched

\* A kappa is a fraction between -1 and 1, or undefined.
Fractions == [num : Int, den : Nat \ {0}]
Bounded(x, m) == x \in Fractions /\ -(m * x.den) <= x.num /\ x.num <= m * x.den

LEMMA KappaBounded ==
  ASSUME NEW labels, IsFiniteSet(DOMAIN labels), CohenKappa(labels) # Undefined
  PROVE  Bounded(CohenKappa(labels), 1)
<1> DEFINE n == Cardinality(DOMAIN labels)
           observed == Cardinality(Disagreed(labels))
           expected == Cardinality(Unmatched(labels))
<1>1. /\ n \in Nat /\ observed \in Nat /\ expected \in Nat
      /\ n * observed <= 2 * expected
      /\ CohenKappa(labels) = KappaOf(n, observed, expected)
  BY KappaFits
<1> HIDE DEF n, observed, expected
<1>2. n * observed \in Nat
  BY <1>1
<1>3. expected > 0 /\ CohenKappa(labels) = [num |-> expected - n * observed, den |-> expected]
  BY <1>1 DEF KappaOf
<1> QED BY <1>1, <1>2, <1>3 DEF Bounded, Fractions

\* Adding a fraction between -1 and 1 widens the bounds by one.
LEMMA PlusBounded ==
  ASSUME NEW x, NEW y, NEW m \in Nat, Bounded(x, 1), Bounded(y, m)
  PROVE  Bounded(Plus(x, y), m + 1)
<1> DEFINE a == x.num
           b == x.den
           p == y.num
           q == y.den
<1>1. a \in Int /\ b \in Nat \ {0} /\ -b <= a /\ a <= b
  BY DEF Bounded, Fractions
<1>2. p \in Int /\ q \in Nat \ {0} /\ -(m * q) <= p /\ p <= m * q
  BY DEF Bounded, Fractions
<1>3. Plus(x, y) = [num |-> a * q + p * b, den |-> b * q]
  BY DEF Plus
<1> HIDE DEF a, b, p, q
<1>4. -(b * q) <= a * q /\ a * q <= b * q
  BY <1>1, <1>2
<1>5. -((m * q) * b) <= p * b /\ p * b <= (m * q) * b
  <2>1. m * q \in Nat
    BY <1>2
  <2> DEFINE w == m * q
  <2> HIDE DEF w
  <2>2. -(w * b) <= p * b /\ p * b <= w * b
    BY <1>1, <1>2, <2>1 DEF w
  <2> QED BY <2>2 DEF w
<1>6. (m + 1) * (b * q) = (m * q) * b + b * q
  BY <1>1, <1>2
<1>7. a * q + p * b \in Int /\ b * q \in Nat \ {0} /\ a * q \in Int /\ p * b \in Int /\ (m * q) * b \in Nat
  BY <1>1, <1>2
<1>8. /\ -((m + 1) * (b * q)) <= a * q + p * b
      /\ a * q + p * b <= (m + 1) * (b * q)
  BY <1>4, <1>5, <1>6, <1>7
<1> QED BY <1>3, <1>7, <1>8 DEF Bounded, Fractions

\* The total of fractions between -1 and 1; of one fraction it is that one.
LEMMA TotalFits ==
  ASSUME NEW f, IsFiniteSet(DOMAIN f), \A x \in DOMAIN f : Bounded(f[x], 1)
  PROVE  LET total == FoldFunction(Plus, [num |-> 0, den |-> 1], f)
         IN /\ Bounded(total, Cardinality(DOMAIN f))
            /\ \A x : DOMAIN f = {x} => total = f[x]
<1> DEFINE S == DOMAIN f
           zero == [num |-> 0, den |-> 1]
           add == [p \in S \X Fractions |-> Plus(f[p[1]], p[2])]
           Fold(g) == g = [s \in SUBSET S |-> IF s = {} THEN zero ELSE Plus(f[Some(s)], g[s \ {Some(s)}])]
           fold == CHOOSE g : Fold(g)
<1>1. \A s \in SUBSET S : s # {} => Some(s) \in s
  BY DEF Some
<1>2. zero \in Fractions /\ Bounded(zero, 0)
  BY DEF Fractions, Bounded
<1>3. \A x, y \in Fractions : Plus(x, y) \in Fractions
  BY DEF Fractions, Plus
<1>4. \A x \in S : f[x] \in Fractions
  BY DEF Bounded
<1>5. \E g : Fold(g)
  <2>1. add \in [S \X Fractions -> Fractions]
    <3> HIDE DEF S
    <3> QED BY <1>3, <1>4
  <2>2. \A x \in S, y \in Fractions : add[<<x, y>>] = Plus(f[x], y)
    OBVIOUS
  <2>3. IsFiniteSet(S)
    OBVIOUS
  <2> HIDE DEF add, S, zero
  <2>4. PICK g : IsFold(g, S, Fractions, zero, add)
    BY <1>2, <2>1, <2>3, FoldExists
  <2>5. \A s \in SUBSET S : s # {} => add[<<Some(s), g[s \ {Some(s)}]>>] = Plus(f[Some(s)], g[s \ {Some(s)}])
    BY <1>1, <2>2, <2>4 DEF IsFold
  <2>6. Fold(g)
    BY <2>4, <2>5 DEF IsFold
  <2> QED BY <2>6
<1>6. Fold(fold)
  BY <1>5
<1>7. FoldFunction(Plus, zero, f) = fold[S]
  BY Zenon DEF FoldFunction, FoldFunctionOnSet, MapThenFoldSet, Some
<1> HIDE DEF fold
<1>8. /\ fold[{}] = zero
      /\ \A s \in SUBSET S : s # {} => fold[s] = Plus(f[Some(s)], fold[s \ {Some(s)}])
  BY <1>6
<1> DEFINE G == {s \in SUBSET S : Bounded(fold[s], Cardinality(s))}
<1>9. {} \in G
  BY <1>2, <1>8, FS_EmptySet
<1>10. ASSUME NEW s \in SUBSET S, s # {} PROVE \E x \in s : s \ {x} \in G => s \in G
  <2> DEFINE x == Some(s)
  <2> SUFFICES ASSUME s \ {x} \in G PROVE s \in G
    BY <1>1, <1>10
  <2>1. IsFiniteSet(s) /\ Cardinality(s) \in Nat /\ x \in s
    BY <1>1, <1>10, FS_Subset, FS_CardinalityType
  <2>2. Cardinality(s \ {x}) = Cardinality(s) - 1 /\ Cardinality(s \ {x}) \in Nat
    BY <2>1, FS_RemoveElement, FS_CardinalityType
  <2>3. Bounded(f[x], 1) /\ Bounded(fold[s \ {x}], Cardinality(s \ {x}))
    BY <2>1
  <2>4. fold[s] = Plus(f[x], fold[s \ {x}])
    BY <1>8, <1>10
  <2> HIDE DEF x
  <2>5. Bounded(fold[s], Cardinality(s \ {x}) + 1)
    BY <2>2, <2>3, <2>4, PlusBounded
  <2>6. Cardinality(s \ {x}) + 1 = Cardinality(s)
    BY <2>1, <2>2
  <2> QED BY <2>5, <2>6
<1>11. Bounded(fold[S], Cardinality(S))
  <2>1. IsFiniteSet(S)
    OBVIOUS
  <2> HIDE DEF G, S
  <2>2. \A s \in SUBSET S : s \in G
    BY <1>9, <1>10, <2>1, SubsetInduction
  <2>3. S \in G
    BY <2>2
  <2> QED BY <2>3 DEF G
<1>12. ASSUME NEW x, S = {x} PROVE fold[S] = f[x]
  <2>1. S # {} /\ S \in SUBSET S /\ Some(S) = x /\ S \ {Some(S)} = {}
    BY <1>1, <1>12
  <2>2. fold[S] = Plus(f[x], zero)
    BY <1>8, <2>1
  <2>3. f[x] \in Fractions
    BY <1>4, <1>12
  <2> QED BY <2>2, <2>3 DEF Plus, Fractions
<1> QED BY <1>7, <1>11, <1>12

\* A pool is a sequence of items, each of which finitely many judges labelled.
PoolFits(pool) == pool \in Seq(Range(pool)) /\ \A item \in Range(pool) : IsFiniteSet(DOMAIN item)

Shared(pool, judges) == {i \in DOMAIN pool : judges \subseteq DOMAIN pool[i]}

LEMMA PairsFit ==
  ASSUME NEW pool, PoolFits(pool)
  PROVE  /\ IsFiniteSet(Pairs(pool))
         /\ \A a, b : /\ DOMAIN AlignedLabels(pool, a, b) = Shared(pool, {a, b})
                      /\ IsFiniteSet(Shared(pool, {a, b}))
<1> DEFINE D == DOMAIN pool
           judges == [i \in D |-> DOMAIN pool[i]]
<1>1. IsFiniteSet(D)
  <2>1. D = 1 .. Len(pool) /\ Len(pool) \in Nat
    BY LenProperties DEF PoolFits
  <2> QED BY <2>1, FS_Interval
<1>2. DOMAIN judges = D /\ \A i \in D : IsFiniteSet(judges[i])
  BY DEF PoolFits, Range
<1>3. JudgesInPool(pool) = UNION {judges[i] : i \in D}
  BY DEF JudgesInPool, Range
<1> HIDE DEF D, judges
<1>4. IsFiniteSet({judges[i] : i \in D})
  BY <1>1, <1>2, ImageFinite
<1>5. IsFiniteSet(JudgesInPool(pool))
  <2>1. \A T \in {judges[i] : i \in D} : IsFiniteSet(T)
    BY <1>2
  <2> QED BY <1>3, <1>4, <2>1, FS_UNION
<1>6. IsFiniteSet(Pairs(pool))
  <2>1. Pairs(pool) \in SUBSET (SUBSET JudgesInPool(pool))
    BY DEF Pairs, kSubset
  <2> QED BY <1>5, <2>1, FS_SUBSET, FS_Subset
<1>7. ASSUME NEW a, NEW b
      PROVE  /\ DOMAIN AlignedLabels(pool, a, b) = Shared(pool, {a, b})
             /\ IsFiniteSet(Shared(pool, {a, b}))
  <2>1. DOMAIN AlignedLabels(pool, a, b) = Shared(pool, {a, b})
    BY DEF AlignedLabels, Shared
  <2>2. Shared(pool, {a, b}) \in SUBSET D
    BY DEF Shared, D
  <2> QED BY <1>1, <2>1, <2>2, FS_Subset
<1> QED BY <1>6, <1>7

\* For any number of judges the mean is between -1 and 1, or undefined.
LEMMA OverallFits ==
  ASSUME NEW pool, PoolFits(pool), OverallKappa(pool) # Undefined
  PROVE  Bounded(OverallKappa(pool), 1)
<1> DEFINE defined == {p \in Pairs(pool) : PairKappa(pool, p) # Undefined}
           f == [p \in defined |-> PairKappa(pool, p)]
           total == FoldFunction(Plus, [num |-> 0, den |-> 1], f)
           m == Cardinality(defined)
<1>1. IsFiniteSet(defined) /\ m \in Nat
  BY PairsFit, FS_Subset, FS_CardinalityType
<1>2. \A p \in defined : Bounded(PairKappa(pool, p), 1)
  <2> SUFFICES ASSUME NEW p \in defined PROVE Bounded(PairKappa(pool, p), 1)
    OBVIOUS
  <2> DEFINE a == CHOOSE j \in p : TRUE
             b == CHOOSE j \in p : j # a
             labels == AlignedLabels(pool, a, b)
  <2>1. PairKappa(pool, p) = CohenKappa(labels)
    BY DEF PairKappa
  <2>2. IsFiniteSet(DOMAIN labels)
    <3> HIDE DEF a, b
    <3> QED BY PairsFit
  <2>3. CohenKappa(labels) # Undefined
    BY <2>1
  <2> HIDE DEF labels
  <2> QED BY <2>1, <2>2, <2>3, KappaBounded
<1>3. DOMAIN f = defined /\ \A p \in defined : Bounded(f[p], 1)
  BY <1>2
<1>4. Bounded(total, m)
  <2> HIDE DEF f, defined
  <2> QED BY <1>1, <1>3, TotalFits
<1>5. OverallKappa(pool) = IF defined = {} THEN Undefined ELSE [num |-> total.num, den |-> total.den * m]
  BY DEF OverallKappa
<1>6. defined # {}
  BY <1>5
<1>7. m # 0
  BY <1>1, <1>6, FS_EmptySet
<1> HIDE DEF f, defined, total, m
<1>8. /\ total.num \in Int /\ total.den \in Nat \ {0}
      /\ -(m * total.den) <= total.num /\ total.num <= m * total.den
  BY <1>4 DEF Bounded, Fractions
<1>9. total.den * m \in Nat \ {0} /\ total.den * m = m * total.den
  BY <1>1, <1>7, <1>8
<1> QED BY <1>5, <1>6, <1>8, <1>9 DEF Bounded, Fractions

\* Whose labels come first does not matter.
LEMMA KappaSymmetric ==
  ASSUME NEW pool, PoolFits(pool), NEW a, NEW b
  PROVE  CohenKappa(AlignedLabels(pool, a, b)) = CohenKappa(AlignedLabels(pool, b, a))
<1> DEFINE there == AlignedLabels(pool, a, b)
           back == AlignedLabels(pool, b, a)
           D == Shared(pool, {a, b})
           U == Unmatched(there)
           V == Unmatched(back)
           swap == [p \in U |-> <<p[2], p[1]>>]
<1>1. DOMAIN there = D /\ DOMAIN back = D /\ IsFiniteSet(D)
  <2>1. {a, b} = {b, a}
    OBVIOUS
  <2> QED BY <2>1, PairsFit
<1>2. \A i \in D : there[i][1] = back[i][2] /\ there[i][2] = back[i][1]
  BY <1>1 DEF AlignedLabels
<1>3. Disagreed(there) = Disagreed(back)
  <2> HIDE DEF there, back
  <2> QED BY <1>1, <1>2 DEF Disagreed
<1>4. /\ U = {p \in D \X D : there[p[1]][1] # there[p[2]][2]}
      /\ V = {p \in D \X D : back[p[1]][1] # back[p[2]][2]}
  BY <1>1 DEF Unmatched
<1> HIDE DEF there, back, D, U, V
<1>5. V = {swap[p] : p \in U}
  <2>1. ASSUME NEW p \in U PROVE swap[p] \in V
    BY <1>2, <1>4, <2>1
  <2>2. ASSUME NEW q \in V PROVE <<q[2], q[1]>> \in U /\ swap[<<q[2], q[1]>>] = q
    BY <1>2, <1>4, <2>2
  <2> QED BY <2>1, <2>2
<1>6. \A p, q \in U : swap[p] = swap[q] => p = q
  BY <1>4
<1>7. IsFiniteSet(U)
  <2>1. IsFiniteSet(D \X D) /\ U \in SUBSET (D \X D)
    BY <1>1, <1>4, FS_Product
  <2> QED BY <2>1, FS_Subset
<1>8. Cardinality(U) = Cardinality(V)
  <2>1. DOMAIN swap = U
    OBVIOUS
  <2> HIDE DEF swap
  <2> QED BY <1>5, <1>6, <1>7, <2>1, ImageFinite
<1>9. /\ CohenKappa(there) = KappaOf(Cardinality(D), Cardinality(Disagreed(there)), Cardinality(U))
      /\ CohenKappa(back) = KappaOf(Cardinality(D), Cardinality(Disagreed(back)), Cardinality(V))
  BY <1>1, KappaFits DEF U, V
<1> QED BY <1>3, <1>8, <1>9 DEF there, back

\* Of two judges it is their kappa.
LEMMA TwoJudges ==
  ASSUME NEW pool, PoolFits(pool), NEW a, NEW b, a # b, JudgesInPool(pool) = {a, b}
  PROVE  OverallKappa(pool) = CohenKappa(AlignedLabels(pool, a, b))
<1> DEFINE pair == {a, b}
           kappa == CohenKappa(AlignedLabels(pool, a, b))
           defined == {p \in Pairs(pool) : PairKappa(pool, p) # Undefined}
           f == [p \in defined |-> PairKappa(pool, p)]
           total == FoldFunction(Plus, [num |-> 0, den |-> 1], f)
<1>1. IsFiniteSet(pair) /\ Cardinality(pair) = 2
  <2>1. /\ IsFiniteSet({a}) /\ IsFiniteSet({b}) /\ Cardinality({a}) = 1 /\ Cardinality({b}) = 1
        /\ {a} \cap {b} = {} /\ pair = {a} \cup {b}
    BY FS_Singleton
  <2> HIDE DEF pair
  <2>2. IsFiniteSet(pair) /\ Cardinality(pair) = Cardinality({a}) + Cardinality({b})
    BY <2>1, DisjointUnion, FS_Union
  <2> QED BY <2>1, <2>2
<1>2. Pairs(pool) = {pair}
  <2>1. Pairs(pool) = {s \in SUBSET pair : Cardinality(s) = 2}
    BY DEF Pairs, kSubset
  <2>2. \A s \in SUBSET pair : Cardinality(s) = 2 => s = pair
    <3> HIDE DEF pair
    <3> QED BY <1>1, FS_Subset
  <2> HIDE DEF pair
  <2> QED BY <1>1, <2>1, <2>2
<1>3. PairKappa(pool, pair) = kappa
  <2> DEFINE x == CHOOSE j \in pair : TRUE
             y == CHOOSE j \in pair : j # x
  <2>1. x \in pair
    OBVIOUS
  <2>2. y \in pair /\ y # x
    <3> HIDE DEF x
    <3> QED BY <2>1
  <2>3. PairKappa(pool, pair) = CohenKappa(AlignedLabels(pool, x, y))
    BY DEF PairKappa
  <2> HIDE DEF x, y
  <2>4. (x = a /\ y = b) \/ (x = b /\ y = a)
    BY <2>1, <2>2
  <2> QED BY <2>3, <2>4, KappaSymmetric
<1>4. OverallKappa(pool) = IF defined = {} THEN Undefined
                           ELSE [num |-> total.num, den |-> total.den * Cardinality(defined)]
  BY DEF OverallKappa
<1> HIDE DEF kappa, pair
<1>5. CASE kappa = Undefined
  BY <1>2, <1>3, <1>4, <1>5 DEF kappa
<1>6. CASE kappa # Undefined
  <2>1. defined = {pair} /\ Cardinality(defined) = 1
    BY <1>2, <1>3, <1>6, FS_Singleton
  <2>2. Bounded(kappa, 1)
    BY <1>6, PairsFit, KappaBounded DEF kappa
  <2>3. DOMAIN f = {pair} /\ f[pair] = kappa
    BY <1>3, <2>1
  <2>4. total = kappa
    <3> HIDE DEF f
    <3>1. IsFiniteSet(DOMAIN f) /\ \A x \in DOMAIN f : Bounded(f[x], 1)
      BY <2>2, <2>3, FS_Singleton
    <3> QED BY <2>3, <3>1, TotalFits
  <2>5. OverallKappa(pool) = [num |-> kappa.num, den |-> kappa.den * 1]
    BY <1>4, <2>1, <2>4
  <2> QED BY <2>2, <2>5 DEF Bounded, Fractions, kappa
<1> QED BY <1>5, <1>6

\* The items that do not match among those in S, as the property counts them.
Differing(pool, a, b, S) == {s \in S : pool[s[1]][a] # pool[s[2]][b]}

LEMMA DifferingCounts ==
  ASSUME NEW pool, PoolFits(pool), NEW a, NEW b
  PROVE  LET labels == AlignedLabels(pool, a, b)
             shared == Shared(pool, {a, b})
         IN /\ Cardinality(Differing(pool, a, b, {<<i, i>> : i \in shared})) = Cardinality(Disagreed(labels))
            /\ Cardinality(Differing(pool, a, b, shared \X shared)) = Cardinality(Unmatched(labels))
<1> DEFINE labels == AlignedLabels(pool, a, b)
           shared == Shared(pool, {a, b})
           X == Disagreed(labels)
           twice == [i \in X |-> <<i, i>>]
<1>1. /\ DOMAIN labels = shared /\ IsFiniteSet(shared)
      /\ \A i \in shared : labels[i][1] = pool[i][a] /\ labels[i][2] = pool[i][b]
  <2>1. DOMAIN labels = shared /\ IsFiniteSet(shared)
    BY PairsFit
  <2> QED BY <2>1 DEF AlignedLabels
<1> HIDE DEF labels, shared
<1>2. Differing(pool, a, b, shared \X shared) = Unmatched(labels)
  BY <1>1 DEF Differing, Unmatched
<1>3. X = {i \in shared : pool[i][a] # pool[i][b]}
  BY <1>1 DEF Disagreed
<1>4. Differing(pool, a, b, {<<i, i>> : i \in shared}) = {twice[i] : i \in X}
  BY <1>3 DEF Differing
<1>5. IsFiniteSet(X) /\ DOMAIN twice = X /\ \A i, j \in X : twice[i] = twice[j] => i = j
  <2>1. X \in SUBSET shared
    BY <1>3
  <2>2. \A i, j \in X : twice[i] = twice[j] => i = j
    OBVIOUS
  <2> QED BY <1>1, <2>1, <2>2, FS_Subset
<1>6. Cardinality({twice[i] : i \in X}) = Cardinality(X)
  <2> HIDE DEF twice, X
  <2> QED BY <1>5, ImageFinite
<1> QED BY <1>2, <1>4, <1>6 DEF labels, shared

LEMMA AgreementByInv == BInv => AgreementEarned
<1> SUFFICES ASSUME BInv, stage = "reported" PROVE AgreementEarned
  BY DEF AgreementEarned
<1> DEFINE pool == bench.pool
           judges == JudgesInPool(pool)
<1>1. /\ PoolFits(pool)
      /\ agreement = IF OverallKappa(pool) = Undefined THEN bench.declared ELSE OverallKappa(pool)
  BY BenchAssumption DEF BInv, PoolFits, Disclosed
<1>2. agreement # bench.declared =>
        agreement.den > 0 /\ agreement.num \in -agreement.den .. agreement.den
  <2>1. OverallKappa(pool) # Undefined => Bounded(OverallKappa(pool), 1)
    BY <1>1, OverallFits
  <2> HIDE DEF pool
  <2> QED BY <1>1, <2>1 DEF Bounded, Fractions
<1>3. ASSUME NEW a \in judges, NEW b \in judges, a # b, judges = {a, b}
      PROVE  LET shared == Shared(pool, judges)
                 observed == Cardinality(Differing(pool, a, b, {<<i, i>> : i \in shared}))
                 expected == Cardinality(Differing(pool, a, b, shared \X shared))
             IN IF expected = 0 THEN agreement = bench.declared
                ELSE /\ agreement.den > 0
                     /\ (agreement.den - agreement.num) * expected
                          = Cardinality(shared) * observed * agreement.den
  <2> DEFINE labels == AlignedLabels(pool, a, b)
             shared == Shared(pool, judges)
             n == Cardinality(shared)
             observed == Cardinality(Differing(pool, a, b, {<<i, i>> : i \in shared}))
             expected == Cardinality(Differing(pool, a, b, shared \X shared))
  <2>1. OverallKappa(pool) = CohenKappa(labels)
    BY <1>1, <1>3, TwoJudges
  <2>2. DOMAIN labels = shared /\ IsFiniteSet(shared)
    BY <1>1, <1>3, PairsFit
  <2>3. observed = Cardinality(Disagreed(labels)) /\ expected = Cardinality(Unmatched(labels))
    BY <1>1, <1>3, DifferingCounts
  <2> HIDE DEF labels, shared, observed, expected, pool
  <2>4. n \in Nat /\ observed \in Nat /\ expected \in Nat /\ CohenKappa(labels) = KappaOf(n, observed, expected)
    BY <2>2, <2>3, KappaFits
  <2> HIDE DEF n
  <2>5. IF expected = 0 THEN agreement = bench.declared
        ELSE agreement.den > 0 /\ (agreement.den - agreement.num) * expected = n * observed * agreement.den
    <3>1. CASE expected = 0
      BY <1>1, <2>1, <2>4, <3>1 DEF KappaOf
    <3>2. CASE expected # 0
      <4>1. OverallKappa(pool) = [num |-> expected - n * observed, den |-> expected]
        BY <2>1, <2>4, <3>2 DEF KappaOf
      <4>2. agreement = [num |-> expected - n * observed, den |-> expected]
        BY <1>1, <2>4, <3>2, <4>1 DEF Undefined
      <4>3. expected - (expected - n * observed) = n * observed
        BY <2>4
      <4> QED BY <2>4, <3>2, <4>2, <4>3
    <3> QED BY <3>1, <3>2
  <2> QED BY <2>5 DEF n, observed, expected, shared
<1> HIDE DEF judges, pool
<1> QED BY <1>2, <1>3 DEF AgreementEarned, Shared, Differing, judges, pool

------------------------------------------------------------------------------
\* What is measured is the ranking of the whole corpus, or nothing where the corpus does not
\* support the query, although each tradition is only asked for its own first k lines: for
\* any traditions and corpora, both scorings, and any cutoffs.
THEOREM TopIsGlobal == Spec => []GlobalTopK
BY TopByInv, BInductive, PTL

\* Recall, first rank and false support mean what they say, for any fixtures that are found
\* valid, over any corpus in which a key names one record.
THEOREM MeasuresAreSound == Spec => []MeasuresSound
BY MeasuresByInv, BInductive, PTL

\* The agreement that is disclosed of two judges is how much less they disagree on the same
\* items than on any items, and of any number of judges between -1 and 1: for pools of any
\* size with any labels.  It is a number exactly if the labels of two judges could differ.
THEOREM AgreementIsEarned == Spec => []AgreementEarned
BY AgreementByInv, BInductive, PTL
================================================================================
