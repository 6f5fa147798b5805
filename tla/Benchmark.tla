------------------------------- MODULE Benchmark -------------------------------
(* The retrieval benchmark (scripts/run_retrieval_benchmark.py): it validates   *)
(* its fixtures against the corpus, asks every query, of the baseline or of a   *)
(* candidate, measures what came back, and discloses how far the judges agreed. *)
(*                                                                              *)
(* The whole corpus is ranked through the retriever of each tradition, which    *)
(* only gives its own first k lines.  A BM25 score is a number that depends on  *)
(* the query and on the key of a record; where it comes from is left out.       *)
EXTENDS Agreement, Ranking

CONSTANTS
  Traditions,  \* numbered in the order of their names
  Benches      \* fixtures and configurations

CandidateTypes == {"none", "lexical-threshold", "lexical-bm25", "lexical-bm25-threshold"}

ASSUME TraditionAssumption == Traditions \subseteq Nat /\ IsFiniteSet(Traditions)
ASSUME BenchAssumption ==
  \A b \in Benches :
    /\ b.candidate \in CandidateTypes /\ b.threshold \in Nat \ {0}
    /\ b.ks \subseteq Nat \ {0} /\ b.ks # {} /\ IsFiniteSet(b.ks)
    /\ b.queries \in Seq(Range(b.queries))
    /\ \A t \in Traditions :
         /\ b.corpus[t] \in Seq(Range(b.corpus[t]))
         /\ \A line \in Range(b.corpus[t]) :
              /\ line.entry \in BOOLEAN /\ IsFiniteSet(line.haystack)
              /\ line.entry => \A i \in DOMAIN b.queries : b.bm25[i][<<t, line.place>>] \in Nat
    /\ \A i \in DOMAIN b.judgments :
         b.judgments[i].noAnswer \in BOOLEAN /\ IsFiniteSet(b.judgments[i].relevant)
    /\ b.pool \in Seq(Range(b.pool)) /\ \A item \in Range(b.pool) : IsFiniteSet(DOMAIN item)

VARIABLES
  bench,    \* what is measured
  stage,    \* of the run: validating, asking, reported or refused
  entries,  \* the measures of the queries that have been asked
  agreement \* what is disclosed of the judges

vars == <<bench, stage, entries, agreement>>

In(t) == INSTANCE Retrieval WITH Reference <- bench.corpus[t], Sidecar <- <<>>

\* corpus_records: a record is a tradition and a line; its key is not the line.
CorpusRecords == UNION {{<<t, n>> : n \in In(t)!Entries} : t \in Traditions}
RecordKey(r) == <<r[1], bench.corpus[r[1]][r[2]].place>>

LexicalScore(query, r) == In(r[1])!Score(query, r[2])
Bm25Score(i, r) == bench.bm25[i][RecordKey(r)]

\* The total order of both searches: falling score, line, tradition.
Precedes(x, vx, y, vy) ==
  \/ vx > vy
  \/ vx = vy /\ (x[2] < y[2] \/ (x[2] = y[2] /\ x[1] < y[1]))

\* What the traditions' retrievers give for k.
Candidates(query, k) ==
  UNION {{<<t, n>> : n \in Range(In(t)!Retrieve(query, k))} : t \in Traditions}

ByLexicalScore(query, S) ==
  Sorted(S, {p \in S \X S : Precedes(p[1], LexicalScore(query, p[1]), p[2], LexicalScore(query, p[2]))})

\* Mutant of Search: half of k is asked of each tradition.
SearchHalf(query, k) == FirstOf(ByLexicalScore(query, Candidates(query, (k + 1) \div 2)), k)

\* search: the first k of the union, by the lexical score.
Search(query, k) == FirstOf(ByLexicalScore(query, Candidates(query, k)), k)

\* search_bm25: the whole corpus is asked for and ranked anew.
SearchBm25(i, k) ==
  LET size == Cardinality(CorpusRecords)
      all == Candidates(bench.queries[i], IF size = 0 THEN 1 ELSE size)
      before == {p \in all \X all : Precedes(p[1], Bm25Score(i, p[1]), p[2], Bm25Score(i, p[2]))}
  IN FirstOf(Sorted(all, before), k)

MaxK == CHOOSE k \in bench.ks : \A l \in bench.ks : l <= k
UsesBm25 == bench.candidate \in {"lexical-bm25", "lexical-bm25-threshold"}
UsesThreshold == bench.candidate \in {"lexical-threshold", "lexical-bm25-threshold"}

Rank(i) == IF UsesBm25 THEN SearchBm25(i, MaxK) ELSE Search(bench.queries[i], MaxK)

\* The best lexical score is the confidence, whatever the ranking is by.
ApplyThreshold(i, raw) ==
  LET query == bench.queries[i]
      lexical == IF UsesBm25 THEN Search(query, MaxK) ELSE raw
      confidence == IF lexical = <<>> THEN 0 ELSE LexicalScore(query, lexical[1])
  IN IF UsesThreshold /\ confidence < bench.threshold THEN <<>> ELSE raw

ScoreOf(i, r) == IF UsesBm25 THEN Bm25Score(i, r) ELSE LexicalScore(bench.queries[i], r)

\* A query without a judgment counts as answerable, with nothing relevant to it.
Judgment(i) ==
  IF i \in DOMAIN bench.judgments THEN bench.judgments[i] ELSE [noAnswer |-> FALSE, relevant |-> {}]
RelevantKeys(i) == {e.key : e \in {f \in Judgment(i).relevant : f.relevance >= 1}}
Positions(i, ranked) == {p \in DOMAIN ranked : RecordKey(ranked[p]) \in RelevantKeys(i)}

\* evaluate_answerable and evaluate_no_answer; the gains of nDCG are left out.
Evaluate(i, ranked) ==
  LET hits == Positions(i, ranked)
  IN [ranked |-> ranked, noAnswer |-> Judgment(i).noAnswer,
      relevant |-> Cardinality(RelevantKeys(i)),
      found |-> [k \in bench.ks |-> Cardinality({p \in hits : p <= k})],
      firstRank |-> IF hits = {} THEN 0 ELSE CHOOSE p \in hits : \A q \in hits : p <= q,
      falseSupport |-> Judgment(i).noAnswer /\ ranked # <<>> /\ ScoreOf(i, ranked[1]) > 0]

\* Mutant of Valid: a judgment may name a record that the corpus does not have.
ValidLoosely(b) ==
  /\ DOMAIN b.judgments = DOMAIN b.queries
  /\ \A i \in DOMAIN b.judgments :
       /\ b.judgments[i].noAnswer => b.judgments[i].relevant = {}
       /\ \A e \in b.judgments[i].relevant : e.relevance \in 0 .. 2

\* validate_fixtures, without the fields that only have to be present.
Valid(b) ==
  /\ DOMAIN b.judgments = DOMAIN b.queries
  /\ \A i \in DOMAIN b.judgments :
       /\ b.judgments[i].noAnswer => b.judgments[i].relevant = {}
       /\ \A e \in b.judgments[i].relevant :
            e.relevance \in 0 .. 2 /\ e.key \in {RecordKey(r) : r \in CorpusRecords}

Init ==
  /\ bench \in Benches
  /\ stage = "validating" /\ entries = <<>> /\ agreement = Undefined

Validate ==
  /\ stage = "validating"
  /\ stage' = IF Valid(bench) THEN "asking" ELSE "refused"
  /\ UNCHANGED <<bench, entries, agreement>>

Ask ==
  LET i == Len(entries) + 1
  IN /\ stage = "asking" /\ i <= Len(bench.queries)
     /\ entries' = Append(entries, Evaluate(i, ApplyThreshold(i, Rank(i))))
     /\ UNCHANGED <<bench, stage, agreement>>

\* judging_disclosure: a computed kappa goes before the one that is written down.
Disclose ==
  /\ stage = "asking" /\ Len(entries) = Len(bench.queries)
  /\ stage' = "reported"
  /\ agreement' =
       IF OverallKappa(bench.pool) = Undefined THEN bench.declared ELSE OverallKappa(bench.pool)
  /\ UNCHANGED <<bench, entries>>

Next == Validate \/ Ask \/ Disclose

Spec == Init /\ [][Next]_vars

--------------------------------------------------------------------------------
Best(i) == {LexicalScore(bench.queries[i], r) : r \in CorpusRecords}
Supported(i) == \E s \in Best(i) : s >= bench.threshold

\* Although each tradition gives only its own first k lines, the ranking that is
\* measured is the one of the whole corpus: at position p stands the record that
\* exactly p - 1 others go before, and there are k of them if the corpus has so many.
\* A threshold takes all or nothing, by the best lexical score of the whole corpus.
GlobalTopK ==
  \A i \in DOMAIN entries :
    LET ranked == entries[i].ranked
        Before(x, y) == Precedes(x, ScoreOf(i, x), y, ScoreOf(i, y))
        wanted == IF MaxK < Cardinality(CorpusRecords) THEN MaxK ELSE Cardinality(CorpusRecords)
    IN /\ Len(ranked) = IF UsesThreshold /\ ~Supported(i) THEN 0 ELSE wanted
       /\ \A p \in DOMAIN ranked :
            Cardinality({r \in CorpusRecords : Before(r, ranked[p])}) = p - 1

\* What is reported of an answerable query fits together and means what it says, if no
\* two records of the corpus have the same key: recall is at most 1, and is 1 once k
\* reaches the size of the corpus and nothing was cut off; the first relevant rank is
\* the least cutoff with a hit; and an unanswerable query has false support exactly if
\* any record of the corpus scores for it and nothing was cut off.
KeysDistinct == \A r, s \in CorpusRecords : RecordKey(r) = RecordKey(s) => r = s
MeasuresSound ==
  KeysDistinct =>
    \A i \in DOMAIN entries :
      LET e == entries[i]
      IN /\ \A k \in bench.ks :
              /\ e.found[k] <= e.relevant /\ e.found[k] <= k
              /\ (e.firstRank \in 1 .. k) <=> e.found[k] > 0
              /\ k >= Cardinality(CorpusRecords) /\ e.ranked # <<>> => e.found[k] = e.relevant
         /\ e.falseSupport <=>
              e.noAnswer /\ e.ranked # <<>> /\ \E r \in CorpusRecords : ScoreOf(i, r) > 0

\* The agreement that is disclosed of two judges is one less the disagreement between
\* their labels of the same items over the disagreement between their labels of any
\* items; it is disclosed as a number exactly if some item is labelled by both and
\* their labels could have differed, and lies between -1 and 1 for any number of judges.
AgreementEarned ==
  stage = "reported" =>
    LET pool == bench.pool
        judges == JudgesInPool(pool)
        shared == {i \in DOMAIN pool : judges \subseteq DOMAIN pool[i]}
        Differ(a, b, S) == Cardinality({s \in S : pool[s[1]][a] # pool[s[2]][b]})
    IN /\ agreement # bench.declared => agreement.den > 0 /\ agreement.num \in -agreement.den .. agreement.den
       /\ \A a, b \in judges :
            a # b /\ judges = {a, b} =>
              LET observed == Differ(a, b, {<<i, i>> : i \in shared})
                  expected == Differ(a, b, shared \X shared)
              IN IF expected = 0 THEN agreement = bench.declared
                 ELSE /\ agreement.den > 0
                      /\ (agreement.den - agreement.num) * expected
                           = Cardinality(shared) * observed * agreement.den
================================================================================
