------------------------------ MODULE MCBenchmark ------------------------------
(* Two traditions with up to three lines each, two queries, and the judges'    *)
(* pools; families for the searches, for the fixtures and for the pools.       *)
EXTENDS Benchmark

TwoTraditions == {1, 2}
Line(place, haystack) == [entry |-> TRUE, text |-> place, place |-> place, haystack |-> haystack]
Heading == [Line("none", {"love", "law"}) EXCEPT !.entry = FALSE]

\* The records with most support are in one tradition, or tie across both, or two
\* records have one key, or there is none.
Corpora ==
  {<<<<Line("p1", {"love", "law"}), Line("p2", {"law"}), Line("p3", {"love law", "love", "law"})>>,
     <<Heading, Line("p1", {"l"}), Line("p2", {})>>>>,
   <<<<Line("p1", {"law"}), Line("p2", {"love"})>>,
     <<Line("p1", {"law"}), Line("p2", {"love"}), Line("p3", {"law", "l"})>>>>,
   <<<<Line("p1", {"law"}), Line("p1", {"law"}), Line("p2", {"love"})>>,
     <<Heading, Line("p1", {"love"})>>>>,
   <<<<Heading>>, <<>>>>}

Love == [phrase |-> "love law", long |-> {"love", "law"}, short |-> {"l"}]
War == [phrase |-> "war", long |-> {"war"}, short |-> {"l"}]

Keys == {<<t, p>> : t \in TwoTraditions, p \in {"p1", "p2", "p3"}}
\* Scores of a ranking that is not the lexical one, with ties.
Weights ==
  <<[k \in Keys |-> CASE k = <<2, "p2">> -> 3 [] k[2] = "p1" -> 2 [] OTHER -> 0],
    [k \in Keys |-> IF k[1] = 1 THEN 1 ELSE 0]>>

Entry(t, p, relevance) == [key |-> <<t, p>>, relevance |-> relevance]
Relevant(entries_) == [noAnswer |-> FALSE, relevant |-> entries_]
NoAnswer == [noAnswer |-> TRUE, relevant |-> {}]
Judged == <<Relevant({Entry(1, "p1", 2), Entry(2, "p1", 1), Entry(1, "p2", 0)}), NoAnswer>>

Ordinary ==
  [corpus |-> CHOOSE c \in Corpora : Len(c[1]) = 3 /\ Len(c[2]) = 3, queries |-> <<Love, War>>,
   judgments |-> Judged, ks |-> {1, 3}, candidate |-> "none", threshold |-> 3, bm25 |-> Weights,
   pool |-> <<>>, declared |-> Undefined]

Ranked ==
  {[Ordinary EXCEPT !.corpus = c, !.ks = ks, !.candidate = d, !.threshold = s,
                    !.judgments = j] :
     c \in Corpora, ks \in {{1}, {2}, {1, 3}, {6}}, d \in CandidateTypes, s \in {1, 3, 15},
     j \in {Judged, <<Relevant({}), Relevant({Entry(1, "p2", 1)})>>}}

Fixtures ==
  {[Ordinary EXCEPT !.judgments = j, !.ks = {6}] :
     j \in {<<Relevant({Entry(1, "p9", 1)}), NoAnswer>>, <<Relevant({Entry(1, "p1", 3)}), NoAnswer>>,
            <<Judged[1], [noAnswer |-> TRUE, relevant |-> {Entry(1, "p1", 1)}]>>, <<Judged[1]>>,
            <<Relevant({Entry(1, "p9", 0)}), NoAnswer>>}}

\* Pools of up to two judges with three labels and two items, or two labels and three
\* items, and of three judges; the figure written down may be from an earlier pass.
Items(labels) == UNION {[J -> labels] : J \in SUBSET {"curator", "model"}}
Pools ==
  UNION {[1 .. n -> Items(0 .. 2)] : n \in 0 .. 2} \cup [1 .. 3 -> Items(0 .. 1)]
    \cup [1 .. 2 -> [{"curator", "model", "guest"} -> 0 .. 1]]
Pooled ==
  {[Ordinary EXCEPT !.queries = <<>>, !.judgments = <<>>, !.bm25 = <<>>, !.pool = p,
                    !.declared = IF Len(p) = 2 THEN [num |-> 9, den |-> 10] ELSE Undefined] : p \in Pools}

AllBenches == Ranked \cup Fixtures \cup Pooled
================================================================================
