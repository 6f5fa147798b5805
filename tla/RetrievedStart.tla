---------------------------- MODULE RetrievedStart ----------------------------
(* A start whose envelope comes from the retriever, from the lines of the      *)
(* reference file to the saved catalog.  request.search holds the search that  *)
(* gave the envelope, with its query, k and gate, if there was one.            *)
EXTENDS StartRun, Inventory

ASSUME SearchAssumption ==
  \A q \in Requests : \A search \in q.search :
    /\ q.envelope = RetrieveEnvelope(search)
    /\ search.k \in Nat \ {0} /\ search.gated \in BOOLEAN

Beats(query, m, n) ==
  Score(query, m) > Score(query, n) \/ (Score(query, m) = Score(query, n) /\ m < n)

\* The catalog shows S1, S2, ... in the order of the ranking: S<i> is the line that
\* exactly i-1 entries of the corpus beat, whatever comes in between, and there are
\* as many as were asked for and exist.  Behind the gate there are none if no line
\* of the corpus supports the query, and otherwise the same ones as without it.
\* A run without structured claims has no catalog, whatever was searched.
EvidenceRanked ==
  \A search \in request.search :
    LET supported == \E n \in Entries : Score(search.query, n) >= NoAnswerThreshold
        wanted == IF search.k < Cardinality(Entries) THEN search.k ELSE Cardinality(Entries)
    IN run.saved /\ "structured" \in run.flags =>
         /\ Len(run.catalog) = IF search.gated /\ ~supported THEN 0 ELSE wanted
         /\ \A i \in DOMAIN run.catalog :
              LET line == run.catalog[i].line
              IN /\ line \in Entries
                 /\ Cardinality({n \in Entries : Beats(search.query, n, line)}) = i - 1

\* The finalizer's gates on the metadata of a seed: _rights_ok, and the enums that
\* _resolve_representation asks for.
RightsOk(seed) ==
  seed.declared \cap {"representation_kind", "off_enum_kind", "rendering_mode", "off_enum_mode",
                      "provenance", "empty_provenance"} # {}
    => "rights" \in seed.declared
EnumsOk(seed) == {"off_enum_kind", "off_enum_mode"} \cap seed.declared = {}

\* _build_authority_unit refuses the seed, whatever the claim that leads with it.
SeedRefused(seed) == "interpretation_only" \in seed.declared \/ ~RightsOk(seed) \/ ~EnumsOk(seed)

EnumReasons == {"representation-kind-not-in-enum", "rendering-mode-not-in-enum"}
MirroredReasons == EnumReasons \cup {"curated-presentation-without-rights"}

\* "Checks mirror the renderer's real admissibility gates", as far as they do.  The gates
\* that both have, rights and enums, agree on every record and the seed that it becomes
\* behind the sidecar, the ranking, the envelope, the adapter and the catalog.  What the
\* finalizer refuses without such a reason it refuses as interpretation-only, a gate that
\* the inventory does not know; and no other reason keeps it from accepting a seed.
InventoryForetells ==
  \A search \in request.search, i \in DOMAIN run.catalog :
    LET seed == run.catalog[i]
        mirrored == Reasons(Record(seed.line)) \cap MirroredReasons
    IN /\ "curated-presentation-without-rights" \in mirrored <=> ~RightsOk(seed)
       /\ EnumReasons \cap mirrored # {} <=> ~EnumsOk(seed)
       /\ SeedRefused(seed) <=> mirrored # {} \/ "interpretation_only" \in seed.declared
===============================================================================
