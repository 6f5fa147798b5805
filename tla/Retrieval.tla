------------------------------- MODULE Retrieval -------------------------------
(***************************************************************************)
(* The lexical retriever whose envelope a structured debate_start is given *)
(* (skills/religion-council/scripts/retrieve.py), and the no-answer gate   *)
(* over it (orchestrator/project_retrieve.py).                             *)
(*                                                                         *)
(* Text is abstracted to the features of queries that occur in it: for a   *)
(* line, `haystack' holds the phrases, words, two-character pieces and     *)
(* single characters that its topic, text, work, locator or school contain.*)
(***************************************************************************)
EXTENDS Ranking, Functions

CONSTANTS
  Reference,  \* the lines of one tradition's reference file
  Sidecar     \* the entries of presentation.json for that tradition

\* The curated fields, with a name of its own for each kind of value that some part
\* of the program tells from others: no member of the enum, a blank note, an empty object.
Fields ==
  {"representation_kind", "off_enum_kind", "rendering_mode", "off_enum_mode", "provenance",
   "empty_provenance", "rights", "blank_rights", "interpretation_only"}

ASSUME ReferenceAssumption ==
  /\ Reference \in Seq(Range(Reference))
  /\ \A line \in Range(Reference) : line.entry \in BOOLEAN /\ IsFiniteSet(line.haystack)
ASSUME SidecarAssumption ==
  \A c \in DOMAIN Sidecar : Sidecar[c].typed \cup Sidecar[c].garbled \subseteq Fields

\* Lines that ENTRY_RE matches; all others are skipped.
Entries == {n \in DOMAIN Reference : Reference[n].entry}

\* What the sidecar says of a (work, locator): of two entries the later one
\* counts, and of its fields those that have the expected type.
Curation(place) ==
  LET matching == {c \in DOMAIN Sidecar : Sidecar[c].place = place}
  IN IF matching = {} THEN {}
     ELSE Sidecar[CHOOSE c \in matching : \A d \in matching : d <= c].typed

\* parse_reference: the record of a line, with the number of the line as its hint.
Record(n) ==
  [text |-> Reference[n].text, hint |-> n, key |-> "none", place |-> Reference[n].place,
   declared |-> Curation(Reference[n].place)]

\* The whole query counts 10, a feature of several characters 2, a single one 1.
Score(query, n) ==
  (IF query.phrase \in Reference[n].haystack THEN 10 ELSE 0)
    + 2 * Cardinality(query.long \cap Reference[n].haystack)
    + Cardinality(query.short \cap Reference[n].haystack)

\* Mutant of Ranked: the sort key is the score alone, reversed afterwards.
RankedReversed(query) ==
  Sorted(Entries, {p \in Entries \X Entries :
                     \/ Score(query, p[1]) > Score(query, p[2])
                     \/ Score(query, p[1]) = Score(query, p[2]) /\ p[1] > p[2]})

\* sorted() by falling score, then by line.
Ranked(query) ==
  Sorted(Entries, {p \in Entries \X Entries :
                     \/ Score(query, p[1]) > Score(query, p[2])
                     \/ Score(query, p[1]) = Score(query, p[2]) /\ p[1] < p[2]})

\* The first k lines; k below 1 is refused, and no envelope comes of it.
Retrieve(query, k) == FirstOf(Ranked(query), k)

NoAnswerThreshold == 3

\* All or nothing: the best line decides for the others.
RetrieveGated(query, k) ==
  LET ranked == Retrieve(query, k)
  IN IF ranked = <<>> \/ Score(query, ranked[1]) < NoAnswerThreshold THEN <<>> ELSE ranked

\* retrieve_envelope and retrieve_envelope_gated.
RetrieveEnvelope(search) ==
  LET lines == IF search.gated THEN RetrieveGated(search.query, search.k)
               ELSE Retrieve(search.query, search.k)
  IN [kind |-> "records", records |-> [i \in DOMAIN lines |-> Record(lines[i])]]
================================================================================
