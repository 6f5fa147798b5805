------------------------------ MODULE MCStartRun ------------------------------
(* Requests for RetrievedStart: families for the labels, the configuration, the *)
(* envelopes, the identities of their records, and the retriever.               *)
EXTENDS RetrievedStart

\* "lf" and "crlf" have the same canonical bytes, "lone" holds a lone surrogate.
AllTexts == {"lf", "crlf", "psalm", "lone"}
TwoArtifacts == {"a1", "a2"}
Canonical ==
  [t \in AllTexts |->
    CASE t = "lf" -> "a1" [] t = "crlf" -> "a1" [] t = "psalm" -> "a2" [] t = "lone" -> "raises"]

\* Lines 1, 4 and 6 hold the same bytes at three places, 2 and 5 tie in every query, 3
\* is a heading, 7 supports no query.
Line(entry, text, place, haystack) ==
  [entry |-> entry, text |-> text, place |-> place, haystack |-> haystack]
EightLines ==
  <<Line(TRUE, "lf", "Ps 1", {"love", "l"}), Line(TRUE, "psalm", "Ps 2", {"law", "l"}),
    Line(FALSE, "lf", "none", {"love", "law"}), Line(TRUE, "crlf", "Ps 3", {"love law", "love", "law"}),
    Line(TRUE, "psalm", "Ps 4", {"law", "l"}), Line(TRUE, "lf", "Ps 5", {"love"}),
    Line(TRUE, "psalm", "Ps 6", {}), Line(TRUE, "lf", "Ps 7", {"l"})>>
\* Of two entries for a place the later counts; a field of the wrong type is dropped; no
\* line is at "Ps 9".  Ps 5 is refused by the finalizer and no reason of the inventory's,
\* Ps 6 has reasons and is accepted.
EightCurations ==
  <<[place |-> "Ps 1", typed |-> {"representation_kind", "interpretation_only"}, garbled |-> {}],
    [place |-> "Ps 2", typed |-> {"off_enum_kind", "rights"}, garbled |-> {"interpretation_only"}],
    [place |-> "Ps 3", typed |-> {"provenance", "blank_rights"}, garbled |-> {}],
    [place |-> "Ps 4", typed |-> {"rendering_mode"}, garbled |-> {"rights"}],
    [place |-> "Ps 1", typed |-> {"representation_kind", "rendering_mode", "rights"}, garbled |-> {}],
    [place |-> "Ps 5", typed |-> {"representation_kind", "rights", "interpretation_only"}, garbled |-> {}],
    [place |-> "Ps 6", typed |-> {"rendering_mode", "empty_provenance", "rights"}, garbled |-> {}],
    [place |-> "Ps 7", typed |-> {"off_enum_mode", "representation_kind", "rights"}, garbled |-> {"provenance"}],
    [place |-> "Ps 9", typed |-> {"rights"}, garbled |-> {}]>>
Queries ==
  {[phrase |-> "love law", long |-> {"love", "law"}, short |-> {"l"}],
   [phrase |-> "law", long |-> {"law"}, short |-> {}],
   [phrase |-> "l", long |-> {}, short |-> {"l"}],
   [phrase |-> "war", long |-> {"love"}, short |-> {}],
   [phrase |-> "none", long |-> {}, short |-> {"l"}]}

Envelope(kind, records) == [kind |-> kind, records |-> records]
NoEnvelope == Envelope("none", <<>>)
ByHand(text) == [text |-> text, hint |-> 0, key |-> "none", place |-> "none", declared |-> {}]
FlagArgs == [Flags -> {"omitted", "true", "false"}]
NoFlags == [f \in Flags |-> "omitted"]
NoLabels == [axis \in Axes |-> "omitted"]
Panelist(id, wellFormed) == [id |-> id, wellFormed |-> wellFormed]
Panel == <<Panelist("sage", TRUE), Panelist("critic", TRUE)>>
BadPanels ==
  {<<>>, <<Panelist("sage", TRUE), Panelist("sage", TRUE)>>,
   <<Panelist("sage", TRUE), Panelist("critic", FALSE)>>}

Ordinary ==
  [entry |-> "mcp", label |-> NoLabels, question |-> TRUE, profile |-> "strict",
   flag |-> NoFlags, roster |-> Panel, acquisition |-> "bundled",
   envelope |-> Envelope("records", <<ByHand("lf")>>), search |-> {}]

Labelled ==
  {[Ordinary EXCEPT !.entry = e, !.label = l, !.profile = p] :
     e \in {"mcp", "direct"}, l \in [Axes -> Labels], p \in {"none", "strict"}}

Configured ==
  {[Ordinary EXCEPT !.question = q, !.profile = p, !.flag = f, !.envelope = e] :
     q \in BOOLEAN, p \in {"none", "strict", "other"}, f \in FlagArgs,
     e \in {NoEnvelope, Envelope("malformed", <<>>), Envelope("records", <<>>)}}

Rostered == {[Ordinary EXCEPT !.roster = panel] : panel \in BadPanels}

Enveloped ==
  {[Ordinary EXCEPT !.envelope = Envelope("records", [i \in DOMAIN ts |-> ByHand(ts[i])])] :
     ts \in UNION {[1 .. n -> AllTexts \cup {"invalid"}] : n \in 0 .. 3}}

\* Records that have, or lack, each of the inputs of an occurrence id.
Identified ==
  {[Ordinary EXCEPT !.acquisition = a, !.envelope = Envelope("records", rs)] :
     a \in {"bundled", "runtime-captured"},
     rs \in [1 .. 2 -> [text : {"lf", "crlf", "psalm"}, hint : {0, 7}, key : {"none", "k"},
                        place : {"none", "Ps 1", "Ps 2"}, declared : {{}}]]}

Searched ==
  {[Ordinary EXCEPT !.envelope = RetrieveEnvelope(s), !.search = {s}] :
     s \in [query : Queries, k : 1 .. 8, gated : BOOLEAN]}

AllRequests == Labelled \cup Configured \cup Rostered \cup Enveloped \cup Identified \cup Searched
===============================================================================
