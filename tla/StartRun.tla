------------------------------- MODULE StartRun -------------------------------
(***************************************************************************)
(* One debate_start up to its first saved state: the routing labels, the   *)
(* strict profile and the ladder of flags (ControllerMcpServer and         *)
(* DebateController.start of orchestrator/debate_controller.py), then the  *)
(* evidence envelope, record by record, into the write-once store          *)
(* (retrieval_evidence_adapter.py, evidence_snapshot.py, claim_binding.py).*)
(*                                                                         *)
(* Every start draws a run id of its own and works in its own directory,   *)
(* so one start is the whole story of a store until B2 reads it.           *)
(***************************************************************************)
EXTENDS Integers, Sequences, Functions

CONSTANTS
  Requests,   \* the calls to debate_start or start() that may be made
  Texts,      \* texts of retrieved records
  Artifacts,  \* artifact ids
  Canon       \* canonical_bytes and its hash; "raises" if a text has no UTF-8 form

ASSUME StartAssumption ==
  /\ Canon \in [Texts -> Artifacts \cup {"raises"}]
  /\ "invalid" \notin Texts /\ "raises" \notin Artifacts

VARIABLES
  request,  \* the call under way
  phase,    \* where start() is, or how it ended
  dir,      \* the run's evidence directory exists
  files,    \* the snapshot and the meta file of each artifact
  step,     \* what is next for the current record
  seeds,    \* the EvidenceSeeds adapt() has made
  origins,  \* the lines of origins.jsonl
  run       \* the saved state, or NoRun

vars == <<request, phase, dir, files, step, seeds, origins, run>>

-------------------------------------------------------------------------------

Labels == {"omitted", "null", "canonical", "other"}
Flags == {"structured", "verify", "failClosed"}
Axes == {"crisis", "weapon"}
Phases == {"idle", "ingest", "save", "started", "refused", "raised", "down"}
FileStates == {"absent", "created", "whole"}

ASSUME RequestAssumption ==
  \A q \in Requests :
    /\ q.entry \in {"mcp", "direct"}
    /\ q.label \in [Axes -> Labels]
    /\ q.envelope.records \in Seq(Range(q.envelope.records))
    /\ \A record \in Range(q.envelope.records) :
         record.text \in Texts \cup {"invalid"} /\ record.hint \in Nat

NoRun == [flags |-> {}, strict |-> FALSE, panel |-> <<>>, catalog |-> <<>>, saved |-> FALSE]

Init ==
  /\ request \in Requests
  /\ phase = "idle"
  /\ dir = FALSE
  /\ files = [f \in {"snapshot", "meta"} \X Artifacts |-> "absent"]
  /\ step = "snapshot"
  /\ seeds = <<>>
  /\ origins = <<>>
  /\ run = NoRun

-------------------------------------------------------------------------------
(* The gates, in the order of the code. *)

\* Mutant of LabelRefused: only the value is looked at, a null counts as omitted.
LabelRefusedByValue(q, axis) == q.label[axis] \in {"canonical", "other"}

\* _reject_off_enum_arg sees whether an argument is there at all; start() itself
\* takes a null for an omitted one; guard_*_routing refuses the canonical label.
LabelRefused(q, axis) ==
  \/ q.entry = "mcp" /\ q.label[axis] \in {"null", "other"}
  \/ q.label[axis] \in {"other", "canonical"}

\* profile=strict turns the whole ladder on and bears no explicit False.
Contradicts(q) == q.profile = "strict" /\ \E f \in Flags : q.flag[f] = "false"

FlagsOf(q) == IF q.profile = "strict" THEN Flags ELSE {f \in Flags : q.flag[f] = "true"}

\* Each rung needs the one below.
LadderBroken(on) ==
  \/ "failClosed" \in on /\ "verify" \notin on
  \/ "verify" \in on /\ "structured" \notin on

\* load_panelists: a list with entries that are well formed and ids of their own.
RosterRefused(roster) ==
  \/ roster = <<>>
  \/ \E i \in DOMAIN roster : ~roster[i].wellFormed
  \/ \E i, j \in DOMAIN roster : i # j /\ roster[i].id = roster[j].id

Refused(q) ==
  \/ \E axis \in Axes : LabelRefused(q, axis)
  \/ ~q.question
  \/ q.profile = "other"
  \/ Contradicts(q)
  \/ RosterRefused(q.roster)
  \/ LadderBroken(FlagsOf(q))
  \/ "structured" \in FlagsOf(q) /\ q.envelope.kind = "none"

-------------------------------------------------------------------------------
(* Occurrence identity.  A record bears, as far as it was given them, a source *)
(* file with a line (hint), a key of its backend, and a work with a locator    *)
(* (place); what is empty, not a string or no positive number is "none" or 0.  *)

HasOriginHints(record) == record.hint # 0

StableInputs(record) ==
  HasOriginHints(record) \/ record.key # "none" \/ record.place # "none"

\* Mutant of Scheme: the acquisition decides before the hints do.
SchemeByOrigin(record, acquisition) ==
  IF acquisition = "runtime-captured" THEN "network-stable"
  ELSE IF HasOriginHints(record) THEN "corpus-stable"
  ELSE "index-fallback"

Scheme(record, acquisition) ==
  IF HasOriginHints(record) THEN "corpus-stable"
  ELSE IF acquisition = "runtime-captured" THEN "network-stable"
  ELSE "index-fallback"

NoId == [by |-> "none", artifact |-> "none", place |-> "none", key |-> "none", number |-> 0]

\* Mutant of OccurrenceId: the retrieval rank is part of every id.
OccurrenceIdRanked(record, artifact, index, acquisition) ==
  [NoId EXCEPT !.by = Scheme(record, acquisition), !.artifact = artifact,
               !.place = record.place, !.key = record.key, !.number = index]

\* The parts that are hashed.  The three schemes join a different number of
\* parts, which `by' stands for.
OccurrenceId(record, artifact, index, acquisition) ==
  LET id == [NoId EXCEPT !.artifact = artifact]
      scheme == Scheme(record, acquisition)
  IN CASE scheme = "corpus-stable" ->
            [id EXCEPT !.by = "line", !.place = record.place, !.number = record.hint]
       [] scheme = "network-stable" /\ record.key # "none" ->
            [id EXCEPT !.by = "key", !.key = record.key]
       [] scheme = "network-stable" /\ record.key = "none" ->
            [id EXCEPT !.by = "place", !.place = record.place]
       [] scheme = "index-fallback" ->
            [id EXCEPT !.by = "index", !.place = record.place, !.number = index]

-------------------------------------------------------------------------------

\* Mutant of EnvelopeRejected: only the first record is looked at beforehand.
EnvelopeGlancedAt(q) ==
  \/ q.envelope.kind = "malformed"
  \/ q.envelope.records # <<>> /\ q.envelope.records[1].text = "invalid"

\* The preflight of adapt(): every record before the first write.  What was
\* captured at run time must not get an id that depends on its position.
EnvelopeRejected(q) ==
  \/ q.envelope.kind = "malformed"
  \/ \E record \in Range(q.envelope.records) :
       \/ record.text = "invalid"
       \/ q.acquisition = "runtime-captured" /\ ~StableInputs(record)

\* The gates, then the store's directory, then the preflight.
Start ==
  /\ phase = "idle"
  /\ \/ /\ Refused(request)
        /\ phase' = "refused"
        /\ UNCHANGED dir
     \/ /\ ~Refused(request)
        /\ "structured" \notin FlagsOf(request)
        /\ phase' = "save"
        /\ UNCHANGED dir
     \/ /\ ~Refused(request)
        /\ "structured" \in FlagsOf(request)
        /\ dir' = TRUE
        /\ phase' = IF EnvelopeRejected(request) THEN "refused" ELSE "ingest"
  /\ UNCHANGED <<request, files, step, seeds, origins, run>>

-------------------------------------------------------------------------------
(* adapt(): one record after the other. *)

Records == request.envelope.records
Current == Records[Len(seeds) + 1]
Text == Current.text
Artifact == Canon[Text]

Ingesting == phase = "ingest" /\ Len(seeds) < Len(Records)

\* What adapt() meets in its loop: a record the preflight let through that is
\* not text is refused, text that cannot be encoded raises out of start().
Unusable ==
  /\ Ingesting
  /\ step = "snapshot"
  /\ Text = "invalid" \/ Artifact = "raises"
  /\ phase' = IF Text = "invalid" THEN "refused" ELSE "raised"
  /\ UNCHANGED <<request, dir, files, step, seeds, origins, run>>

Writable(kind) ==
  /\ Ingesting
  /\ step = kind
  /\ Text # "invalid" /\ Artifact # "raises"

NextStep(kind) == IF kind = "snapshot" THEN "meta" ELSE "origin"

\* _write_once: exclusive create, then write; a file that is there is compared
\* with the bytes its name is the hash of.
WriteOnce(kind) ==
  /\ Writable(kind)
  /\ \/ /\ files[<<kind, Artifact>>] = "absent"
        /\ files' = [files EXCEPT ![<<kind, Artifact>>] = "created"]
        /\ UNCHANGED step
     \/ /\ files[<<kind, Artifact>>] = "created"
        /\ files' = [files EXCEPT ![<<kind, Artifact>>] = "whole"]
        /\ step' = NextStep(kind)
     \/ /\ files[<<kind, Artifact>>] = "whole"
        /\ step' = NextStep(kind)
        /\ UNCHANGED files
  /\ UNCHANGED <<request, phase, dir, seeds, origins, run>>

Seed(record, artifact, index) ==
  [artifact |-> artifact,
   occurrence |-> OccurrenceId(record, artifact, index, request.acquisition),
   line |-> record.hint, declared |-> record.declared]

\* Mutant of AppendOrigin: the seed carries the raw text.
AppendOriginRaw ==
  /\ Ingesting
  /\ step = "origin"
  /\ seeds' = Append(seeds, Seed(Current, Text, Len(seeds)))
  /\ origins' = Append(origins, seeds'[Len(seeds')].occurrence)
  /\ step' = "snapshot"
  /\ UNCHANGED <<request, phase, dir, files, run>>

\* One seed and one line in the log for every record, also for known bytes.
AppendOrigin ==
  /\ Ingesting
  /\ step = "origin"
  /\ seeds' = Append(seeds, Seed(Current, Artifact, Len(seeds)))
  /\ origins' = Append(origins, seeds'[Len(seeds')].occurrence)
  /\ step' = "snapshot"
  /\ UNCHANGED <<request, phase, dir, files, run>>

\* The catalog aligns seeds and records by position and numbers them S1, S2, ...
Catalogue ==
  /\ phase = "ingest"
  /\ Len(seeds) = Len(Records)
  /\ phase' = "save"
  /\ UNCHANGED <<request, dir, files, step, seeds, origins, run>>

SavedRun ==
  [flags |-> FlagsOf(request), strict |-> request.profile = "strict",
   panel |-> [i \in DOMAIN request.roster |-> request.roster[i].id],
   catalog |-> seeds, saved |-> TRUE]

\* Mutant of Save: the run is made visible before its evidence is stored.
SaveEarly ==
  /\ phase \in {"ingest", "save"}
  /\ phase' = "started"
  /\ run' = SavedRun
  /\ UNCHANGED <<request, dir, files, step, seeds, origins>>

\* The first save of the state, by _execute_round; atomic.
Save ==
  /\ phase = "save"
  /\ phase' = "started"
  /\ run' = SavedRun
  /\ UNCHANGED <<request, dir, files, step, seeds, origins>>

\* A write that the file system refuses raises out of start().
WriteFails ==
  /\ phase = "save" \/ Ingesting
  /\ phase' = "raised"
  /\ UNCHANGED <<request, dir, files, step, seeds, origins, run>>

Crash ==
  /\ phase \in {"ingest", "save"}
  /\ phase' = "down"
  /\ UNCHANGED <<request, dir, files, step, seeds, origins, run>>

Next ==
  \/ Start
  \/ Unusable
  \/ \E kind \in {"snapshot", "meta"} : WriteOnce(kind)
  \/ AppendOrigin
  \/ Catalogue
  \/ Save
  \/ WriteFails \/ Crash

Spec == Init /\ [][Next]_vars

-------------------------------------------------------------------------------

TypeOK ==
  /\ phase \in Phases
  /\ dir \in BOOLEAN
  /\ files \in [{"snapshot", "meta"} \X Artifacts -> FileStates]
  /\ step \in {"snapshot", "meta", "origin"}
  /\ \A seed \in Range(seeds) :
       seed.artifact \in Artifacts /\ seed.occurrence.artifact = seed.artifact
  /\ run.flags \subseteq Flags
  /\ run.catalog \in {<<>>, seeds}

\* A request that bears a routing label, well spelled or not, leaves no trace: no
\* directory, no run.  Only start() called directly may be given a null for "no
\* label"; a null that came over the tool surface is a malformed label.
RoutedNeverEnters ==
  dir \/ run.saved =>
    \A axis \in Axes :
      request.label[axis] = "omitted" \/ (request.label[axis] = "null" /\ request.entry = "direct")

\* An envelope that is refused for its schema has left nothing in the store.
RejectedTouchesNothing ==
  phase = "refused" => seeds = <<>> /\ origins = <<>> /\ \A f \in DOMAIN files : files[f] = "absent"

\* What the saved catalog refers to is there: for every record, in its place, a
\* seed with its curation, whose snapshot and meta file are written to the end and
\* whose origin is logged, wherever start() may have failed or died before it saved.
CatalogBacked ==
  run.saved /\ "structured" \in run.flags =>
    /\ DOMAIN run.catalog = DOMAIN Records
    /\ \A i \in DOMAIN Records :
         /\ run.catalog[i].artifact = Canon[Records[i].text]
         /\ run.catalog[i].declared = Records[i].declared
         /\ \A kind \in {"snapshot", "meta"} : files[<<kind, run.catalog[i].artifact>>] = "whole"
    /\ origins = [i \in DOMAIN run.catalog |-> run.catalog[i].occurrence]

\* "Identity must not collapse to the artifact id": two seeds of one envelope share
\* an occurrence id only if they are the same bytes at the same place, as far as
\* the records tell: the same line, else the same key, else the same work and
\* locator; bundled records without a line are kept apart by their position.
SeedsToldApart ==
  \A i, j \in DOMAIN seeds :
    i # j /\ seeds[i].occurrence = seeds[j].occurrence =>
      /\ Records[i].hint # 0 \/ request.acquisition = "runtime-captured"
      /\ seeds[i].artifact = seeds[j].artifact
      /\ Records[i].hint = Records[j].hint
      /\ IF Records[i].hint # 0 THEN Records[i].place = Records[j].place
         ELSE /\ Records[i].key = Records[j].key
              /\ Records[i].key = "none" =>
                   Records[i].place = Records[j].place /\ Records[i].place # "none"

\* An id does not depend on where in the envelope its record stood, so that
\* another order of the results does not leave dangling audit references: for
\* lines of the corpus, and for whatever was captured at run time.
OrderIndependent ==
  \A i \in DOMAIN seeds, j \in DOMAIN Records :
    Records[i].hint # 0 \/ request.acquisition = "runtime-captured" =>
      seeds[i].occurrence = OccurrenceId(Records[i], seeds[i].artifact, j - 1, request.acquisition)
===============================================================================
