--------------------------- MODULE StartRunProofs ---------------------------
(* Proofs about StartRun and RetrievedStart, for any requests, with envelopes  *)
(* of any length, any canonical form of texts, any reference file and sidecar: *)
(* who gets in, what the saved catalog refers to in the store, and what of the *)
(* corpus it shows.                                                            *)
EXTENDS RetrievedStart, CountingProofs, TLAPS

Untouched ==
  seeds = <<>> /\ origins = <<>> /\ step = "snapshot" /\ \A f \in DOMAIN files : files[f] = "absent"

\* The gates are passed before there is a directory, and the preflight before a file.
GatesHold ==
  /\ request \in Requests
  /\ phase \in {"idle", "refused"} => Untouched
  /\ phase = "idle" => ~dir
  /\ dir \/ phase \notin {"idle", "refused"} => ~Refused(request)
  /\ phase = "ingest" => "structured" \in FlagsOf(request)
  /\ seeds # <<>> => ~EnvelopeRejected(request)
  /\ phase = "ingest" => ~EnvelopeRejected(request)
  /\ phase \in {"save", "started"} /\ "structured" \in FlagsOf(request) => Len(seeds) = Len(Records)

\* The seed that a record becomes, alone.
SeedOf(i) == Seed(Records[i], Canon[Records[i].text], i - 1)
AllSeeds == {SeedOf(i) : i \in {j \in DOMAIN Records : Records[j].text \in Texts}}

\* Seeds and origins follow the records one by one.
SeedsFit ==
  /\ seeds \in Seq(AllSeeds) /\ Len(seeds) <= Len(Records)
  /\ \A i \in 1 .. Len(seeds) : seeds[i] = SeedOf(i) /\ Canon[Records[i].text] \in Artifacts
  /\ origins \in Seq({seed.occurrence : seed \in AllSeeds}) /\ Len(origins) = Len(seeds)
  /\ \A i \in 1 .. Len(seeds) : origins[i] = seeds[i].occurrence

\* The files of a seed are written before it is made, the snapshot before the meta file.
FilesFit ==
  /\ \A i \in 1 .. Len(seeds), kind \in {"snapshot", "meta"} :
       files[<<kind, Canon[Records[i].text]>>] = "whole"
  /\ phase = "ingest" /\ step # "snapshot" =>
       /\ Len(seeds) < Len(Records) /\ Artifact \in Artifacts
       /\ files[<<"snapshot", Artifact>>] = "whole"
       /\ step = "origin" => files[<<"meta", Artifact>>] = "whole"

\* The run is there from the first save on, and is what was asked for.
RunFits ==
  IF phase = "started" THEN run = SavedRun ELSE run = NoRun

SInv == TypeOK /\ GatesHold /\ SeedsFit /\ FilesFit /\ RunFits
------------------------------------------------------------------------------
(* The invariant holds, action by action.                                    *)

\* The records of an envelope, and the first of its sequences.
LEMMA RecordsFit ==
  ASSUME request \in Requests
  PROVE  /\ request.entry \in {"mcp", "direct"} /\ request.label \in [Axes -> Labels]
         /\ Len(Records) \in Nat /\ DOMAIN Records = 1 .. Len(Records)
         /\ \A i \in DOMAIN Records : /\ Records[i] \in Range(Records) /\ Records[i].hint \in Nat
                                    /\ Records[i].text \in Texts \cup {"invalid"}
<1>1. /\ request.entry \in {"mcp", "direct"} /\ request.label \in [Axes -> Labels]
      /\ Records \in Seq(Range(Records))
      /\ \A record \in Range(Records) : record.text \in Texts \cup {"invalid"} /\ record.hint \in Nat
  BY RequestAssumption DEF Records
<1>2. \A i \in DOMAIN Records : Records[i] \in Range(Records)
  BY DEF Range
<1>3. Len(Records) \in Nat /\ DOMAIN Records = 1 .. Len(Records)
  BY <1>1, LenProperties
<1> QED BY <1>1, <1>2, <1>3

\* Text of the current record that has a canonical form, and what it is stored as.
LEMMA CurrentFits ==
  ASSUME request \in Requests, Len(seeds) \in Nat, Len(seeds) < Len(Records),
         Text # "invalid", Artifact # "raises"
  PROVE  /\ Len(seeds) + 1 \in DOMAIN Records /\ Text \in Texts /\ Artifact \in Artifacts
         /\ Records[Len(seeds) + 1].text \in Texts /\ Artifact = Canon[Records[Len(seeds) + 1].text]
<1>1. Len(seeds) + 1 \in DOMAIN Records
  BY RecordsFit
<1>2. Text \in Texts
  BY <1>1, RecordsFit DEF Text, Current
<1>3. Artifact \in Artifacts
  BY <1>2, StartAssumption DEF Artifact
<1> QED BY <1>1, <1>2, <1>3 DEF Text, Current, Artifact

LEMMA InitSInv == Init => SInv
<1> SUFFICES ASSUME Init PROVE SInv
  OBVIOUS
<1>1. /\ request \in Requests /\ phase = "idle" /\ dir = FALSE /\ step = "snapshot" /\ seeds = <<>>
      /\ origins = <<>> /\ run = NoRun
      /\ files = [f \in {"snapshot", "meta"} \X Artifacts |-> "absent"]
  BY DEF Init
<1>2. Len(seeds) = 0 /\ Range(seeds) = {} /\ Len(Records) \in Nat
  BY <1>1, RecordsFit DEF Range
<1>3. TypeOK
  <2>1. NoRun.flags = {} /\ NoRun.catalog = <<>>
    BY DEF NoRun
  <2>2. files \in [{"snapshot", "meta"} \X Artifacts -> FileStates]
    BY <1>1 DEF FileStates
  <2> QED BY <1>1, <1>2, <2>1, <2>2 DEF TypeOK, Phases
<1>4. Untouched
  BY <1>1 DEF Untouched
<1>5. GatesHold
  BY <1>1, <1>4 DEF GatesHold
<1>6. SeedsFit
  BY <1>1, <1>2 DEF SeedsFit
<1>7. FilesFit /\ RunFits
  BY <1>1, <1>2 DEF FilesFit, RunFits
<1> QED BY <1>3, <1>5, <1>6, <1>7 DEF SInv

LEMMA SameSeeds ==
  ASSUME SeedsFit, UNCHANGED <<request, seeds, origins>>
  PROVE  SeedsFit'
<1>1. Records' = Records /\ \A i : SeedOf(i)' = SeedOf(i)
  BY DEF Records, SeedOf, Seed
<1>2. AllSeeds' = AllSeeds
  BY <1>1 DEF AllSeeds, SeedOf, Seed, Records
<1> QED BY <1>1, <1>2 DEF SeedsFit, SeedOf, Seed

\* A step that moves from a phase to another and leaves what is written alone.
LEMMA PhaseStep ==
  ASSUME SInv, UNCHANGED <<request, files, step, seeds, origins, run>>, dir' \in BOOLEAN, dir => dir',
         phase # "started", phase' \in Phases \ {"idle", "started"},
         phase' = "ingest" => step = "snapshot" /\ "structured" \in FlagsOf(request),
         phase' = "refused" => Untouched,
         phase' # "refused" \/ dir' => ~Refused(request),
         phase' = "ingest" => ~EnvelopeRejected(request),
         phase' = "save" /\ "structured" \in FlagsOf(request) => Len(seeds) = Len(Records)
  PROVE  SInv'
<1>1. TypeOK /\ GatesHold /\ SeedsFit /\ FilesFit /\ RunFits
  BY DEF SInv
<1>2. TypeOK'
  BY <1>1 DEF TypeOK
<1>3. Untouched => Untouched'
  BY DEF Untouched
<1>4. GatesHold'
  BY <1>1, <1>3 DEF GatesHold, Records
<1>5. SeedsFit'
  BY <1>1, SameSeeds
<1>6. FilesFit'
  BY <1>1 DEF FilesFit, Records
<1>7. RunFits'
  BY <1>1 DEF RunFits
<1> QED BY <1>2, <1>4, <1>5, <1>6, <1>7 DEF SInv

LEMMA StartSInv == SInv /\ Start => SInv'
<1> SUFFICES ASSUME SInv, Start PROVE SInv'
  OBVIOUS
<1>1. GatesHold /\ TypeOK
  BY DEF SInv
<1>2. /\ phase = "idle" /\ UNCHANGED <<request, files, step, seeds, origins, run>>
      /\ Untouched /\ step = "snapshot" /\ ~dir
  BY <1>1 DEF Start, GatesHold, Untouched
<1>3. /\ dir' \in BOOLEAN /\ phase' \in {"refused", "save", "ingest"}
      /\ phase' = "ingest" => "structured" \in FlagsOf(request) /\ ~EnvelopeRejected(request)
      /\ phase' = "save" => "structured" \notin FlagsOf(request)
      /\ phase' # "refused" \/ dir' => ~Refused(request)
  <2>1. CASE Refused(request) /\ phase' = "refused" /\ UNCHANGED dir
    BY <1>1, <1>2, <2>1 DEF TypeOK
  <2>2. CASE ~Refused(request) /\ "structured" \notin FlagsOf(request) /\ phase' = "save" /\ UNCHANGED dir
    BY <1>1, <1>2, <2>2 DEF TypeOK
  <2>3. CASE /\ ~Refused(request) /\ "structured" \in FlagsOf(request) /\ dir' = TRUE
             /\ phase' = IF EnvelopeRejected(request) THEN "refused" ELSE "ingest"
    BY <2>3
  <2> QED BY <1>2, <2>1, <2>2, <2>3 DEF Start
<1> QED BY <1>2, <1>3, PhaseStep DEF Phases

\* After the preflight adapt() finds no record that is not text.
LEMMA LeaveSInv == SInv /\ (Unusable \/ Catalogue \/ WriteFails \/ Crash) => SInv'
<1> SUFFICES ASSUME SInv, Unusable \/ Catalogue \/ WriteFails \/ Crash PROVE SInv'
  OBVIOUS
<1>1. GatesHold /\ TypeOK /\ SeedsFit
  BY DEF SInv
<1>2. /\ phase \in {"ingest", "save"} /\ UNCHANGED <<request, dir, files, step, seeds, origins, run>>
      /\ ~Refused(request)
  BY <1>1 DEF Unusable, Catalogue, WriteFails, Crash, Ingesting, GatesHold
<1>3. phase' \in {"raised", "save", "down"} /\ (phase' = "save" => Len(seeds) = Len(Records))
  <2>1. CASE Unusable
    <3>1. Ingesting /\ (phase' = "raised" \/ (Text = "invalid" /\ phase' = "refused"))
      BY <2>1 DEF Unusable
    <3>2. Text # "invalid"
      <4>1. Len(seeds) \in Nat /\ Len(seeds) < Len(Records) /\ request \in Requests
        BY <1>1, <3>1, LenProperties DEF Ingesting, SeedsFit, GatesHold
      <4>2. Len(seeds) + 1 \in DOMAIN Records
        BY <4>1, RecordsFit
      <4>3. Current \in Range(Records)
        BY <4>1, <4>2, RecordsFit DEF Current
      <4>4. ~EnvelopeRejected(request)
        BY <1>1, <3>1 DEF GatesHold, Ingesting
      <4> QED BY <4>3, <4>4 DEF EnvelopeRejected, Text, Records
    <3> QED BY <3>1, <3>2
  <2>2. CASE Catalogue
    BY <2>2 DEF Catalogue
  <2>3. CASE WriteFails \/ Crash
    BY <2>3 DEF WriteFails, Crash
  <2> QED BY <2>1, <2>2, <2>3
<1> QED BY <1>1, <1>2, <1>3, PhaseStep DEF Phases, TypeOK

\* A file only ever gets nearer to being whole.
LEMMA WriteSInv ==
  ASSUME SInv, NEW kind \in {"snapshot", "meta"}, WriteOnce(kind)
  PROVE  SInv'
<1>1. TypeOK /\ GatesHold /\ SeedsFit /\ FilesFit /\ RunFits
  BY DEF SInv
<1>2. /\ phase = "ingest" /\ Len(seeds) < Len(Records) /\ step = kind /\ Artifact \in Artifacts
      /\ UNCHANGED <<request, phase, dir, seeds, origins, run>>
  <2>1. /\ phase = "ingest" /\ Len(seeds) < Len(Records) /\ step = kind
        /\ Text # "invalid" /\ Artifact # "raises"
        /\ UNCHANGED <<request, phase, dir, seeds, origins, run>>
    BY DEF WriteOnce, Writable, Ingesting
  <2>2. Len(seeds) \in Nat /\ request \in Requests
    BY <1>1, LenProperties DEF SeedsFit, GatesHold
  <2> QED BY <2>1, <2>2, CurrentFits
<1>3. Records' = Records /\ Artifact' = Artifact
  BY <1>2 DEF Records, Artifact, Text, Current
<1>4. /\ files' \in [{"snapshot", "meta"} \X Artifacts -> FileStates]
      /\ \A k \in {"snapshot", "meta"}, a \in Artifacts : files[<<k, a>>] = "whole" => files'[<<k, a>>] = "whole"
      /\ \/ step' = step
         \/ step' = NextStep(kind) /\ files'[<<kind, Artifact>>] = "whole"
  <2> DEFINE f == <<kind, Artifact>>
  <2>1. f \in {"snapshot", "meta"} \X Artifacts /\ files \in [{"snapshot", "meta"} \X Artifacts -> FileStates]
    BY <1>1, <1>2 DEF TypeOK
  <2>2. \/ files[f] = "absent" /\ files' = [files EXCEPT ![f] = "created"] /\ step' = step
        \/ files[f] = "created" /\ files' = [files EXCEPT ![f] = "whole"] /\ step' = NextStep(kind)
        \/ files[f] = "whole" /\ files' = files /\ step' = NextStep(kind)
    BY DEF WriteOnce
  <2> HIDE DEF f
  <2>3. /\ files' \in [{"snapshot", "meta"} \X Artifacts -> FileStates]
        /\ \A g \in {"snapshot", "meta"} \X Artifacts : files[g] = "whole" => files'[g] = "whole"
        /\ \/ step' = step
           \/ step' = NextStep(kind) /\ files'[f] = "whole"
    BY <2>1, <2>2 DEF FileStates
  <2> QED BY <2>3 DEF f
<1>5. TypeOK'
  BY <1>1, <1>2, <1>4 DEF TypeOK, NextStep
<1>6. GatesHold'
  BY <1>1, <1>2, <1>3 DEF GatesHold
<1>7. FilesFit'
  <2>1. \A i \in 1 .. Len(seeds), k \in {"snapshot", "meta"} : files'[<<k, Canon[Records[i].text]>>] = "whole"
    BY <1>1, <1>4 DEF FilesFit, SeedsFit
  <2>2. step' # "snapshot" => /\ files'[<<"snapshot", Artifact>>] = "whole"
                              /\ step' = "origin" => files'[<<"meta", Artifact>>] = "whole"
    BY <1>1, <1>2, <1>4 DEF FilesFit, NextStep
  <2> QED BY <1>2, <1>3, <2>1, <2>2 DEF FilesFit
<1>8. SeedsFit' /\ RunFits'
  BY <1>1, <1>2, SameSeeds DEF RunFits
<1> QED BY <1>5, <1>6, <1>7, <1>8 DEF SInv

LEMMA AppendSInv == SInv /\ AppendOrigin => SInv'
<1> SUFFICES ASSUME SInv, AppendOrigin PROVE SInv'
  OBVIOUS
<1> DEFINE n == Len(seeds) + 1
           seed == Seed(Current, Artifact, Len(seeds))
           Occurrences == {s.occurrence : s \in AllSeeds}
<1>1. TypeOK /\ GatesHold /\ SeedsFit /\ FilesFit /\ RunFits
  BY DEF SInv
<1>2. /\ phase = "ingest" /\ Len(seeds) < Len(Records) /\ step = "origin" /\ step' = "snapshot"
      /\ seeds' = Append(seeds, seed) /\ origins' = Append(origins, seeds'[Len(seeds')].occurrence)
      /\ UNCHANGED <<request, phase, dir, files, run>>
  BY DEF AppendOrigin, Ingesting
<1>3. /\ seeds \in Seq(AllSeeds) /\ Len(seeds) \in Nat /\ origins \in Seq(Occurrences)
      /\ Len(origins) = Len(seeds) /\ request \in Requests
  BY <1>1, LenProperties DEF SeedsFit, GatesHold
<1>4. /\ Artifact \in Artifacts /\ files[<<"snapshot", Artifact>>] = "whole"
      /\ files[<<"meta", Artifact>>] = "whole"
  BY <1>1, <1>2 DEF FilesFit
<1>5. n \in DOMAIN Records /\ Artifact = Canon[Records[n].text] /\ Records[n].text \in Texts
  <2>1. n \in DOMAIN Records /\ Artifact = Canon[Records[n].text]
    BY <1>2, <1>3, RecordsFit DEF Artifact, Text, Current
  <2>2. Records[n].text # "invalid"
    <3>1. Records[n] \in Range(Records)
      BY <1>3, <2>1, RecordsFit
    <3> QED BY <1>1, <1>2, <3>1 DEF GatesHold, EnvelopeRejected, Records
  <2> QED BY <1>3, <2>1, <2>2, RecordsFit
<1>6. seed = SeedOf(n) /\ seed \in AllSeeds
  BY <1>3, <1>5 DEF SeedOf, AllSeeds, Current
<1>7. seed.artifact = Artifact /\ seed.occurrence.artifact = Artifact
  BY DEF Seed, OccurrenceId, Scheme, NoId
<1> HIDE DEF seed, Occurrences
<1>8. /\ seeds' \in Seq(AllSeeds) /\ Len(seeds') = n /\ seeds'[n] = seed
      /\ \A i \in 1 .. Len(seeds) : seeds'[i] = seeds[i]
  BY <1>2, <1>3, <1>6
<1>9. /\ origins' \in Seq(Occurrences) /\ Len(origins') = n /\ origins'[n] = seed.occurrence
      /\ \A i \in 1 .. Len(seeds) : origins'[i] = origins[i]
  <2>1. seed.occurrence \in Occurrences /\ origins' = Append(origins, seed.occurrence)
    BY <1>2, <1>6, <1>8 DEF Occurrences
  <2> QED BY <1>3, <2>1
<1>10. Records' = Records /\ AllSeeds' = AllSeeds /\ \A i : SeedOf(i)' = SeedOf(i)
  BY <1>2 DEF Records, AllSeeds, SeedOf, Seed
<1>11. TypeOK'
  <2>1. \A s \in Range(seeds') : s.artifact \in Artifacts /\ s.occurrence.artifact = s.artifact
    <3> SUFFICES ASSUME NEW i \in 1 .. n
                 PROVE  seeds'[i].artifact \in Artifacts /\ seeds'[i].occurrence.artifact = seeds'[i].artifact
      BY <1>8, LenProperties DEF Range
    <3>1. CASE i = n
      BY <1>4, <1>7, <1>8, <3>1
    <3>2. CASE i \in 1 .. Len(seeds)
      <4>1. seeds[i] \in Range(seeds)
        BY <1>3, <3>2, LenProperties DEF Range
      <4> QED BY <1>1, <1>8, <3>2, <4>1 DEF TypeOK
    <3> QED BY <1>3, <3>1, <3>2
  <2>2. run'.flags \subseteq Flags /\ run'.catalog \in {<<>>, seeds'}
    BY <1>1, <1>2 DEF RunFits, NoRun
  <2> QED BY <1>1, <1>2, <2>1, <2>2 DEF TypeOK
<1>12. GatesHold'
  BY <1>1, <1>2 DEF GatesHold
<1>13. SeedsFit'
  <2>1. Len(seeds') <= Len(Records)
    BY <1>2, <1>3, <1>8, RecordsFit
  <2>2. \A i \in 1 .. n : seeds'[i] = SeedOf(i) /\ Canon[Records[i].text] \in Artifacts
    BY <1>1, <1>3, <1>4, <1>5, <1>6, <1>8 DEF SeedsFit
  <2>3. \A i \in 1 .. n : origins'[i] = seeds'[i].occurrence
    BY <1>1, <1>3, <1>8, <1>9 DEF SeedsFit
  <2>4. origins' \in Seq({s.occurrence : s \in AllSeeds})
    BY <1>9 DEF Occurrences
  <2> HIDE DEF n
  <2> QED BY <1>8, <1>9, <1>10, <2>1, <2>2, <2>3, <2>4 DEF SeedsFit
<1>14. FilesFit'
  <2>1. \A i \in 1 .. n, k \in {"snapshot", "meta"} : files[<<k, Canon[Records[i].text]>>] = "whole"
    <3> SUFFICES ASSUME NEW i \in 1 .. n, NEW k \in {"snapshot", "meta"}
                 PROVE  files[<<k, Canon[Records[i].text]>>] = "whole"
      OBVIOUS
    <3>1. CASE i = n
      BY <1>4, <1>5, <3>1
    <3>2. CASE i \in 1 .. Len(seeds)
      BY <1>1, <3>2 DEF FilesFit
    <3> QED BY <1>3, <3>1, <3>2
  <2> QED BY <1>2, <1>8, <1>10, <2>1 DEF FilesFit
<1>15. RunFits'
  BY <1>1, <1>2 DEF RunFits
<1> QED BY <1>11, <1>12, <1>13, <1>14, <1>15 DEF SInv

LEMMA SaveSInv == SInv /\ Save => SInv'
<1> SUFFICES ASSUME SInv, Save PROVE SInv'
  OBVIOUS
<1>1. TypeOK /\ GatesHold /\ SeedsFit /\ FilesFit /\ RunFits
  BY DEF SInv
<1>2. /\ phase = "save" /\ phase' = "started" /\ run' = SavedRun
      /\ UNCHANGED <<request, dir, files, step, seeds, origins>>
  BY DEF Save
<1>3. SavedRun.flags = FlagsOf(request) /\ SavedRun.catalog = seeds /\ SavedRun' = SavedRun
  BY <1>2 DEF SavedRun
<1>4. FlagsOf(request) \subseteq Flags
  BY DEF FlagsOf
<1>5. TypeOK'
  BY <1>1, <1>2, <1>3, <1>4 DEF TypeOK, Phases
<1>6. GatesHold' /\ FilesFit'
  BY <1>1, <1>2 DEF GatesHold, FilesFit, Records
<1>7. SeedsFit'
  BY <1>1, <1>2, SameSeeds
<1>8. RunFits'
  BY <1>2, <1>3 DEF RunFits
<1> QED BY <1>5, <1>6, <1>7, <1>8 DEF SInv

LEMMA StepSInv == SInv /\ [Next]_vars => SInv'
<1> SUFFICES ASSUME SInv, [Next]_vars PROVE SInv'
  OBVIOUS
<1>1. CASE UNCHANGED vars
  <2>1. UNCHANGED <<request, phase, dir, files, step, seeds, origins, run>>
    BY <1>1 DEF vars
  <2>2. SeedsFit'
    BY <2>1, SameSeeds DEF SInv
  <2>3. TypeOK' /\ GatesHold' /\ FilesFit' /\ RunFits'
    BY <2>1 DEF SInv, TypeOK, GatesHold, Untouched, FilesFit, RunFits, Records, SavedRun, Artifact, Text, Current
  <2> QED BY <2>2, <2>3 DEF SInv
<1>2. CASE Next
  BY <1>2, StartSInv, LeaveSInv, WriteSInv, AppendSInv, SaveSInv DEF Next
<1> QED BY <1>1, <1>2

LEMMA SInductive == Spec => []SInv
BY InitSInv, StepSInv, PTL DEF Spec
------------------------------------------------------------------------------
(* What the invariant says of the properties.                                *)

LEMMA RoutedByInv == SInv => RoutedNeverEnters
<1> SUFFICES ASSUME SInv, dir \/ run.saved, NEW axis \in Axes
             PROVE  \/ request.label[axis] = "omitted"
                    \/ request.label[axis] = "null" /\ request.entry = "direct"
  BY DEF RoutedNeverEnters
<1>1. ~Refused(request) /\ request \in Requests
  <2>1. dir \/ phase = "started"
    BY DEF SInv, RunFits, NoRun
  <2> QED BY <2>1 DEF SInv, GatesHold
<1>2. ~LabelRefused(request, axis)
  BY <1>1 DEF Refused
<1>3. request.label[axis] \in Labels /\ request.entry \in {"mcp", "direct"}
  BY <1>1, RecordsFit
<1>4. request.label[axis] \in {"omitted", "null"}
  BY <1>2, <1>3 DEF LabelRefused, Labels
<1>5. request.label[axis] = "null" => request.entry = "direct"
  BY <1>2, <1>3 DEF LabelRefused
<1> QED BY <1>4, <1>5

LEMMA RejectedByInv == SInv => RejectedTouchesNothing
  BY DEF SInv, GatesHold, Untouched, RejectedTouchesNothing

\* What is known of a seed that has been made.
LEMMA SeedsFacts ==
  ASSUME SInv
  PROVE  /\ DOMAIN seeds = 1 .. Len(seeds) /\ DOMAIN origins = DOMAIN seeds /\ DOMAIN seeds \subseteq DOMAIN Records
         /\ \A i \in DOMAIN seeds :
              /\ i \in Nat
              /\ seeds[i].artifact = Canon[Records[i].text] /\ seeds[i].declared = Records[i].declared
              /\ seeds[i].occurrence = OccurrenceId(Records[i], seeds[i].artifact, i - 1, request.acquisition)
              /\ origins[i] = seeds[i].occurrence
              /\ Records[i].hint \in Nat
              /\ Records[i] \in Range(Records) /\ ~EnvelopeRejected(request)
<1>1. SeedsFit /\ GatesHold /\ request \in Requests
  BY DEF SInv, GatesHold
<1>2. /\ Len(seeds) \in Nat /\ DOMAIN seeds = 1 .. Len(seeds) /\ DOMAIN origins = 1 .. Len(origins)
      /\ Len(origins) = Len(seeds) /\ Len(seeds) <= Len(Records)
  BY <1>1, LenProperties DEF SeedsFit
<1>3. DOMAIN seeds \subseteq DOMAIN Records
  BY <1>1, <1>2, RecordsFit
<1>4. ASSUME NEW i \in DOMAIN seeds
      PROVE  /\ i \in Nat
             /\ seeds[i].artifact = Canon[Records[i].text] /\ seeds[i].declared = Records[i].declared
             /\ seeds[i].occurrence = OccurrenceId(Records[i], seeds[i].artifact, i - 1, request.acquisition)
             /\ origins[i] = seeds[i].occurrence
             /\ Records[i].hint \in Nat
             /\ Records[i] \in Range(Records) /\ ~EnvelopeRejected(request)
  <2>1. seeds[i] = SeedOf(i) /\ origins[i] = seeds[i].occurrence /\ i \in Nat
    BY <1>1, <1>2 DEF SeedsFit
  <2>2. Records[i].hint \in Nat /\ Records[i] \in Range(Records)
    BY <1>1, <1>3, RecordsFit
  <2>3. ~EnvelopeRejected(request)
    BY <1>1 DEF GatesHold
  <2> QED BY <2>1, <2>2, <2>3 DEF SeedOf, Seed
<1> QED BY <1>2, <1>3, <1>4

LEMMA BackedByInv == SInv => CatalogBacked
<1> SUFFICES ASSUME SInv, run.saved, "structured" \in run.flags PROVE CatalogBacked
  BY DEF CatalogBacked
<1>1. phase = "started" /\ run.catalog = seeds /\ "structured" \in FlagsOf(request)
  BY DEF SInv, RunFits, NoRun, SavedRun
<1>2. Len(seeds) = Len(Records) /\ request \in Requests
  BY <1>1 DEF SInv, GatesHold
<1>3. DOMAIN seeds = DOMAIN Records
  BY <1>2, SeedsFacts, RecordsFit
<1>4. \A i \in DOMAIN seeds, kind \in {"snapshot", "meta"} : files[<<kind, seeds[i].artifact>>] = "whole"
  <2> SUFFICES ASSUME NEW i \in DOMAIN seeds, NEW kind \in {"snapshot", "meta"}
               PROVE  files[<<kind, seeds[i].artifact>>] = "whole"
    OBVIOUS
  <2>1. i \in 1 .. Len(seeds) /\ seeds[i].artifact = Canon[Records[i].text]
    BY SeedsFacts
  <2>2. files[<<kind, Canon[Records[i].text]>>] = "whole"
    BY <2>1 DEF SInv, FilesFit
  <2> QED BY <2>1, <2>2
<1>5. origins = [i \in DOMAIN seeds |-> seeds[i].occurrence]
  <2>1. origins = [i \in DOMAIN origins |-> origins[i]]
    <3>1. origins \in Seq({s.occurrence : s \in AllSeeds})
      BY DEF SInv, SeedsFit
    <3> QED BY <3>1, LenProperties
  <2> QED BY <2>1, SeedsFacts
<1> QED BY <1>1, <1>3, <1>4, <1>5, SeedsFacts DEF CatalogBacked

\* What an occurrence id tells of the record it was made for.
LEMMA IdTells ==
  ASSUME NEW record, NEW artifact, NEW index, NEW acquisition
  PROVE  LET id == OccurrenceId(record, artifact, index, acquisition)
         IN /\ id.artifact = artifact
            /\ id.by = "line" <=> record.hint # 0
            /\ id.by = "line" => id.place = record.place /\ id.number = record.hint
            /\ id.by = "key" =>
                 record.hint = 0 /\ acquisition = "runtime-captured" /\ record.key # "none" /\ id.key = record.key
            /\ id.by = "place" =>
                 record.hint = 0 /\ acquisition = "runtime-captured" /\ record.key = "none" /\ id.place = record.place
            /\ id.by = "index" => record.hint = 0 /\ acquisition # "runtime-captured" /\ id.number = index
            /\ id.by \in {"line", "key", "place", "index"}
<1>1. CASE record.hint # 0
  BY <1>1 DEF OccurrenceId, Scheme, HasOriginHints, NoId
<1>2. CASE record.hint = 0 /\ acquisition = "runtime-captured"
  BY <1>2 DEF OccurrenceId, Scheme, HasOriginHints, NoId
<1>3. CASE record.hint = 0 /\ acquisition # "runtime-captured"
  BY <1>3 DEF OccurrenceId, Scheme, HasOriginHints, NoId
<1> QED BY <1>1, <1>2, <1>3

LEMMA ApartByInv == SInv => SeedsToldApart
<1> SUFFICES ASSUME SInv, NEW i \in DOMAIN seeds, NEW j \in DOMAIN seeds, i # j,
                    seeds[i].occurrence = seeds[j].occurrence
             PROVE  /\ Records[i].hint # 0 \/ request.acquisition = "runtime-captured"
                    /\ seeds[i].artifact = seeds[j].artifact
                    /\ Records[i].hint = Records[j].hint
                    /\ IF Records[i].hint # 0 THEN Records[i].place = Records[j].place
                       ELSE /\ Records[i].key = Records[j].key
                            /\ Records[i].key = "none" =>
                                 Records[i].place = Records[j].place /\ Records[i].place # "none"
  BY DEF SeedsToldApart
<1> DEFINE a == seeds[i].artifact
           b == seeds[j].artifact
           q == request.acquisition
           id == OccurrenceId(Records[i], a, i - 1, q)
           jd == OccurrenceId(Records[j], b, j - 1, q)
<1>1. id = jd /\ i \in Nat /\ j \in Nat
  BY SeedsFacts
<1>2. /\ id.artifact = a
      /\ id.by = "line" <=> Records[i].hint # 0
      /\ id.by = "line" => id.place = Records[i].place /\ id.number = Records[i].hint
      /\ id.by = "key" =>
           Records[i].hint = 0 /\ q = "runtime-captured" /\ Records[i].key # "none" /\ id.key = Records[i].key
      /\ id.by = "place" =>
           Records[i].hint = 0 /\ q = "runtime-captured" /\ Records[i].key = "none" /\ id.place = Records[i].place
      /\ id.by = "index" => Records[i].hint = 0 /\ q # "runtime-captured" /\ id.number = i - 1
      /\ id.by \in {"line", "key", "place", "index"}
  BY IdTells
<1>3. /\ jd.artifact = b
      /\ jd.by = "line" <=> Records[j].hint # 0
      /\ jd.by = "line" => jd.place = Records[j].place /\ jd.number = Records[j].hint
      /\ jd.by = "key" =>
           Records[j].hint = 0 /\ q = "runtime-captured" /\ Records[j].key # "none" /\ jd.key = Records[j].key
      /\ jd.by = "place" =>
           Records[j].hint = 0 /\ q = "runtime-captured" /\ Records[j].key = "none" /\ jd.place = Records[j].place
      /\ jd.by = "index" => Records[j].hint = 0 /\ q # "runtime-captured" /\ jd.number = j - 1
  BY IdTells
<1>4. \A r \in {Records[i], Records[j]} : q = "runtime-captured" => StableInputs(r)
  BY SeedsFacts DEF EnvelopeRejected, Records
<1>5. id.by = "place" => Records[i].place # "none"
  BY <1>2, <1>4 DEF StableInputs, HasOriginHints
<1> HIDE DEF id, jd
<1> QED BY <1>1, <1>2, <1>3, <1>5

\* Two positions of one record, where its id is stable, give the same id.
LEMMA OrderByInv == SInv => OrderIndependent
<1> SUFFICES ASSUME SInv, NEW i \in DOMAIN seeds, NEW j \in DOMAIN Records,
                    Records[i].hint # 0 \/ request.acquisition = "runtime-captured"
             PROVE  seeds[i].occurrence = OccurrenceId(Records[i], seeds[i].artifact, j - 1, request.acquisition)
  BY DEF OrderIndependent
<1>1. seeds[i].occurrence = OccurrenceId(Records[i], seeds[i].artifact, i - 1, request.acquisition)
  BY SeedsFacts
<1>2. CASE Records[i].hint # 0
  BY <1>1, <1>2 DEF OccurrenceId, Scheme, HasOriginHints
<1>3. CASE Records[i].hint = 0 /\ request.acquisition = "runtime-captured"
  BY <1>1, <1>3 DEF OccurrenceId, Scheme, HasOriginHints
<1> QED BY <1>2, <1>3

------------------------------------------------------------------------------
(* Catalogs of what was retrieved.                                           *)

\* The lines of the envelope that a search gives.
Lines(search) ==
  IF search.gated THEN RetrieveGated(search.query, search.k) ELSE Retrieve(search.query, search.k)

Earlier(query) ==
  {p \in Entries \X Entries :
     \/ Score(query, p[1]) > Score(query, p[2])
     \/ Score(query, p[1]) = Score(query, p[2]) /\ p[1] < p[2]}

LEMMA EntriesFit ==
  ASSUME NEW query
  PROVE  /\ IsFiniteSet(Entries) /\ Cardinality(Entries) \in Nat
         /\ \A n \in Entries : n \in Nat \ {0} /\ Score(query, n) \in Nat
<1>1. DOMAIN Reference = 1 .. Len(Reference) /\ Len(Reference) \in Nat
  BY ReferenceAssumption, LenProperties
<1>2. IsFiniteSet(1 .. Len(Reference))
  BY <1>1, FS_Interval
<1>3. Entries \subseteq 1 .. Len(Reference)
  BY <1>1 DEF Entries
<1>4. IsFiniteSet(Entries) /\ Cardinality(Entries) \in Nat
  BY <1>2, <1>3, FS_Subset, FS_CardinalityType
<1>5. ASSUME NEW n \in Entries PROVE Score(query, n) \in Nat
  <2>1. IsFiniteSet(Reference[n].haystack)
    BY ReferenceAssumption DEF Entries, Range
  <2>2. \A S : Cardinality(S \cap Reference[n].haystack) \in Nat
    BY <2>1, FS_Intersection, FS_CardinalityType
  <2>3. /\ Cardinality(query.long \cap Reference[n].haystack) \in Nat
        /\ Cardinality(query.short \cap Reference[n].haystack) \in Nat
    BY <2>2
  <2> QED BY <2>3 DEF Score
<1> QED BY <1>1, <1>3, <1>4, <1>5

\* The ranking of all entries: each once, at the place that those before it leave it.
LEMMA RankedFits ==
  ASSUME NEW query
  PROVE  /\ Ranked(query) \in Seq(Entries) /\ Len(Ranked(query)) = Cardinality(Entries)
         /\ \A i \in 1 .. Cardinality(Entries) :
              Cardinality({n \in Entries : Beats(query, n, Ranked(query)[i])}) = i - 1
         /\ \A n \in Entries : Cardinality(Entries) > 0 => Score(query, n) <= Score(query, Ranked(query)[1])
<1>1. Ranked(query) = Sorted(Entries, Earlier(query))
  BY DEF Ranked, Earlier
<1>2. StrictTotal(Entries, Earlier(query))
  <2>1. \A n \in Entries : n \in Nat /\ Score(query, n) \in Nat
    BY EntriesFit
  <2> QED BY <2>1 DEF StrictTotal, Earlier
<1>3. IsFiniteSet(Entries) /\ Cardinality(Entries) \in Nat
  BY EntriesFit
<1>4. /\ Ranked(query) \in Seq(Entries) /\ Len(Ranked(query)) = Cardinality(Entries)
      /\ \A i \in 1 .. Cardinality(Entries) :
           /\ Ranked(query)[i] \in Entries
           /\ Cardinality(Below(Entries, Earlier(query), Ranked(query)[i])) = i - 1
      /\ \A n \in Entries : \E i \in 1 .. Cardinality(Entries) : Ranked(query)[i] = n
      /\ \A i, j \in 1 .. Cardinality(Entries) :
           i < j => <<Ranked(query)[i], Ranked(query)[j]>> \in Earlier(query)
  <2> DEFINE before == Earlier(query)
  <2> HIDE DEF before
  <2>1. StrictTotal(Entries, before) /\ Ranked(query) = Sorted(Entries, before)
    BY <1>1, <1>2 DEF before
  <2>2. /\ Sorted(Entries, before) \in Seq(Entries) /\ Len(Sorted(Entries, before)) = Cardinality(Entries)
        /\ \A i \in 1 .. Cardinality(Entries) :
             /\ Sorted(Entries, before)[i] \in Entries
             /\ Cardinality(Below(Entries, before, Sorted(Entries, before)[i])) = i - 1
        /\ \A n \in Entries : \E i \in 1 .. Cardinality(Entries) : Sorted(Entries, before)[i] = n
        /\ \A i, j \in 1 .. Cardinality(Entries) :
             i < j => <<Sorted(Entries, before)[i], Sorted(Entries, before)[j]>> \in before
    BY <1>3, <2>1, SortedFits
  <2> QED BY <2>1, <2>2 DEF before
<1>5. \A n \in Entries : Below(Entries, Earlier(query), n) = {m \in Entries : Beats(query, m, n)}
  BY DEF Below, Earlier, Beats
<1>6. ASSUME NEW n \in Entries, Cardinality(Entries) > 0
      PROVE  Score(query, n) <= Score(query, Ranked(query)[1])
  <2>1. PICK i \in 1 .. Cardinality(Entries) : Ranked(query)[i] = n
    BY <1>4
  <2>2. 1 \in 1 .. Cardinality(Entries) /\ Ranked(query)[1] \in Entries
    BY <1>3, <1>4, <1>6
  <2>3. Score(query, n) \in Nat /\ Score(query, Ranked(query)[1]) \in Nat
    BY <2>2, EntriesFit
  <2>4. CASE i = 1
    BY <2>1, <2>3, <2>4
  <2>5. CASE 1 < i
    <3>1. <<Ranked(query)[1], n>> \in Earlier(query)
      BY <1>4, <2>1, <2>2, <2>5
    <3> QED BY <2>3, <3>1 DEF Earlier
  <2> QED BY <1>3, <2>1, <2>4, <2>5
<1> QED BY <1>4, <1>5, <1>6

\* What a search gives: the first of the ranking, or nothing.
LEMMA LinesFit ==
  ASSUME NEW q \in Requests, NEW search \in q.search
  PROVE  LET supported == \E n \in Entries : Score(search.query, n) >= NoAnswerThreshold
             wanted == IF search.k < Cardinality(Entries) THEN search.k ELSE Cardinality(Entries)
         IN /\ Lines(search) \in Seq(Entries)
            /\ DOMAIN Lines(search) = 1 .. Len(Lines(search)) /\ Len(Lines(search)) \in Nat
            /\ Len(Lines(search)) = IF search.gated /\ ~supported THEN 0 ELSE wanted
            /\ \A i \in DOMAIN Lines(search) :
                 Cardinality({n \in Entries : Beats(search.query, n, Lines(search)[i])}) = i - 1
<1> DEFINE N == Cardinality(Entries)
           supported == \E n \in Entries : Score(search.query, n) >= NoAnswerThreshold
           wanted == IF search.k < N THEN search.k ELSE N
           ranked == Ranked(search.query)
           first == FirstOf(ranked, search.k)
<1>1. search.k \in Nat \ {0} /\ search.gated \in BOOLEAN /\ N \in Nat
  BY SearchAssumption, EntriesFit
<1>2. /\ ranked \in Seq(Entries) /\ Len(ranked) = N
      /\ \A i \in 1 .. N : Cardinality({n \in Entries : Beats(search.query, n, ranked[i])}) = i - 1
      /\ \A n \in Entries : N > 0 => Score(search.query, n) <= Score(search.query, ranked[1])
  BY RankedFits
<1>3. /\ first \in Seq(Entries) /\ Len(first) = wanted /\ wanted \in Nat /\ wanted <= N
      /\ DOMAIN first = 1 .. wanted /\ \A i \in 1 .. wanted : first[i] = ranked[i]
  <2> HIDE DEF ranked, N
  <2>1. \A k \in Nat :
          /\ FirstOf(ranked, k) \in Seq(Entries)
          /\ LET m == IF k < Len(ranked) THEN k ELSE Len(ranked)
             IN /\ Len(FirstOf(ranked, k)) = m /\ m \in Nat /\ m <= Len(ranked)
                /\ DOMAIN FirstOf(ranked, k) = 1 .. m /\ \A i \in 1 .. m : FirstOf(ranked, k)[i] = ranked[i]
    BY <1>2, FirstFits
  <2> QED BY <1>1, <1>2, <2>1
<1>4. Retrieve(search.query, search.k) = first
  BY DEF Retrieve
<1>5. \A i \in 1 .. wanted : Cardinality({n \in Entries : Beats(search.query, n, first[i])}) = i - 1
  <2> HIDE DEF first, ranked, N
  <2> QED BY <1>1, <1>2, <1>3
<1>6. Lines(search) = IF search.gated /\ ~supported THEN <<>> ELSE first
  <2>1. CASE ~search.gated
    BY <1>4, <2>1 DEF Lines
  <2>2. CASE search.gated /\ first = <<>>
    BY <1>4, <2>2 DEF Lines, RetrieveGated
  <2>3. CASE search.gated /\ first # <<>>
    <3>1. Lines(search) = IF Score(search.query, first[1]) < NoAnswerThreshold THEN <<>> ELSE first
      BY <1>4, <2>3 DEF Lines, RetrieveGated
    <3>2. wanted > 0 /\ N > 0 /\ first[1] = ranked[1] /\ ranked[1] \in Entries
      <4> HIDE DEF first, ranked, N
      <4>1. Len(first) > 0
        BY <1>3, <2>3
      <4> QED BY <1>1, <1>2, <1>3, <4>1
    <3>3. supported <=> ~(Score(search.query, first[1]) < NoAnswerThreshold)
      <4> HIDE DEF first, ranked, N
      <4>1. \A n \in Entries : Score(search.query, n) \in Nat
        BY EntriesFit
      <4> QED BY <1>2, <3>2, <4>1 DEF NoAnswerThreshold
    <3> QED BY <2>3, <3>1, <3>3
  <2> QED BY <1>1, <2>1, <2>2, <2>3
<1>7. <<>> \in Seq(Entries) /\ Len(<<>>) = 0 /\ DOMAIN <<>> = 1 .. 0
  OBVIOUS
<1> HIDE DEF first, ranked, N
<1>8. CASE search.gated /\ ~supported
  BY <1>6, <1>7, <1>8 DEF N
<1>9. CASE ~(search.gated /\ ~supported)
  BY <1>3, <1>5, <1>6, <1>9 DEF N
<1> QED BY <1>8, <1>9

\* The catalog follows the lines.
LEMMA CatalogFollows ==
  ASSUME SInv, NEW search \in request.search
  PROVE  /\ request \in Requests
         /\ run.saved /\ "structured" \in run.flags => Len(run.catalog) = Len(Lines(search))
         /\ \A i \in DOMAIN run.catalog :
              /\ i \in DOMAIN Lines(search)
              /\ run.catalog[i].line = Lines(search)[i]
              /\ run.catalog[i].declared = Record(Lines(search)[i]).declared
<1>1. request \in Requests /\ SeedsFit
  BY DEF SInv, GatesHold
<1>2. Records = [i \in DOMAIN Lines(search) |-> Record(Lines(search)[i])]
  <2>1. request.envelope = RetrieveEnvelope(search)
    BY <1>1, SearchAssumption
  <2> QED BY <2>1 DEF Records, RetrieveEnvelope, Lines
<1>3. DOMAIN Records = 1 .. Len(Records) /\ Len(Records) \in Nat
  BY <1>1, RecordsFit
<1>4. Len(Records) = Len(Lines(search))
  <2>1. DOMAIN Lines(search) = 1 .. Len(Lines(search)) /\ Len(Lines(search)) \in Nat
    BY <1>1, LinesFit
  <2> QED BY <1>2, <1>3, <2>1
<1>5. run.saved /\ "structured" \in run.flags => Len(run.catalog) = Len(Records)
  <2> SUFFICES ASSUME run.saved, "structured" \in run.flags PROVE Len(run.catalog) = Len(Records)
    OBVIOUS
  <2>1. phase = "started" /\ run.catalog = seeds /\ "structured" \in FlagsOf(request)
    BY DEF SInv, RunFits, NoRun, SavedRun
  <2> QED BY <2>1 DEF SInv, GatesHold
<1>6. ASSUME NEW i \in DOMAIN run.catalog
      PROVE  /\ i \in DOMAIN Lines(search)
             /\ run.catalog[i].line = Lines(search)[i]
             /\ run.catalog[i].declared = Record(Lines(search)[i]).declared
  <2>1. run.catalog = seeds
    BY <1>6 DEF SInv, RunFits, NoRun, SavedRun
  <2>2. i \in 1 .. Len(seeds) /\ i \in DOMAIN Records
    BY <2>1, SeedsFacts
  <2>3. seeds[i].line = Records[i].hint /\ seeds[i].declared = Records[i].declared
    <3>1. seeds[i] = SeedOf(i)
      BY <1>1, <2>2 DEF SeedsFit
    <3> QED BY <3>1 DEF SeedOf, Seed
  <2>4. i \in DOMAIN Lines(search) /\ Records[i] = Record(Lines(search)[i])
    BY <1>2, <2>2
  <2> QED BY <2>1, <2>3, <2>4 DEF Record
<1> QED BY <1>1, <1>4, <1>5, <1>6

LEMMA RankedByInv == SInv => EvidenceRanked
<1> SUFFICES ASSUME SInv, NEW search \in request.search, run.saved, "structured" \in run.flags
             PROVE  LET supported == \E n \in Entries : Score(search.query, n) >= NoAnswerThreshold
                        wanted == IF search.k < Cardinality(Entries) THEN search.k ELSE Cardinality(Entries)
                    IN /\ Len(run.catalog) = IF search.gated /\ ~supported THEN 0 ELSE wanted
                       /\ \A i \in DOMAIN run.catalog :
                            LET line == run.catalog[i].line
                            IN /\ line \in Entries
                               /\ Cardinality({n \in Entries : Beats(search.query, n, line)}) = i - 1
  BY DEF EvidenceRanked
<1>1. /\ request \in Requests /\ Len(run.catalog) = Len(Lines(search))
      /\ \A i \in DOMAIN run.catalog : i \in DOMAIN Lines(search) /\ run.catalog[i].line = Lines(search)[i]
  BY CatalogFollows
<1>2. Lines(search) \in Seq(Entries) /\ \A i \in DOMAIN Lines(search) : Lines(search)[i] \in Entries
  BY <1>1, LinesFit
<1> QED BY <1>1, <1>2, LinesFit

LEMMA ForetoldByInv == SInv => InventoryForetells
<1> SUFFICES ASSUME SInv, NEW search \in request.search, NEW i \in DOMAIN run.catalog
             PROVE  LET seed == run.catalog[i]
                        mirrored == Reasons(Record(seed.line)) \cap MirroredReasons
                    IN /\ "curated-presentation-without-rights" \in mirrored <=> ~RightsOk(seed)
                       /\ EnumReasons \cap mirrored # {} <=> ~EnumsOk(seed)
                       /\ SeedRefused(seed) <=> mirrored # {} \/ "interpretation_only" \in seed.declared
  BY DEF InventoryForetells
<1>1. run.catalog[i].declared = Record(run.catalog[i].line).declared
  BY CatalogFollows
<1> DEFINE record == Record(run.catalog[i].line)
<1>2. "curated-presentation-without-rights" \in Reasons(record) <=> HasPresentation(record) /\ "rights" \notin record.declared
  BY DEF Reasons
<1>3. /\ "representation-kind-not-in-enum" \in Reasons(record) <=> "off_enum_kind" \in record.declared
      /\ "rendering-mode-not-in-enum" \in Reasons(record) <=> "off_enum_mode" \in record.declared
  BY DEF Reasons
<1> HIDE DEF record
<1>4. HasPresentation(record) /\ "rights" \notin record.declared <=> ~RightsOk(run.catalog[i])
  BY <1>1 DEF HasPresentation, Presentation, RightsOk, record
<1>5. "off_enum_kind" \in record.declared \/ "off_enum_mode" \in record.declared <=> ~EnumsOk(run.catalog[i])
  BY <1>1 DEF EnumsOk, record
<1> DEFINE mirrored == Reasons(record) \cap MirroredReasons
<1>6. "curated-presentation-without-rights" \in mirrored <=> ~RightsOk(run.catalog[i])
  BY <1>2, <1>4 DEF MirroredReasons
<1>7. EnumReasons \cap mirrored # {} <=> ~EnumsOk(run.catalog[i])
  BY <1>3, <1>5 DEF EnumReasons, MirroredReasons
<1>8. mirrored # {} <=> ~RightsOk(run.catalog[i]) \/ ~EnumsOk(run.catalog[i])
  BY <1>6, <1>7 DEF EnumReasons, MirroredReasons
<1> QED BY <1>6, <1>7, <1>8 DEF SeedRefused, record
------------------------------------------------------------------------------
\* Types of a start; a seed is of an artifact, and its occurrence of the same one.
THEOREM StartTypes == Spec => []TypeOK
<1>1. SInv => TypeOK
  BY DEF SInv
<1> QED BY <1>1, SInductive, PTL

\* No request with a routing label, well spelled or not, has a directory or a run.
THEOREM RoutedStaysOut == Spec => []RoutedNeverEnters
BY RoutedByInv, SInductive, PTL

\* An envelope that is refused has left nothing in the store, however long it is.
THEOREM RejectedLeavesNothing == Spec => []RejectedTouchesNothing
BY RejectedByInv, SInductive, PTL

\* The saved catalog has a seed for each record, with whole files and a logged origin,
\* whatever records share their bytes and wherever start() may have died before.
THEOREM CatalogIsBacked == Spec => []CatalogBacked
BY BackedByInv, SInductive, PTL

\* Seeds share an occurrence id only if their records cannot be told apart.
THEOREM SeedsAreToldApart == Spec => []SeedsToldApart
BY ApartByInv, SInductive, PTL

\* Ids of corpus lines and of captured records do not depend on the order of the envelope.
THEOREM OrderDoesNotMatter == Spec => []OrderIndependent
BY OrderByInv, SInductive, PTL

\* The saved catalog shows what the search ranked first, each seed at the place that the
\* entries of the corpus that beat it leave it, and nothing behind the gate that the
\* corpus does not support: for any reference file, query, k and ordering of ties.
THEOREM EvidenceIsRanked == Spec => []EvidenceRanked
BY RankedByInv, SInductive, PTL

\* The inventory's reasons for rights and enums are against exactly the records whose seeds
\* the finalizer refuses for them, and all else that it refuses a seed for is that it is
\* interpretation-only: for any curation.
THEOREM InventoryIsRight == Spec => []InventoryForetells
BY ForetoldByInv, SInductive, PTL
==============================================================================
