---------------------------- MODULE ClaimPipeline ----------------------------
(***************************************************************************)
(* One panelist's reply on its way to the user, in a run with structured   *)
(* claims: the claim block is validated and bound to the evidence catalog  *)
(* (B1b, with one repair), verified against the snapshots (B2), gated at   *)
(* the response boundary (B3), recorded, and finalized into Surface A,     *)
(* Surface B and an audit, any number of times.                            *)
(*                                                                         *)
(* A claim's wording is abstracted to the snapshots that contain it, and   *)
(* the evidence store may lose a snapshot between any two reads.  The      *)
(* list of a claim's edges is the set of them, each with its place in the  *)
(* block.                                                                  *)
(***************************************************************************)
EXTENDS Integers, Sequences, FiniteSets, Functions

CONSTANTS
  Modes,      \* how far the run goes: "bind", "verify", "failClosed"
  Artifacts,  \* ids of the snapshots in the run's evidence store
  Catalog,    \* the evidence seeds by id, as adapted from the envelope
  Blocks      \* the claim blocks a panelist may send

Seeds == DOMAIN Catalog
Kinds == {"none", "published", "generated"}
SeedRecords ==
  [artifact : Artifacts, interpretive : BOOLEAN, curated : BOOLEAN,
   rights : BOOLEAN, kind : Kinds]

\* A block that is no claim/v1 object, one on which validation raises something
\* else than SchemaRejection, one whose wording UTF-8 cannot encode, the rest.
Flaws == {"malformed", "unhashable", "unencodable", "none"}

\* The values of claim_type a block may hold: those of the policy, and others.
ClaimTypes == {"text", "interpretation", "unverified-citation"}

ASSUME ModeAssumption == Modes \subseteq {"bind", "verify", "failClosed"}
ASSUME CatalogAssumption ==
  /\ Catalog \in [Seeds -> SeedRecords]
  /\ \A s \in Seeds : Catalog[s].kind # "none" => Catalog[s].curated

\* What a block may hold; any seed may be cited.
Cited == UNION {{edge.seed : edge \in Range(block.edges)} : block \in Blocks}
ASSUME BlockAssumption ==
  Blocks \subseteq
    [flaw : Flaws,
     claims : Seq([id : Nat, type : ClaimTypes \cup {"other"}, found : SUBSET Artifacts, declared : Kinds]),
     edges : Seq([claim : Nat, seed : Cited, quotes : BOOLEAN])]

VARIABLES
  mode,    \* the flags of the run
  stage,   \* where the job, then the recorded result, stands
  result,  \* the result dict of the panelist
  lost,    \* snapshots the store can no longer read
  draft,   \* the authority units of the running debate_finalize
  answer   \* what the last debate_finalize returned for this panelist

vars == <<mode, stage, result, lost, draft, answer>>

-------------------------------------------------------------------------------
(* B1b: validate_claim_payload and bind_payload. *)

ClaimIds(block) == {claim.id : claim \in Range(block.claims)}

\* Mutant of WellFormed: an id may be used twice.
WellFormedTwice(block) ==
  /\ block.claims # <<>>
  /\ \A claim \in Range(block.claims) : claim.type \in ClaimTypes
  /\ \A edge \in Range(block.edges) : edge.claim \in ClaimIds(block)
  /\ \A claim \in Range(block.claims) :
       claim.type = "text" => \E edge \in Range(block.edges) : edge.claim = claim.id

WellFormed(block) ==
  /\ block.claims # <<>>
  /\ \A i, j \in DOMAIN block.claims : block.claims[i].id = block.claims[j].id => i = j
  /\ \A claim \in Range(block.claims) : claim.type \in ClaimTypes
  /\ \A edge \in Range(block.edges) : edge.claim \in ClaimIds(block)
  /\ \A claim \in Range(block.claims) :
       claim.type = "text" => \E edge \in Range(block.edges) : edge.claim = claim.id

\* Every citation names a seed of the catalog.
Resolves(block) == \A edge \in Range(block.edges) : edge.seed \in Seeds

\* Mutant of SchemaCheck: a dangling citation passes.
SchemaCheckDangling(block) ==
  IF block.flaw = "unhashable" THEN "raise"
  ELSE IF block.flaw # "malformed" /\ WellFormed(block) THEN "ok"
  ELSE "reject"

SchemaCheck(block) ==
  IF block.flaw = "unhashable" THEN "raise"
  ELSE IF block.flaw # "malformed" /\ WellFormed(block) /\ Resolves(block) THEN "ok"
  ELSE "reject"

EdgesOf(block, id) ==
  {[place |-> i, claim |-> id, seed |-> block.edges[i].seed, quotes |-> block.edges[i].quotes] :
     i \in {j \in DOMAIN block.edges : block.edges[j].claim = id}}

\* ClaimRecords with their edges, everything unverified.
Bind(block) ==
  [i \in DOMAIN block.claims |->
    [id |-> block.claims[i].id, type |-> block.claims[i].type,
     found |-> block.claims[i].found, declared |-> block.claims[i].declared,
     edges |-> EdgesOf(block, block.claims[i].id), state |-> "unverified"]]

-------------------------------------------------------------------------------
(* B2: verify_bound_claims. *)

\* Mutant of EdgeValid: readable is enough for a quotation, too.
EdgeReadable(edge, claim) == Catalog[edge.seed].artifact \notin lost

\* A quotation is looked up in its snapshot, a summary needs it to be readable.
EdgeValid(edge, claim) ==
  LET artifact == Catalog[edge.seed].artifact IN
  /\ artifact \notin lost
  /\ edge.quotes => artifact \in claim.found

Kept(claim) == {edge \in claim.edges : EdgeValid(edge, claim)}

\* Mutant of VerifiedClaim: what fails becomes an interpretation.
VerifiedClaimRelabelled(claim) ==
  IF claim.type # "text" THEN claim
  ELSE IF Kept(claim) # {} THEN [claim EXCEPT !.edges = Kept(claim), !.state = "runtime-validated"]
  ELSE [claim EXCEPT !.edges = {}, !.state = "failed", !.type = "interpretation"]

\* Interpretations and citations are carried forward as they are; a [Text]
\* claim keeps its valid edges or becomes an unverified citation.
VerifiedClaim(claim) ==
  IF claim.type # "text" THEN claim
  ELSE IF Kept(claim) # {} THEN [claim EXCEPT !.edges = Kept(claim), !.state = "runtime-validated"]
  ELSE [claim EXCEPT !.edges = {}, !.state = "failed", !.type = "unverified-citation"]

\* Encoding the needle of a quotation raises outside the handler of the edge.
VerificationRaises ==
  /\ result.flaw = "unencodable"
  /\ \E claim \in Range(result.bound) :
       /\ claim.type = "text"
       /\ \E edge \in claim.edges :
            edge.quotes /\ Catalog[edge.seed].artifact \notin lost

-------------------------------------------------------------------------------
(* B3: gate_response. *)

\* How an admitted claim is rendered, "deny" for the others.
GateClaim(claim) ==
  CASE claim.type = "text" /\ claim.state = "runtime-validated" -> "text"
    [] claim.type = "unverified-citation" -> "non-supporting"
    [] claim.type = "interpretation" -> "interpretation"
    [] OTHER -> "deny"

Decisions(claims) == [i \in DOMAIN claims |-> GateClaim(claims[i])]

-------------------------------------------------------------------------------
(* render_finalizer. *)

RightsOk(seed) == seed.curated => seed.rights

\* The seed's own kind wins and must not be contradicted; without one a
\* panelist may only lower the rendering to a generated one.
Contradicted(claim, seed) ==
  seed.kind # "none" /\ claim.declared # "none" /\ claim.declared # seed.kind

Representation(claim, seed) ==
  IF seed.kind # "none" THEN seed.kind
  ELSE IF claim.declared = "generated" THEN "generated"
  ELSE "none"

\* _build_authority_unit looks at the first edge that was kept; what it refuses whatever
\* the store holds, and what it reads there.
LeadEdge(claim) == CHOOSE edge \in claim.edges : \A other \in claim.edges : edge.place <= other.place
LeadSeed(claim) == Catalog[LeadEdge(claim).seed]

Entitled(claim) ==
  /\ claim.state = "runtime-validated"
  /\ claim.edges # {}
  /\ ~LeadSeed(claim).interpretive
  /\ RightsOk(LeadSeed(claim))
  /\ ~Contradicted(claim, LeadSeed(claim))

Buildable(claim) ==
  /\ Entitled(claim)
  /\ LeadEdge(claim).quotes => LeadSeed(claim).artifact \notin lost

AuthorityUnit(claim) ==
  [claim |-> claim.id, seed |-> LeadEdge(claim).seed, quotes |-> LeadEdge(claim).quotes,
   kind |-> Representation(claim, LeadSeed(claim))]

\* The indices of the verified claims the boundary renders in one of `ways'.
Rendered(ways) == {i \in DOMAIN result.verified : result.decisions[i] \in ways}
OnSurfaceB(claim) == [claim |-> claim.id, kind |-> claim.type]

\* validate_answer_input: the unit is what its claim yields when built anew.
Traceable(unit) ==
  \E i \in Rendered({"text"}) :
    /\ result.verified[i].id = unit.claim
    /\ Buildable(result.verified[i])
    /\ AuthorityUnit(result.verified[i]) = unit

NoAnswer == [status |-> "none", surfaceA |-> {}, surfaceB |-> {}, rejected |-> {}]
FinalizationError == [NoAnswer EXCEPT !.status = "error"]
EmptyAnswer == [NoAnswer EXCEPT !.status = "final"]

-------------------------------------------------------------------------------

(* What is counted and labelled from the recorded result and the answer. *)

\* verification_summary: a claim is downgraded if it was bound as [Text].
VerificationSummary ==
  LET Holding(state) == {i \in DOMAIN result.verified : result.verified[i].state = state}
  IN [claims |-> Len(result.verified),
      validated |-> Cardinality(Holding("runtime-validated")),
      failed |-> Cardinality(Holding("failed")),
      downgraded |-> Cardinality({i \in DOMAIN result.verified :
                        result.bound[i].type = "text" /\ result.verified[i].type # "text"})]

\* _accumulate_result of the run-state summary, for the claims of a decision.
BoundarySummary ==
  [admitted |-> Cardinality({i \in DOMAIN result.decisions : result.decisions[i] # "deny"}),
   denied |-> Cardinality({i \in DOMAIN result.decisions : result.decisions[i] = "deny"})]

\* Mutant of Footer: whatever is on Surface A counts as span-verified.
FooterRaised ==
  [textual |-> Cardinality(answer.surfaceA),
   curated |-> Cardinality(answer.surfaceA),
   summaries |-> Cardinality({unit \in answer.surfaceA : ~unit.quotes}),
   denied |-> Cardinality(answer.rejected),
   interpretations |-> Cardinality(answer.surfaceB)]

\* summarize_finalized; only quotations bear a span tier, the curated one.
Footer ==
  [textual |-> Cardinality(answer.surfaceA),
   curated |-> Cardinality({unit \in answer.surfaceA : unit.quotes}),
   summaries |-> Cardinality({unit \in answer.surfaceA : ~unit.quotes}),
   denied |-> Cardinality(answer.rejected),
   interpretations |-> Cardinality(answer.surfaceB)]

\* Mutant of EnforcementMode: the flags of the run speak for its results.
EnforcementModeByFlags ==
  IF mode = "failClosed" THEN "structured-fail-closed"
  ELSE IF mode = "verify" THEN "structured-claim-validated"
  ELSE "structured-schema-enforced"

\* _enforcement_mode, of a round that holds this result alone.
EnforcementMode ==
  IF mode = "failClosed" /\ result.boundary # "none" THEN "structured-fail-closed"
  ELSE IF result.schema \notin {"ok", "repaired"} THEN "instruction-enforced"
  ELSE IF mode # "bind" /\ result.verified # <<>> THEN "structured-claim-validated"
  ELSE "structured-schema-enforced"

-------------------------------------------------------------------------------

NoResult ==
  [schema |-> "none", flaw |-> "none", bound |-> <<>>, verified |-> <<>>,
   boundary |-> "none", decisions |-> <<>>]

Init ==
  /\ mode \in Modes
  /\ stage = "asked"
  /\ result = NoResult
  /\ lost = {}
  /\ draft = {}
  /\ answer = NoAnswer

Attach(block, status) ==
  /\ result' = [result EXCEPT !.schema = status, !.flaw = block.flaw, !.bound = Bind(block)]
  /\ stage' = "bound"

\* The claims are dropped and the prose is kept.
DropClaims ==
  /\ result' = [result EXCEPT !.schema = "schema_failed"]
  /\ stage' = "bound"

Abort == stage' = "aborted" /\ UNCHANGED result

\* The reply: bound, sent back for its one repair, or dropped when it has no
\* thread to repair it on.
Reply(block) ==
  /\ stage = "asked"
  /\ \/ SchemaCheck(block) = "ok" /\ Attach(block, "ok")
     \/ SchemaCheck(block) = "raise" /\ Abort
     \/ SchemaCheck(block) = "reject" /\ stage' = "repair" /\ UNCHANGED result
     \/ SchemaCheck(block) = "reject" /\ DropClaims
  /\ UNCHANGED <<mode, lost, draft, answer>>

\* The answer of the codex-reply that asked for the repair.
Repair(block) ==
  /\ stage = "repair"
  /\ \/ SchemaCheck(block) = "ok" /\ Attach(block, "repaired")
     \/ SchemaCheck(block) = "raise" /\ Abort
     \/ SchemaCheck(block) = "reject" /\ DropClaims
  /\ UNCHANGED <<mode, lost, draft, answer>>

RepairCallFails ==
  /\ stage = "repair"
  /\ DropClaims
  /\ UNCHANGED <<mode, lost, draft, answer>>

\* Without bound claims, or when it raises, there is no claim_verification.
Verify ==
  /\ stage = "bound"
  /\ stage' = "verified"
  /\ result' = IF mode = "bind" \/ VerificationRaises THEN result
               ELSE [result EXCEPT !.verified =
                      [i \in DOMAIN result.bound |-> VerifiedClaim(result.bound[i])]]
  /\ UNCHANGED <<mode, lost, draft, answer>>

Gate ==
  /\ stage = "verified"
  /\ stage' = "returned"
  /\ result' = IF mode # "failClosed" THEN result
               ELSE IF result.verified = <<>> THEN [result EXCEPT !.boundary = "denied"]
               ELSE [result EXCEPT !.boundary = "admitted",
                                   !.decisions = Decisions(result.verified)]
  /\ UNCHANGED <<mode, lost, draft, answer>>

\* _dispatch_jobs saves the result; text UTF-8 cannot encode makes that raise.
Record ==
  /\ stage = "returned"
  /\ stage' = IF result.flaw = "unencodable" THEN "aborted" ELSE "recorded"
  /\ UNCHANGED <<mode, result, lost, draft, answer>>

\* debate_finalize, building: without a boundary decision the panelist is
\* skipped, without a verification or with a claim no unit can be built from
\* there is an error and nothing else.
Build ==
  /\ stage = "recorded"
  /\ mode = "failClosed"
  /\ result.boundary # "none"
  /\ IF /\ result.verified # <<>>
        /\ \A i \in Rendered({"text"}) : Buildable(result.verified[i])
     THEN /\ draft' = {AuthorityUnit(result.verified[i]) : i \in Rendered({"text"})}
          /\ stage' = "built"
          /\ UNCHANGED answer
     ELSE /\ answer' = FinalizationError
          /\ UNCHANGED <<stage, draft>>
  /\ UNCHANGED <<mode, result, lost>>

\* An answer with these units.
Surfaces(units) ==
  [status |-> "final", surfaceA |-> units,
   surfaceB |-> {OnSurfaceB(result.verified[i]) : i \in Rendered({"non-supporting", "interpretation"})},
   rejected |-> {result.verified[i].id : i \in Rendered({"deny"})}]

\* Mutant of Trace: the units are serialized as they were built.
TraceNothing ==
  /\ stage = "built"
  /\ stage' = "recorded"
  /\ draft' = {}
  /\ answer' = Surfaces(draft)
  /\ UNCHANGED <<mode, result, lost>>

\* Every unit is derived again, reading the store anew; then the surfaces are
\* serialized.
Trace ==
  /\ stage = "built"
  /\ stage' = "recorded"
  /\ draft' = {}
  /\ answer' = IF \E unit \in draft : ~Traceable(unit) THEN FinalizationError ELSE Surfaces(draft)
  /\ UNCHANGED <<mode, result, lost>>

\* The evidence store, outside: read_snapshot raises from now on.
LoseSnapshot(a) ==
  /\ a \notin lost
  /\ lost' = lost \cup {a}
  /\ UNCHANGED <<mode, stage, result, draft, answer>>

Next ==
  \/ \E block \in Blocks : Reply(block) \/ Repair(block)
  \/ RepairCallFails
  \/ Verify \/ Gate \/ Record
  \/ Build \/ Trace
  \/ \E a \in Artifacts : LoseSnapshot(a)

Spec == Init /\ [][Next]_vars

-------------------------------------------------------------------------------

Edges == [place : Nat, claim : Nat, seed : Seeds, quotes : BOOLEAN]
Claims ==
  [id : Nat, type : ClaimTypes, found : SUBSET Artifacts, declared : Kinds,
   edges : SUBSET Edges, state : {"unverified", "runtime-validated", "failed"}]
Ways == {"text", "non-supporting", "interpretation", "deny"}
Units == [claim : Nat, seed : Seeds, quotes : BOOLEAN, kind : Kinds]
Results ==
  [schema : {"none", "ok", "repaired", "schema_failed"}, flaw : Flaws,
   bound : Seq(Claims), verified : Seq(Claims),
   boundary : {"none", "denied", "admitted"}, decisions : Seq(Ways)]
Answers ==
  [status : {"none", "error", "final"}, surfaceA : SUBSET Units,
   surfaceB : SUBSET [claim : Nat, kind : ClaimTypes], rejected : SUBSET Nat]

TypeOK ==
  /\ mode \in Modes
  /\ stage \in {"asked", "repair", "bound", "verified", "returned", "recorded",
                "built", "aborted"}
  /\ result \in Results
  /\ lost \subseteq Artifacts
  /\ draft \subseteq Units
  /\ answer \in Answers

\* Surface A shows nothing a [Text] claim of the bound reply has not earned: the
\* seed is one the claim cites, is neither interpretation-only nor without
\* rights, and a quotation stood verbatim in the snapshot of that very seed.
AuthorityEarned ==
  \A unit \in answer.surfaceA :
    /\ ~Catalog[unit.seed].interpretive
    /\ RightsOk(Catalog[unit.seed])
    /\ \E claim \in Range(result.bound) :
         /\ claim.id = unit.claim
         /\ claim.type = "text"
         /\ \E edge \in claim.edges : edge.seed = unit.seed /\ edge.quotes = unit.quotes
         /\ unit.quotes => Catalog[unit.seed].artifact \in claim.found

\* A finalized answer is atomic: every bound claim is on exactly one of Surface
\* A, Surface B and the audit list, none is dropped and none is invented.
EveryClaimPlaced ==
  LET onA == {unit.claim : unit \in answer.surfaceA}
      onB == {unit.claim : unit \in answer.surfaceB}
  IN answer.status = "final" =>
       /\ onA \cup onB \cup answer.rejected = {claim.id : claim \in Range(result.bound)}
       /\ onA \cap onB = {} /\ (onA \cup onB) \cap answer.rejected = {}

\* The three places that count claims count the same ones: what the footer shows a
\* user under an answer are the claims verification validated, each of them once and
\* as the quotation or summary it is; the others are below it or in the audit.
ReportsAgree ==
  answer.status = "final" =>
    /\ Footer.textual = VerificationSummary.validated
    /\ Footer.curated + Footer.summaries = Footer.textual
    /\ Footer.denied = BoundarySummary.denied
    /\ Footer.textual + Footer.interpretations = BoundarySummary.admitted
    /\ BoundarySummary.admitted + BoundarySummary.denied = VerificationSummary.claims
    /\ VerificationSummary.failed = VerificationSummary.downgraded
    /\ VerificationSummary.downgraded <= Footer.interpretations

\* The mode debate_collect and debate_finalize report never claims more than the
\* result carries: validation only where every [Text] claim has an outcome, the
\* boundary only where a decision was made, an authority surface under no other.
ModeEarned ==
  stage = "recorded" =>
    /\ EnforcementMode = "structured-fail-closed" => result.boundary # "none"
    /\ EnforcementMode = "structured-claim-validated" =>
         /\ DOMAIN result.verified = DOMAIN result.bound
         /\ \A i \in DOMAIN result.bound :
              result.bound[i].type = "text" => result.verified[i].state # "unverified"
    /\ EnforcementMode # "instruction-enforced" => result.bound # <<>> \/ result.boundary = "denied"
    /\ answer.surfaceA # {} => EnforcementMode = "structured-fail-closed"

\* A [Text] claim whose evidence failed is shown, if at all, as a citation that
\* supports nothing; it is never relabelled as an interpretation.
FailedTextMarked ==
  \A claim \in Range(result.bound) :
    claim.type = "text" =>
      [claim |-> claim.id, kind |-> "interpretation"] \notin answer.surfaceB

\* Finalizing again, with whatever snapshots are left by then, fails or returns
\* the same answer: never another one, and never one where it has failed.
AnswerStable ==
  [][answer.status # "none" => answer'.status = "error" \/ answer' = answer]_vars

\* What the reply came to once it is recorded, told from the result alone: the answer, if
\* there is one, and the snapshots that it quotes.
SurfaceA == {AuthorityUnit(result.verified[i]) : i \in Rendered({"text"})}
Renderable ==
  /\ result.verified # <<>>
  /\ \A i \in Rendered({"text"}) : Entitled(result.verified[i])
Verdict ==
  LET NoContent(gate) == [gate |-> gate, content |-> NoAnswer, quoted |-> {}]
  IN CASE stage = "aborted" -> NoContent("aborted")
       [] stage \in {"recorded", "built"} /\ result.boundary = "none" -> NoContent("none")
       [] stage \in {"recorded", "built"} /\ result.boundary # "none" ->
            IF result.boundary = "denied" THEN NoContent("denied")
            ELSE IF ~Renderable THEN NoContent("rejected")
            ELSE [gate |-> "renderable", content |-> Surfaces(SurfaceA),
                  quoted |-> {Catalog[unit.seed].artifact : unit \in {u \in SurfaceA : u.quotes}}]
       [] OTHER -> NoContent("pending")

\* Finalizing is as good as one step, although it reads the store twice and snapshots may
\* be lost between: it gives what was settled when the reply was recorded, and fails if and
\* only if nothing was, or a snapshot that the answer quotes is gone by the time it is given.
\* Of a denied reply it shows nothing but the empty answer or an error; which of them it
\* should be is DenialIsEmptyAnswer.
Promise == INSTANCE ReplyOutcome WITH
  outcome <- Verdict, shown <- answer, Snapshots <- Artifacts, Nothing <- NoAnswer,
  Failure <- FinalizationError, Empty <- EmptyAnswer, Contents <- {a \in Answers : a.status = "final"}
AnswersAtOnce == Promise!Spec

\* "Each structured stage degrades gracefully ... it never aborts the round":
\* whatever a panelist sends, the job returns and its result is recorded.
JobNeverAborts == stage # "aborted"

\* An interpretation-only seed "can never yield a Surface-A authority unit; an
\* admitted [Text] citing it is a bypass, so finalization fails atomically".
InterpretiveNeverCited ==
  \A unit \in answer.surfaceA, claim \in Range(result.verified) :
    claim.id = unit.claim =>
      \A edge \in claim.edges : ~Catalog[edge.seed].interpretive

\* "A response-level boundary denial is a valid empty Surface A": debate_finalize gives a
\* denied reply its empty answer, and does not report it as a failure of the finalizer.
DenialIsEmptyAnswer == result.boundary = "denied" => answer.status # "error"
===============================================================================
