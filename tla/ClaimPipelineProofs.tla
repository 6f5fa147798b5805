------------------------ MODULE ClaimPipelineProofs ------------------------
(* Proofs about ClaimPipeline, for any catalog and any blocks of any length:  *)
(* what a verification keeps of a bound reply, what the boundary decides of   *)
(* it, and that an answer is a function of the recorded result alone.         *)
EXTENDS ClaimPipeline, CountingProofs, TLAPS

\* A claim has an id of its own in its reply.
Apart(claims) == \A i, j \in DOMAIN claims : claims[i].id = claims[j].id => i = j

BoundFits ==
  /\ Apart(result.bound)
  /\ \A i \in DOMAIN result.bound : result.bound[i].state = "unverified"
  /\ result.schema \in {"ok", "repaired"} => result.bound # <<>>

\* What becomes of a claim: a [Text] claim has an outcome, the others are as they were.
Outcome(claim, verified) ==
  /\ verified.id = claim.id
  /\ verified.edges \subseteq claim.edges
  /\ claim.type # "text" => verified = claim
  /\ claim.type = "text" =>
       \/ /\ verified.type = "text" /\ verified.state = "runtime-validated" /\ verified.edges # {}
          /\ \A edge \in verified.edges : edge.quotes => Catalog[edge.seed].artifact \in claim.found
       \/ verified.type = "unverified-citation" /\ verified.state = "failed"

VerifiedFits ==
  result.verified # <<>> =>
    /\ DOMAIN result.verified = DOMAIN result.bound
    /\ \A i \in DOMAIN result.bound : Outcome(result.bound[i], result.verified[i])

\* Where a job stands, and what its result then holds.
ResultFits ==
  /\ stage \in {"asked", "repair"} => result = NoResult
  /\ stage = "bound" => result.verified = <<>>
  /\ stage \in {"bound", "verified"} => result.boundary = "none"
  /\ stage \in {"returned", "recorded", "built"} /\ mode = "failClosed" => result.boundary # "none"
  /\ result.boundary # "none" => mode = "failClosed"
  /\ result.boundary = "denied" => result.verified = <<>>
  /\ result.boundary = "admitted" => result.verified # <<>> /\ result.decisions = Decisions(result.verified)
  /\ result.boundary # "admitted" => result.decisions = <<>>

\* What finalizing yields of a result: no snapshot is read to tell.
FinalAnswer == Surfaces(SurfaceA)

DraftFits ==
  /\ stage = "built" => result.boundary = "admitted" /\ Renderable /\ draft = SurfaceA
  /\ stage # "built" => draft = {}

\* No answer can be built from the result and the snapshots that are left.
Hopeless ==
  \/ result.verified = <<>>
  \/ \E i \in Rendered({"text"}) : ~Buildable(result.verified[i])

\* Once finalizing fails it keeps failing: a lost snapshot does not come back.
AnswerFits ==
  /\ answer.status = "none" => answer = NoAnswer
  /\ answer.status # "none" => stage \in {"recorded", "built"} /\ result.boundary # "none"
  /\ answer.status = "error" =>
       answer = FinalizationError /\ stage = "recorded" /\ Hopeless
  /\ answer.status = "final" =>
       result.boundary = "admitted" /\ Renderable /\ answer = FinalAnswer

PInv == TypeOK /\ BoundFits /\ VerifiedFits /\ ResultFits /\ DraftFits /\ AnswerFits
-------------------------------------------------------------------------------
(* Facts about the operators.                                                *)

LEMMA LeadKept ==
  ASSUME NEW claim, claim.edges \subseteq Edges, claim.edges # {}
  PROVE  LeadEdge(claim) \in claim.edges
<1> DEFINE T == {edge.place : edge \in claim.edges}
<1>1. T \subseteq Nat /\ T # {}
  BY DEF Edges
<1> HIDE DEF T
<1>2. PICK m \in T : \A n \in T : m <= n
  BY <1>1, LeastNumber
<1>3. \E edge \in claim.edges : \A other \in claim.edges : edge.place <= other.place
  BY <1>2 DEF T
<1> QED BY <1>3 DEF LeadEdge

\* A block that passes the schema is bound to claims and seeds that exist.
LEMMA BindFits ==
  ASSUME NEW block \in Blocks, SchemaCheck(block) = "ok"
  PROVE  /\ Bind(block) \in Seq(Claims) /\ Bind(block) # <<>> /\ Apart(Bind(block))
         /\ \A i \in DOMAIN Bind(block) : Bind(block)[i].state = "unverified"
<1> DEFINE ClaimSet == [id : Nat, type : ClaimTypes \cup {"other"}, found : SUBSET Artifacts, declared : Kinds]
           EdgeSet == [claim : Nat, seed : Cited, quotes : BOOLEAN]
           n == Len(block.claims)
<1>1. WellFormed(block) /\ Resolves(block)
  BY DEF SchemaCheck
<1>2. block.claims \in Seq(ClaimSet) /\ block.edges \in Seq(EdgeSet)
  <2> HIDE DEF ClaimSet, EdgeSet
  <2> QED BY BlockAssumption DEF ClaimSet, EdgeSet
<1>3. n \in Nat /\ n # 0 /\ DOMAIN block.claims = 1 .. n
  <2> HIDE DEF ClaimSet, EdgeSet
  <2> QED BY <1>1, <1>2 DEF WellFormed
<1>4. \A i \in 1 .. n : /\ block.claims[i].id \in Nat /\ block.claims[i].type \in ClaimTypes
                       /\ block.claims[i].found \in SUBSET Artifacts /\ block.claims[i].declared \in Kinds
  <2>1. \A i \in 1 .. n : block.claims[i] \in ClaimSet
    <3> HIDE DEF ClaimSet, EdgeSet
    <3> QED BY <1>2, ElementOfSeq
  <2>2. \A i \in 1 .. n : block.claims[i].type \in ClaimTypes
    BY <1>1, <1>3 DEF WellFormed, Range
  <2> QED BY <2>1, <2>2
<1>5. \A j \in DOMAIN block.edges :
        j \in Nat /\ block.edges[j].seed \in Seeds /\ block.edges[j].quotes \in BOOLEAN
  <2>1. \A j \in DOMAIN block.edges : block.edges[j] \in EdgeSet /\ j \in Nat
    <3> HIDE DEF EdgeSet
    <3> QED BY <1>2
  <2>2. \A j \in DOMAIN block.edges : block.edges[j].seed \in Seeds
    BY <1>1 DEF Resolves, Range
  <2> QED BY <2>1, <2>2
<1>6. \A i \in 1 .. n : EdgesOf(block, block.claims[i].id) \in SUBSET Edges
  BY <1>4, <1>5 DEF EdgesOf, Edges
<1> HIDE DEF n
<1>7. \A i \in 1 .. n : Bind(block)[i] \in Claims
  BY <1>3, <1>4, <1>6 DEF Bind, Claims
<1>8. Bind(block) \in [1 .. n -> Claims]
  BY <1>3, <1>7 DEF Bind
<1>9. Bind(block) \in Seq(Claims) /\ Bind(block) # <<>>
  <2>1. Bind(block) \in Seq(Claims)
    BY <1>3, <1>8, SeqDef
  <2> QED BY <1>3, <1>8, <2>1
<1>10. Apart(Bind(block))
  BY <1>1, <1>3 DEF Apart, Bind, WellFormed
<1>11. \A i \in DOMAIN Bind(block) : Bind(block)[i].state = "unverified"
  BY DEF Bind
<1> QED BY <1>9, <1>10, <1>11

\* Verification has one outcome for each claim, and adds nothing to it.
LEMMA VerifiedOutcome ==
  ASSUME NEW claim \in Claims, claim.state = "unverified"
  PROVE  VerifiedClaim(claim) \in Claims /\ Outcome(claim, VerifiedClaim(claim))
<1>1. Kept(claim) \subseteq claim.edges /\ claim.edges \subseteq Edges
  BY DEF Kept, Claims
<1>2. \A edge \in Kept(claim) : edge.quotes => Catalog[edge.seed].artifact \in claim.found
  BY DEF Kept, EdgeValid
<1>3. CASE claim.type # "text"
  BY <1>3 DEF VerifiedClaim, Outcome
<1>4. CASE claim.type = "text" /\ Kept(claim) # {}
  <2> DEFINE v == [claim EXCEPT !.edges = Kept(claim), !.state = "runtime-validated"]
  <2>1. VerifiedClaim(claim) = v
    BY <1>4 DEF VerifiedClaim
  <2>2. /\ v \in Claims /\ v.id = claim.id /\ v.type = "text" /\ v.edges = Kept(claim)
        /\ v.state = "runtime-validated"
    BY <1>1, <1>4 DEF Claims
  <2> HIDE DEF v
  <2> QED BY <1>1, <1>2, <1>4, <2>1, <2>2 DEF Outcome
<1>5. CASE claim.type = "text" /\ Kept(claim) = {}
  <2> DEFINE v == [claim EXCEPT !.edges = {}, !.state = "failed", !.type = "unverified-citation"]
  <2>1. VerifiedClaim(claim) = v
    BY <1>5 DEF VerifiedClaim
  <2>2. /\ v \in Claims /\ v.id = claim.id /\ v.type = "unverified-citation" /\ v.edges = {}
        /\ v.state = "failed"
    BY <1>5 DEF Claims, ClaimTypes
  <2> HIDE DEF v
  <2> QED BY <1>5, <2>1, <2>2 DEF Outcome
<1> QED BY <1>3, <1>4, <1>5

\* What an authority unit is built from: a seed of the catalog that the claim cites.
LEMMA UnitFits ==
  ASSUME NEW claim \in Claims, claim.edges # {}
  PROVE  /\ LeadEdge(claim) \in claim.edges /\ LeadEdge(claim).seed \in Seeds
         /\ AuthorityUnit(claim) \in Units
<1>1. LeadEdge(claim) \in claim.edges /\ LeadEdge(claim) \in Edges
  BY LeadKept DEF Claims
<1>2. LeadEdge(claim).seed \in Seeds /\ LeadEdge(claim).quotes \in BOOLEAN
  BY <1>1 DEF Edges
<1>3. LeadSeed(claim).kind \in Kinds
  BY <1>2, CatalogAssumption DEF LeadSeed, SeedRecords
<1>4. Representation(claim, LeadSeed(claim)) \in Kinds
  BY <1>3 DEF Representation, Kinds
<1>5. claim.id \in Nat
  BY DEF Claims
<1> QED BY <1>1, <1>2, <1>4, <1>5 DEF AuthorityUnit, Units
-------------------------------------------------------------------------------
(* The invariant holds, action by action.                                    *)

LEMMA InitPInv == Init => PInv
<1> SUFFICES ASSUME Init PROVE PInv
  OBVIOUS
<1>1. result = NoResult /\ stage = "asked" /\ answer = NoAnswer /\ draft = {} /\ lost = {} /\ mode \in Modes
  BY DEF Init
<1>2. /\ NoResult.bound = <<>> /\ NoResult.verified = <<>> /\ NoResult.boundary = "none"
      /\ NoResult.decisions = <<>> /\ NoResult.schema = "none" /\ NoAnswer.status = "none"
  BY DEF NoResult, NoAnswer
<1>3. NoResult \in Results /\ NoAnswer \in Answers
  BY DEF NoResult, NoAnswer, Results, Answers, Flaws
<1> HIDE DEF NoResult, NoAnswer
<1>4. TypeOK
  BY <1>1, <1>3 DEF TypeOK
<1> QED BY <1>1, <1>2, <1>4 DEF PInv, BoundFits, Apart, VerifiedFits, ResultFits, DraftFits, AnswerFits

\* Until its result is recorded nothing is finalized.
LEMMA EarlyStep ==
  ASSUME PInv, stage \notin {"recorded", "built"}, result' \in Results,
         stage' \in {"asked", "repair", "bound", "verified", "returned", "recorded", "aborted"},
         UNCHANGED <<mode, lost, draft, answer>>, BoundFits', VerifiedFits', ResultFits'
  PROVE  PInv'
<1>1. TypeOK'
  BY DEF PInv, TypeOK
<1>2. draft = {} /\ answer.status = "none" /\ answer = NoAnswer
  BY DEF PInv, TypeOK, DraftFits, AnswerFits, Answers
<1>3. DraftFits' /\ AnswerFits'
  BY <1>2 DEF DraftFits, AnswerFits
<1> QED BY <1>1, <1>3 DEF PInv

\* A result with nothing verified yet.
LEMMA UnverifiedStep ==
  ASSUME PInv, stage \in {"asked", "repair"}, NEW block \in Blocks,
         \/ SchemaCheck(block) = "ok" /\ Attach(block, "ok")
         \/ SchemaCheck(block) = "ok" /\ Attach(block, "repaired")
         \/ DropClaims \/ Abort
         \/ stage' = "repair" /\ UNCHANGED result,
         UNCHANGED <<mode, lost, draft, answer>>
  PROVE  PInv'
<1>1. /\ result = NoResult /\ result \in Results /\ result.bound = <<>> /\ result.verified = <<>>
      /\ result.boundary = "none" /\ result.decisions = <<>> /\ result.schema = "none"
  BY DEF PInv, TypeOK, ResultFits, NoResult
<1>2. CASE SchemaCheck(block) = "ok" /\ (Attach(block, "ok") \/ Attach(block, "repaired"))
  <2>1. PICK status \in {"ok", "repaired"} : Attach(block, status)
    BY <1>2
  <2>2. /\ Bind(block) \in Seq(Claims) /\ Bind(block) # <<>> /\ Apart(Bind(block))
        /\ \A i \in DOMAIN Bind(block) : Bind(block)[i].state = "unverified"
    BY <1>2, BindFits
  <2>3. block.flaw \in Flaws
    BY BlockAssumption
  <2> DEFINE r == [result EXCEPT !.schema = status, !.flaw = block.flaw, !.bound = Bind(block)]
             b == Bind(block)
  <2>4. result' = r /\ stage' = "bound"
    BY <2>1 DEF Attach
  <2> HIDE DEF b
  <2>5. /\ r \in Results /\ r.schema = status /\ r.bound = b /\ r.verified = <<>>
        /\ r.boundary = "none" /\ r.decisions = <<>>
    <3>1. b \in Seq(Claims)
      BY <2>2 DEF b
    <3> QED BY <1>1, <2>1, <2>3, <3>1 DEF Results, b
  <2> HIDE DEF r
  <2>6. BoundFits'
    BY <2>2, <2>4, <2>5 DEF BoundFits, Apart, b
  <2>7. VerifiedFits' /\ ResultFits'
    BY <2>4, <2>5 DEF VerifiedFits, ResultFits
  <2> QED BY <2>4, <2>5, <2>6, <2>7, EarlyStep
<1>3. CASE DropClaims
  <2> DEFINE r == [result EXCEPT !.schema = "schema_failed"]
  <2>1. result' = r /\ stage' = "bound"
    BY <1>3 DEF DropClaims
  <2>2. /\ r \in Results /\ r.schema = "schema_failed" /\ r.bound = <<>> /\ r.verified = <<>>
        /\ r.boundary = "none" /\ r.decisions = <<>>
    BY <1>1 DEF Results
  <2> HIDE DEF r
  <2>3. BoundFits' /\ VerifiedFits' /\ ResultFits'
    BY <2>1, <2>2 DEF BoundFits, Apart, VerifiedFits, ResultFits
  <2> QED BY <2>1, <2>2, <2>3, EarlyStep
<1>4. CASE stage' \in {"repair", "aborted"} /\ UNCHANGED result
  <2>1. BoundFits' /\ VerifiedFits' /\ ResultFits'
    BY <1>1, <1>4 DEF BoundFits, Apart, VerifiedFits, ResultFits
  <2> QED BY <1>1, <1>4, <2>1, EarlyStep
<1> QED BY <1>2, <1>3, <1>4 DEF Abort

LEMMA ReplyPInv ==
  ASSUME PInv, NEW block \in Blocks, Reply(block) \/ Repair(block)
  PROVE  PInv'
<1>1. stage \in {"asked", "repair"} /\ UNCHANGED <<mode, lost, draft, answer>>
  BY DEF Reply, Repair
<1>2. \/ SchemaCheck(block) = "ok" /\ Attach(block, "ok")
      \/ SchemaCheck(block) = "ok" /\ Attach(block, "repaired")
      \/ DropClaims \/ Abort
      \/ stage' = "repair" /\ UNCHANGED result
  BY DEF Reply, Repair
<1> QED BY <1>1, <1>2, UnverifiedStep

LEMMA RepairFailsPInv == PInv /\ RepairCallFails => PInv'
<1> SUFFICES ASSUME PInv, RepairCallFails PROVE PInv'
  OBVIOUS
<1> DEFINE r == [result EXCEPT !.schema = "schema_failed"]
<1>1. /\ result = NoResult /\ result \in Results /\ result.bound = <<>> /\ result.verified = <<>>
      /\ result.boundary = "none" /\ result.decisions = <<>>
  BY DEF PInv, TypeOK, ResultFits, NoResult, RepairCallFails
<1>2. stage = "repair" /\ result' = r /\ stage' = "bound" /\ UNCHANGED <<mode, lost, draft, answer>>
  BY DEF RepairCallFails, DropClaims
<1>3. /\ r \in Results /\ r.schema = "schema_failed" /\ r.bound = <<>> /\ r.verified = <<>>
      /\ r.boundary = "none" /\ r.decisions = <<>>
  BY <1>1 DEF Results
<1> HIDE DEF r
<1>4. BoundFits' /\ VerifiedFits' /\ ResultFits'
  BY <1>2, <1>3 DEF BoundFits, Apart, VerifiedFits, ResultFits
<1> QED BY <1>2, <1>3, <1>4, EarlyStep

\* The sequence of the outcomes.
LEMMA VerifyPInv == PInv /\ Verify => PInv'
<1> SUFFICES ASSUME PInv, Verify PROVE PInv'
  OBVIOUS
<1> DEFINE b == result.bound
           v == [i \in DOMAIN b |-> VerifiedClaim(b[i])]
<1>1. stage = "bound" /\ stage' = "verified" /\ UNCHANGED <<mode, lost, draft, answer>>
  BY DEF Verify
<1>2. result \in Results /\ result.verified = <<>> /\ result.boundary = "none" /\ result.decisions = <<>>
  BY <1>1 DEF PInv, TypeOK, ResultFits
<1>3. BoundFits /\ b \in Seq(Claims)
  BY <1>2 DEF PInv, Results
<1>4. CASE result' = result
  <2>1. BoundFits' /\ VerifiedFits' /\ ResultFits'
    BY <1>1, <1>2, <1>3, <1>4 DEF BoundFits, Apart, VerifiedFits, ResultFits
  <2> QED BY <1>1, <1>2, <1>4, <2>1, EarlyStep
<1>5. CASE result' = [result EXCEPT !.verified = v]
  <2>1. \A i \in DOMAIN b : v[i] \in Claims /\ Outcome(b[i], v[i])
    <3> SUFFICES ASSUME NEW i \in DOMAIN b PROVE VerifiedClaim(b[i]) \in Claims /\ Outcome(b[i], VerifiedClaim(b[i]))
      OBVIOUS
    <3>1. b[i] \in Claims /\ b[i].state = "unverified"
      BY <1>3 DEF BoundFits
    <3> QED BY <3>1, VerifiedOutcome
  <2>2. DOMAIN v = DOMAIN b
    OBVIOUS
  <2>3. v \in Seq(Claims)
    <3>1. Len(b) \in Nat /\ DOMAIN b = 1 .. Len(b)
      BY <1>3, LenProperties
    <3>2. v \in [1 .. Len(b) -> Claims]
      BY <2>1, <3>1
    <3> HIDE DEF v, b
    <3> QED BY <3>1, <3>2, SeqDef
  <2> HIDE DEF v
  <2> DEFINE r == [result EXCEPT !.verified = v]
  <2>4. /\ r \in Results /\ r.bound = b /\ r.verified = v /\ r.boundary = "none"
        /\ r.decisions = <<>> /\ r.schema = result.schema
    <3> DEFINE s == result
    <3>1. s \in Results /\ s.boundary = "none" /\ s.decisions = <<>>
      BY <1>2
    <3>2. r = [s EXCEPT !.verified = v]
      OBVIOUS
    <3> HIDE DEF s, r
    <3>3. /\ r \in Results /\ r.bound = s.bound /\ r.verified = v /\ r.boundary = "none"
          /\ r.decisions = <<>> /\ r.schema = s.schema
      BY <2>3, <3>1, <3>2 DEF Results
    <3> QED BY <3>3 DEF s
  <2>5. result' = r
    BY <1>5
  <2> HIDE DEF r
  <2>6. BoundFits' /\ VerifiedFits'
    BY <1>3, <2>1, <2>2, <2>4, <2>5 DEF BoundFits, Apart, VerifiedFits, Outcome
  <2>7. ResultFits'
    BY <1>1, <2>4, <2>5 DEF ResultFits
  <2> QED BY <1>1, <2>4, <2>5, <2>6, <2>7, EarlyStep
<1> QED BY <1>4, <1>5 DEF Verify

LEMMA DecisionsType ==
  ASSUME NEW claims \in Seq(Claims)
  PROVE  Decisions(claims) \in Seq(Ways) /\ DOMAIN Decisions(claims) = DOMAIN claims
<1>1. Len(claims) \in Nat /\ DOMAIN claims = 1 .. Len(claims)
  BY LenProperties
<1>2. \A claim : GateClaim(claim) \in Ways
  BY DEF GateClaim, Ways
<1>3. Decisions(claims) \in [1 .. Len(claims) -> Ways]
  BY <1>1, <1>2 DEF Decisions
<1> QED BY <1>1, <1>3, SeqDef

LEMMA GatePInv == PInv /\ Gate => PInv'
<1> SUFFICES ASSUME PInv, Gate PROVE PInv'
  OBVIOUS
<1>1. stage = "verified" /\ stage' = "returned" /\ UNCHANGED <<mode, lost, draft, answer>>
  BY DEF Gate
<1>2. result \in Results /\ result.boundary = "none" /\ result.decisions = <<>> /\ BoundFits /\ VerifiedFits
  BY <1>1 DEF PInv, TypeOK, ResultFits
<1> DEFINE s == result
<1>3. s \in Results /\ s.verified \in Seq(Claims)
  BY <1>2 DEF Results
<1>4. ASSUME NEW r \in Results, result' = r, r.bound = s.bound, r.verified = s.verified, r.schema = s.schema,
             ResultFits'
      PROVE  PInv'
  <2>1. BoundFits' /\ VerifiedFits'
    BY <1>2, <1>4 DEF BoundFits, Apart, VerifiedFits, Outcome
  <2> QED BY <1>1, <1>4, <2>1, EarlyStep
<1>5. CASE mode # "failClosed"
  <2>1. result' = result
    BY <1>5 DEF Gate
  <2>2. ResultFits'
    BY <1>1, <1>2, <1>5, <2>1 DEF ResultFits
  <2> QED BY <1>2, <1>4, <2>1, <2>2
<1>6. CASE mode = "failClosed" /\ result.verified = <<>>
  <2> DEFINE r == [s EXCEPT !.boundary = "denied"]
  <2>1. result' = r
    BY <1>6 DEF Gate
  <2>2. s.verified = <<>> /\ s.decisions = <<>>
    BY <1>2, <1>6
  <2> HIDE DEF s
  <2>3. /\ r \in Results /\ r.bound = s.bound /\ r.verified = s.verified /\ r.schema = s.schema
        /\ r.boundary = "denied" /\ r.verified = <<>> /\ r.decisions = <<>>
    BY <1>3, <2>2 DEF Results
  <2> HIDE DEF r
  <2>4. ResultFits'
    BY <1>1, <1>6, <2>1, <2>3 DEF ResultFits
  <2> QED BY <1>4, <2>1, <2>3, <2>4
<1>7. CASE mode = "failClosed" /\ result.verified # <<>>
  <2> DEFINE d == Decisions(s.verified)
             r == [s EXCEPT !.boundary = "admitted", !.decisions = d]
  <2>1. result' = r
    BY <1>7 DEF Gate
  <2>2. s.verified # <<>> /\ d \in Seq(Ways)
    BY <1>3, <1>7, DecisionsType
  <2> HIDE DEF s, d
  <2>3. /\ r \in Results /\ r.bound = s.bound /\ r.verified = s.verified /\ r.schema = s.schema
        /\ r.boundary = "admitted" /\ r.decisions = d
    BY <1>3, <2>2 DEF Results
  <2> HIDE DEF r
  <2>4. result'.decisions = Decisions(result'.verified)
    BY <2>1, <2>3 DEF d
  <2>5. ResultFits'
    BY <1>1, <1>7, <2>1, <2>2, <2>3, <2>4 DEF ResultFits
  <2> QED BY <1>4, <2>1, <2>3, <2>5
<1> QED BY <1>5, <1>6, <1>7

LEMMA RecordPInv == PInv /\ Record => PInv'
<1> SUFFICES ASSUME PInv, Record PROVE PInv'
  OBVIOUS
<1>1. /\ stage = "returned" /\ stage' \in {"recorded", "aborted"}
      /\ UNCHANGED <<mode, result, lost, draft, answer>> /\ result \in Results
  BY DEF Record, PInv, TypeOK
<1>2. BoundFits' /\ VerifiedFits'
  BY <1>1 DEF PInv, BoundFits, Apart, VerifiedFits, Outcome
<1>3. ResultFits'
  BY <1>1 DEF PInv, ResultFits
<1> QED BY <1>1, <1>2, <1>3, EarlyStep
-------------------------------------------------------------------------------
(* Finalizing.                                                               *)

\* The verified claims an answer is made of.
LEMMA RenderedFits ==
  ASSUME PInv, result.boundary = "admitted"
  PROVE  /\ result.verified \in Seq(Claims) /\ result.verified # <<>>
         /\ DOMAIN result.verified = DOMAIN result.bound
         /\ \A i \in DOMAIN result.verified :
              /\ result.verified[i] \in Claims
              /\ result.decisions[i] = GateClaim(result.verified[i])
              /\ Outcome(result.bound[i], result.verified[i])
         /\ \A i \in Rendered({"text"}) :
              /\ i \in DOMAIN result.verified /\ result.verified[i].type = "text"
              /\ result.verified[i].state = "runtime-validated" /\ result.verified[i].edges # {}
<1>1. result \in Results
  BY DEF PInv, TypeOK
<1>2. /\ result.verified \in Seq(Claims) /\ result.verified # <<>>
      /\ result.decisions = Decisions(result.verified)
  BY <1>1 DEF Results, PInv, ResultFits
<1>3. /\ DOMAIN result.verified = DOMAIN result.bound
      /\ \A i \in DOMAIN result.bound : Outcome(result.bound[i], result.verified[i])
  BY <1>2 DEF PInv, VerifiedFits
<1>4. \A i \in DOMAIN result.verified :
        result.verified[i] \in Claims /\ result.decisions[i] = GateClaim(result.verified[i])
  <2>1. \A i \in DOMAIN result.verified : result.decisions[i] = GateClaim(result.verified[i])
    BY <1>2 DEF Decisions
  <2>2. \A i \in DOMAIN result.verified : result.verified[i] \in Claims
    BY <1>2, LenProperties
  <2> QED BY <2>1, <2>2
<1>5. ASSUME NEW i \in Rendered({"text"})
      PROVE  /\ i \in DOMAIN result.verified /\ result.verified[i].type = "text"
             /\ result.verified[i].state = "runtime-validated" /\ result.verified[i].edges # {}
  <2>1. i \in DOMAIN result.verified /\ GateClaim(result.verified[i]) = "text"
    BY <1>4, <1>5 DEF Rendered
  <2>2. result.verified[i].type = "text" /\ result.verified[i].state = "runtime-validated"
    BY <2>1 DEF GateClaim
  <2>3. result.verified[i].edges # {}
    <3>1. Outcome(result.bound[i], result.verified[i])
      BY <1>3, <2>1
    <3>2. result.bound[i].state = "unverified"
      BY <1>3, <2>1 DEF PInv, BoundFits
    <3> QED BY <2>2, <3>1, <3>2 DEF Outcome
  <2> QED BY <2>1, <2>2, <2>3
<1> QED BY <1>2, <1>3, <1>4, <1>5

LEMMA FinalAnswerType ==
  ASSUME PInv, result.boundary = "admitted"
  PROVE  SurfaceA \subseteq Units /\ FinalAnswer \in Answers /\ FinalAnswer.status = "final"
<1>1. \A i \in DOMAIN result.verified : result.verified[i] \in Claims
  BY RenderedFits
<1>2. SurfaceA \subseteq Units
  BY RenderedFits, UnitFits DEF SurfaceA
<1>3. \A i \in DOMAIN result.verified :
        result.verified[i].id \in Nat /\ result.verified[i].type \in ClaimTypes
  BY <1>1 DEF Claims
<1>4. {OnSurfaceB(result.verified[i]) : i \in Rendered({"non-supporting", "interpretation"})}
        \subseteq [claim : Nat, kind : ClaimTypes]
  BY <1>3 DEF OnSurfaceB, Rendered
<1>5. {result.verified[i].id : i \in Rendered({"deny"})} \subseteq Nat
  BY <1>3 DEF Rendered
<1> HIDE DEF SurfaceA
<1> QED BY <1>2, <1>4, <1>5 DEF FinalAnswer, Surfaces, Answers

\* What is told of a result alone stays as it is while the result does.
LEMMA SameResult ==
  ASSUME result' = result
  PROVE  /\ SurfaceA' = SurfaceA /\ FinalAnswer' = FinalAnswer /\ Renderable' = Renderable
         /\ \A ways : Rendered(ways)' = Rendered(ways)
         /\ BoundFits /\ VerifiedFits => BoundFits' /\ VerifiedFits'
<1>1. \A ways : Rendered(ways)' = Rendered(ways)
  BY DEF Rendered
<1>2. SurfaceA' = SurfaceA
  BY DEF SurfaceA, Rendered
<1>3. Renderable' = Renderable
  BY DEF Renderable, Entitled, Rendered
<1>4. FinalAnswer' = FinalAnswer
  BY <1>2 DEF FinalAnswer, Surfaces, Rendered
<1>5. BoundFits /\ VerifiedFits => BoundFits' /\ VerifiedFits'
  BY DEF BoundFits, Apart, VerifiedFits, Outcome
<1> QED BY <1>1, <1>2, <1>3, <1>4, <1>5

\* A claim that no unit can be built from stays one when snapshots are lost.
LEMMA StaysHopeless ==
  ASSUME result' = result, lost \subseteq lost', Hopeless
  PROVE  Hopeless'
<1>1. CASE result.verified = <<>>
  BY <1>1 DEF Hopeless
<1>2. CASE \E i \in Rendered({"text"}) : ~Buildable(result.verified[i])
  <2>1. PICK i \in Rendered({"text"}) : ~Buildable(result.verified[i])
    BY <1>2
  <2>2. i \in Rendered({"text"})'
    BY <2>1 DEF Rendered
  <2>3. ~Buildable(result.verified[i])'
    BY <2>1 DEF Buildable, Entitled
  <2> QED BY <2>2, <2>3 DEF Hopeless
<1> QED BY <1>1, <1>2 DEF Hopeless

LEMMA BuildPInv == PInv /\ Build => PInv'
<1> SUFFICES ASSUME PInv, Build PROVE PInv'
  OBVIOUS
<1> DEFINE Ready == /\ result.verified # <<>>
                    /\ \A i \in Rendered({"text"}) : Buildable(result.verified[i])
<1>1. /\ stage = "recorded" /\ mode = "failClosed" /\ result.boundary # "none"
      /\ UNCHANGED <<mode, result, lost>>
  BY DEF Build
<1>2. TypeOK /\ BoundFits /\ VerifiedFits /\ ResultFits /\ DraftFits /\ AnswerFits
  BY DEF PInv
<1>3. BoundFits' /\ VerifiedFits'
  BY <1>1, <1>2, SameResult
<1>4. CASE Ready
  <2>1. draft' = SurfaceA /\ stage' = "built" /\ UNCHANGED answer
    BY <1>4 DEF Build, SurfaceA
  <2>2. result.boundary = "admitted"
    BY <1>1, <1>2, <1>4 DEF ResultFits, TypeOK, Results
  <2>3. Renderable
    BY <1>4 DEF Renderable, Buildable, Entitled
  <2>4. TypeOK'
    BY <1>1, <1>2, <2>1, <2>2, FinalAnswerType DEF TypeOK
  <2>5. ResultFits'
    BY <1>1, <1>2, <2>1 DEF ResultFits
  <2>6. DraftFits'
    BY <1>1, <2>1, <2>2, <2>3, SameResult DEF DraftFits
  <2>7. AnswerFits'
    <3>1. answer.status # "error"
      BY <1>2, <1>4 DEF AnswerFits, Hopeless
    <3> QED BY <1>1, <1>2, <2>1, <3>1, SameResult DEF AnswerFits
  <2> QED BY <1>3, <2>4, <2>5, <2>6, <2>7 DEF PInv
<1>5. CASE ~Ready
  <2>1. answer' = FinalizationError /\ UNCHANGED <<stage, draft>>
    BY <1>5 DEF Build
  <2>2. FinalizationError \in Answers /\ FinalizationError.status = "error"
    BY DEF FinalizationError, NoAnswer, Answers
  <2> HIDE DEF FinalizationError
  <2>3. TypeOK'
    BY <1>1, <1>2, <2>1, <2>2 DEF TypeOK
  <2>4. ResultFits' /\ DraftFits'
    BY <1>1, <1>2, <2>1, SameResult DEF ResultFits, DraftFits
  <2>5. AnswerFits'
    <3>1. Hopeless'
      BY <1>1, <1>5, StaysHopeless DEF Hopeless
    <3> QED BY <1>1, <2>1, <2>2, <3>1 DEF AnswerFits
  <2> QED BY <1>3, <2>3, <2>4, <2>5 DEF PInv
<1> QED BY <1>4, <1>5

\* A unit that cannot be traced is of a claim that no unit can be built from any more.
LEMMA UntracedUnbuildable ==
  ASSUME NEW unit \in SurfaceA, ~Traceable(unit)
  PROVE  \E i \in Rendered({"text"}) : ~Buildable(result.verified[i])
<1>1. PICK i \in Rendered({"text"}) : unit = AuthorityUnit(result.verified[i])
  BY DEF SurfaceA
<1>2. unit.claim = result.verified[i].id
  BY <1>1 DEF AuthorityUnit
<1> QED BY <1>1, <1>2 DEF Traceable

LEMMA TracePInv == PInv /\ Trace => PInv'
<1> SUFFICES ASSUME PInv, Trace PROVE PInv'
  OBVIOUS
<1>1. stage = "built" /\ stage' = "recorded" /\ draft' = {} /\ UNCHANGED <<mode, result, lost>>
  BY DEF Trace
<1>2. TypeOK /\ BoundFits /\ VerifiedFits /\ ResultFits /\ DraftFits /\ AnswerFits
  BY DEF PInv
<1>3. BoundFits' /\ VerifiedFits'
  BY <1>1, <1>2, SameResult
<1>4. result.boundary = "admitted" /\ Renderable /\ draft = SurfaceA
  BY <1>1, <1>2 DEF DraftFits
<1>5. ResultFits' /\ DraftFits'
  BY <1>1, <1>2 DEF ResultFits, DraftFits
<1>6. CASE \E unit \in draft : ~Traceable(unit)
  <2>1. answer' = FinalizationError
    BY <1>6 DEF Trace
  <2>2. FinalizationError \in Answers /\ FinalizationError.status = "error"
    BY DEF FinalizationError, NoAnswer, Answers
  <2> HIDE DEF FinalizationError
  <2>3. TypeOK'
    BY <1>1, <1>2, <2>1, <2>2 DEF TypeOK
  <2>4. \E i \in Rendered({"text"}) : ~Buildable(result.verified[i])
    BY <1>4, <1>6, UntracedUnbuildable
  <2>5. AnswerFits'
    <3>1. Hopeless'
      BY <1>1, <2>4, StaysHopeless DEF Hopeless
    <3> QED BY <1>1, <1>4, <2>1, <2>2, <3>1 DEF AnswerFits
  <2> QED BY <1>3, <1>5, <2>3, <2>5 DEF PInv
<1>7. CASE ~\E unit \in draft : ~Traceable(unit)
  <2>1. answer' = FinalAnswer
    BY <1>4, <1>7 DEF Trace, FinalAnswer
  <2>2. FinalAnswer \in Answers /\ FinalAnswer.status = "final"
    BY <1>4, FinalAnswerType
  <2>3. TypeOK'
    BY <1>1, <1>2, <2>1, <2>2 DEF TypeOK
  <2>4. AnswerFits'
    BY <1>1, <1>4, <2>1, <2>2, SameResult DEF AnswerFits
  <2> QED BY <1>3, <1>5, <2>3, <2>4 DEF PInv
<1> QED BY <1>6, <1>7

LEMMA LosePInv ==
  ASSUME PInv, UNCHANGED <<mode, stage, result, draft, answer>>,
         lost \subseteq lost', lost' \subseteq Artifacts
  PROVE  PInv'
<1>1. TypeOK' /\ ResultFits' /\ DraftFits' /\ BoundFits' /\ VerifiedFits'
  BY SameResult DEF PInv, TypeOK, ResultFits, DraftFits
<1>2. AnswerFits'
  BY SameResult, StaysHopeless DEF PInv, AnswerFits
<1> QED BY <1>1, <1>2 DEF PInv

LEMMA StepPInv == PInv /\ [Next]_vars => PInv'
<1> SUFFICES ASSUME PInv, [Next]_vars PROVE PInv'
  OBVIOUS
<1>1. CASE UNCHANGED vars \/ \E a \in Artifacts : LoseSnapshot(a)
  <2>1. UNCHANGED <<mode, stage, result, draft, answer>> /\ lost \subseteq lost' /\ lost' \subseteq Artifacts
    BY <1>1 DEF vars, LoseSnapshot, PInv, TypeOK
  <2> QED BY <2>1, LosePInv
<1>2. CASE Next /\ ~\E a \in Artifacts : LoseSnapshot(a)
  BY <1>2, ReplyPInv, RepairFailsPInv, VerifyPInv, GatePInv, RecordPInv, BuildPInv, TracePInv DEF Next
<1> QED BY <1>1, <1>2

LEMMA PInductive == Spec => []PInv
BY InitPInv, StepPInv, PTL DEF Spec
-------------------------------------------------------------------------------
(* What the invariant says of the properties.                                *)

\* The claims a reply was bound to, and what the boundary has made of each.
LEMMA Placed ==
  ASSUME PInv, answer.status = "final"
  PROVE  /\ result.boundary = "admitted" /\ Renderable
         /\ answer.surfaceA = SurfaceA
         /\ answer.surfaceB = {OnSurfaceB(result.verified[i]) : i \in Rendered({"non-supporting", "interpretation"})}
         /\ answer.rejected = {result.verified[i].id : i \in Rendered({"deny"})}
         /\ DOMAIN result.verified = DOMAIN result.bound
         /\ \A i \in DOMAIN result.bound : Outcome(result.bound[i], result.verified[i])
         /\ Apart(result.bound)
<1>1. result.boundary = "admitted" /\ Renderable /\ answer = FinalAnswer /\ Apart(result.bound)
  BY DEF PInv, AnswerFits, BoundFits
<1>2. /\ DOMAIN result.verified = DOMAIN result.bound
      /\ \A i \in DOMAIN result.verified : Outcome(result.bound[i], result.verified[i])
  BY <1>1, RenderedFits
<1> QED BY <1>1, <1>2 DEF FinalAnswer, Surfaces

\* An answer that has something on a surface is final.
LEMMA OnlyFinal ==
  ASSUME PInv, answer.status # "final"
  PROVE  answer.surfaceA = {} /\ answer.surfaceB = {}
  BY DEF PInv, TypeOK, Answers, AnswerFits, FinalizationError, NoAnswer

LEMMA EarnedByInv == PInv => AuthorityEarned
<1> SUFFICES ASSUME PInv, NEW unit \in answer.surfaceA
             PROVE  /\ ~Catalog[unit.seed].interpretive /\ RightsOk(Catalog[unit.seed])
                    /\ \E claim \in Range(result.bound) :
                         /\ claim.id = unit.claim /\ claim.type = "text"
                         /\ \E edge \in claim.edges : edge.seed = unit.seed /\ edge.quotes = unit.quotes
                         /\ unit.quotes => Catalog[unit.seed].artifact \in claim.found
  BY DEF AuthorityEarned
<1>1. answer.status = "final"
  BY OnlyFinal
<1>2. PICK i \in Rendered({"text"}) : unit = AuthorityUnit(result.verified[i])
  BY <1>1, Placed DEF SurfaceA
<1> DEFINE v == result.verified[i]
           c == result.bound[i]
<1>3. /\ i \in DOMAIN result.verified /\ v \in Claims /\ v.type = "text" /\ v.edges # {}
      /\ i \in DOMAIN result.bound /\ Outcome(c, v)
  BY <1>1, <1>2, Placed, RenderedFits
<1>4. ~LeadSeed(v).interpretive /\ RightsOk(LeadSeed(v))
  BY <1>1, <1>2, Placed DEF Renderable, Entitled
<1>5. LeadEdge(v) \in v.edges
  BY <1>3, UnitFits
<1>6. unit.claim = v.id /\ unit.seed = LeadEdge(v).seed /\ unit.quotes = LeadEdge(v).quotes
  BY <1>2 DEF AuthorityUnit
<1>7. ~Catalog[unit.seed].interpretive /\ RightsOk(Catalog[unit.seed])
  BY <1>4, <1>6 DEF LeadSeed
<1> HIDE DEF v, c
<1>8. c.type = "text" /\ c.id = v.id /\ LeadEdge(v) \in c.edges
  BY <1>3, <1>5 DEF Outcome
<1>9. LeadEdge(v).quotes => Catalog[LeadEdge(v).seed].artifact \in c.found
  BY <1>3, <1>5, <1>8 DEF Outcome
<1>10. c \in Range(result.bound)
  BY <1>3 DEF Range, c
<1> QED BY <1>6, <1>7, <1>8, <1>9, <1>10

LEMMA PlacedByInv == PInv => EveryClaimPlaced
<1> SUFFICES ASSUME PInv, answer.status = "final" PROVE EveryClaimPlaced
  BY DEF EveryClaimPlaced
<1> DEFINE id(i) == result.verified[i].id
           Ids(ways) == {id(i) : i \in Rendered(ways)}
           onA == {unit.claim : unit \in answer.surfaceA}
           onB == {unit.claim : unit \in answer.surfaceB}
<1>1. \A i \in DOMAIN result.verified :
        /\ result.decisions[i] \in Ways
        /\ id(i) = result.bound[i].id
        /\ \A j \in DOMAIN result.verified : id(i) = id(j) => i = j
  <2>1. \A i \in DOMAIN result.verified : result.decisions[i] = GateClaim(result.verified[i])
    BY Placed, RenderedFits
  <2>2. \A claim : GateClaim(claim) \in Ways
    BY DEF GateClaim, Ways
  <2> QED BY <2>1, <2>2, Placed DEF Outcome, Apart
<1>2. onA = Ids({"text"})
  <2>1. \A i : AuthorityUnit(result.verified[i]).claim = id(i)
    BY DEF AuthorityUnit
  <2>2. answer.surfaceA = {AuthorityUnit(result.verified[i]) : i \in Rendered({"text"})}
    BY Placed DEF SurfaceA
  <2> HIDE DEF id
  <2>3. onA \subseteq Ids({"text"})
    BY <2>1, <2>2
  <2>4. Ids({"text"}) \subseteq onA
    BY <2>1, <2>2
  <2> QED BY <2>3, <2>4
<1>3. onB = Ids({"non-supporting", "interpretation"})
  <2>1. \A i : OnSurfaceB(result.verified[i]).claim = id(i)
    BY DEF OnSurfaceB
  <2>2. answer.surfaceB = {OnSurfaceB(result.verified[i]) : i \in Rendered({"non-supporting", "interpretation"})}
    BY Placed
  <2> HIDE DEF id
  <2>3. onB \subseteq Ids({"non-supporting", "interpretation"})
    BY <2>1, <2>2
  <2>4. Ids({"non-supporting", "interpretation"}) \subseteq onB
    BY <2>1, <2>2
  <2> QED BY <2>3, <2>4
<1>4. answer.rejected = Ids({"deny"})
  BY Placed
<1>5. {claim.id : claim \in Range(result.bound)} = {id(i) : i \in DOMAIN result.verified}
  BY <1>1, Placed DEF Range
<1> HIDE DEF onA, onB, id
<1>6. Ids({"text"}) \cup Ids({"non-supporting", "interpretation"}) \cup Ids({"deny"})
        = {id(i) : i \in DOMAIN result.verified}
  BY <1>1 DEF Rendered, Ways
<1>7. /\ Ids({"text"}) \cap Ids({"non-supporting", "interpretation"}) = {}
      /\ (Ids({"text"}) \cup Ids({"non-supporting", "interpretation"})) \cap Ids({"deny"}) = {}
  BY <1>1 DEF Rendered
<1> QED BY <1>2, <1>3, <1>4, <1>5, <1>6, <1>7 DEF EveryClaimPlaced, onA, onB

LEMMA MarkedByInv == PInv => FailedTextMarked
<1> SUFFICES ASSUME PInv, NEW claim \in Range(result.bound), claim.type = "text"
             PROVE  [claim |-> claim.id, kind |-> "interpretation"] \notin answer.surfaceB
  BY DEF FailedTextMarked
<1>1. CASE answer.status # "final"
  BY <1>1, OnlyFinal
<1>2. CASE answer.status = "final"
  <2>1. PICK i \in DOMAIN result.bound : claim = result.bound[i]
    BY DEF Range
  <2>2. ASSUME NEW j \in Rendered({"non-supporting", "interpretation"}),
               [claim |-> claim.id, kind |-> "interpretation"] = OnSurfaceB(result.verified[j])
        PROVE  FALSE
    <3>1. /\ j \in DOMAIN result.bound /\ result.verified[j].id = claim.id
          /\ result.verified[j].type = "interpretation"
      BY <1>2, <2>2, Placed DEF Rendered, OnSurfaceB
    <3>2. j = i
      BY <1>2, <2>1, <3>1, Placed DEF Outcome, Apart
    <3> QED BY <1>2, <2>1, <3>1, <3>2, Placed DEF Outcome
  <2> QED BY <1>2, <2>2, Placed
<1> QED BY <1>1, <1>2

LEMMA ModeByInv == PInv => ModeEarned
<1> SUFFICES ASSUME PInv, stage = "recorded" PROVE ModeEarned
  BY DEF ModeEarned
<1>1. result \in Results /\ result.boundary \in {"none", "denied", "admitted"}
  BY DEF PInv, TypeOK, Results
<1>2. EnforcementMode = "structured-fail-closed" => result.boundary # "none"
  BY DEF EnforcementMode
<1>3. result.verified # <<>> =>
        /\ DOMAIN result.verified = DOMAIN result.bound
        /\ \A i \in DOMAIN result.bound : result.bound[i].type = "text" => result.verified[i].state # "unverified"
  BY DEF PInv, VerifiedFits, Outcome
<1>4. EnforcementMode = "structured-claim-validated" => result.verified # <<>>
  BY DEF EnforcementMode
<1>5. EnforcementMode # "instruction-enforced" => result.bound # <<>> \/ result.boundary = "denied"
  <2>1. CASE result.boundary = "admitted"
    <3>1. result.verified # <<>> /\ result.verified \in Seq(Claims) /\ result.bound \in Seq(Claims)
          /\ DOMAIN result.verified = DOMAIN result.bound
      BY <1>1, <1>3, <2>1 DEF PInv, ResultFits, Results
    <3> QED BY <3>1
  <2>2. CASE result.boundary = "none"
    BY <2>2 DEF EnforcementMode, PInv, BoundFits
  <2> QED BY <1>1, <2>1, <2>2
<1>6. answer.surfaceA # {} => EnforcementMode = "structured-fail-closed"
  <2> SUFFICES ASSUME answer.surfaceA # {} PROVE EnforcementMode = "structured-fail-closed"
    OBVIOUS
  <2>1. result.boundary # "none"
    BY OnlyFinal, Placed
  <2> QED BY <2>1 DEF EnforcementMode, PInv, ResultFits
<1> QED BY <1>2, <1>3, <1>4, <1>5, <1>6 DEF ModeEarned

\* An answer is made of a recorded result; another attempt has no other to offer.
LEMMA StableByInv ==
  ASSUME PInv, PInv', [Next]_vars, answer.status # "none"
  PROVE  answer'.status = "error" \/ answer' = answer
<1>1. CASE answer.status = "error" /\ answer' # answer
  <2>1. stage = "recorded" /\ Hopeless
    BY <1>1 DEF PInv, AnswerFits
  <2>2. Build
    BY <1>1, <2>1 DEF Next, vars, Reply, Repair, RepairCallFails, Verify, Gate, Record, Trace, LoseSnapshot
  <2> QED BY <2>1, <2>2 DEF Build, Hopeless, FinalizationError, NoAnswer
<1>2. CASE answer.status = "final"
  <2>1. stage \in {"recorded", "built"} /\ result' = result
    BY <1>2 DEF PInv, AnswerFits, Next, vars, Reply, Repair, RepairCallFails, Verify, Gate, Record, Build,
      Trace, LoseSnapshot
  <2>2. answer = FinalAnswer /\ FinalAnswer' = FinalAnswer
    BY <1>2, <2>1, SameResult DEF PInv, AnswerFits
  <2>3. answer'.status # "none"
    <3>1. CASE answer' = answer
      BY <1>2, <3>1
    <3>2. CASE answer' # answer
      <4>1. Build \/ Trace
        BY <2>1, <3>2 DEF Next, vars, Reply, Repair, RepairCallFails, Verify, Gate, Record, LoseSnapshot
      <4> QED BY <3>2, <4>1 DEF Build, Trace, Surfaces, FinalizationError, NoAnswer
    <3> QED BY <3>1, <3>2
  <2>4. answer'.status = "final" => answer' = FinalAnswer'
    BY DEF PInv, AnswerFits
  <2>5. answer'.status \in {"none", "error", "final"}
    BY DEF PInv, TypeOK, Answers
  <2> QED BY <2>2, <2>3, <2>4, <2>5
<1>3. answer.status \in {"none", "error", "final"}
  BY DEF PInv, TypeOK, Answers
<1> QED BY <1>1, <1>2, <1>3
-------------------------------------------------------------------------------
(* The counts.                                                               *)

\* Things that can be told apart are as many as what they are told apart by.
LEMMA SameCount ==
  ASSUME NEW S, IsFiniteSet(S), NEW f, DOMAIN f = S, \A x, y \in S : f[x] = f[y] => x = y
  PROVE  IsFiniteSet({f[x] : x \in S}) /\ Cardinality({f[x] : x \in S}) = Cardinality(S)
<1> DEFINE T == {f[x] : x \in S}
           g == [x \in S |-> f[x]]
<1>1. g \in Bijection(S, T)
  <2>1. g \in Surjection(S, T)
    BY DEF Surjection
  <2>2. g \in Injection(S, T)
    BY <2>1 DEF Injection, IsInjective, Surjection
  <2> QED BY <2>1, <2>2 DEF Bijection
<1> HIDE DEF g, T
<1>2. ExistsBijection(S, T)
  BY <1>1 DEF ExistsBijection
<1>3. IsFiniteSet(T) /\ Cardinality(T) = Cardinality(S)
  BY <1>2, FS_Bijection
<1> QED BY <1>3 DEF T

\* A finite set is counted in two parts.
LEMMA TwoParts ==
  ASSUME NEW S, IsFiniteSet(S), NEW A, NEW B, A \cup B = S, A \cap B = {}
  PROVE  /\ Cardinality(A) \in Nat /\ Cardinality(B) \in Nat
         /\ Cardinality(A) + Cardinality(B) = Cardinality(S)
<1>1. IsFiniteSet(A) /\ IsFiniteSet(B)
  BY FS_Subset
<1>2. /\ Cardinality(A) \in Nat /\ Cardinality(B) \in Nat
      /\ Cardinality(A \cup B) = Cardinality(A) + Cardinality(B) - Cardinality(A \cap B)
  BY <1>1, FS_Union, FS_CardinalityType
<1>3. Cardinality(A \cap B) = 0
  BY FS_EmptySet
<1>4. Cardinality(S) = Cardinality(A) + Cardinality(B) - 0
  BY <1>2, <1>3
<1> QED BY <1>2, <1>4

\* Each surface and the audit list have one entry for each claim that is put there.
LEMMA OneEntryEach ==
  ASSUME PInv, answer.status = "final"
  PROVE  /\ \A ways : IsFiniteSet(Rendered(ways))
         /\ IsFiniteSet(answer.surfaceA)
         /\ Cardinality(answer.surfaceA) = Cardinality(Rendered({"text"}))
         /\ Cardinality(answer.surfaceB) = Cardinality(Rendered({"non-supporting", "interpretation"}))
         /\ Cardinality(answer.rejected) = Cardinality(Rendered({"deny"}))
         /\ IsFiniteSet(DOMAIN result.verified)
         /\ Cardinality(DOMAIN result.verified) = Len(result.verified)
<1> DEFINE D == DOMAIN result.verified
           id(i) == result.verified[i].id
<1>1. IsFiniteSet(D) /\ Cardinality(D) = Len(result.verified)
  <2> DEFINE n == Len(result.verified)
  <2>1. n \in Nat /\ D = 1 .. n
    BY Placed, RenderedFits, LenProperties
  <2> HIDE DEF n, D
  <2>2. IsFiniteSet(1 .. n) /\ Cardinality(1 .. n) = n
    BY <2>1, FS_Interval
  <2> QED BY <2>1, <2>2 DEF n
<1>2. \A ways : IsFiniteSet(Rendered(ways)) /\ Rendered(ways) \subseteq D
  <2>1. \A ways : Rendered(ways) \subseteq D
    BY DEF Rendered
  <2> HIDE DEF D
  <2> QED BY <1>1, <2>1, FS_Subset
<1>3. \A i, j \in D : id(i) = id(j) => i = j
  BY Placed DEF Outcome, Apart
<1>4. IsFiniteSet(answer.surfaceA) /\ Cardinality(answer.surfaceA) = Cardinality(Rendered({"text"}))
  <2> DEFINE S == Rendered({"text"})
             f == [i \in S |-> AuthorityUnit(result.verified[i])]
  <2>1. \A i, j \in S : f[i] = f[j] => i = j
    <3>1. \A i \in S : f[i].claim = id(i) /\ i \in D
      BY <1>2 DEF AuthorityUnit
    <3> HIDE DEF f, id, D
    <3> QED BY <1>3, <3>1
  <2>2. answer.surfaceA = {f[i] : i \in S}
    BY Placed DEF SurfaceA
  <2>3. IsFiniteSet(S) /\ DOMAIN f = S
    BY <1>2
  <2> HIDE DEF f, S
  <2>4. IsFiniteSet({f[i] : i \in S}) /\ Cardinality({f[i] : i \in S}) = Cardinality(S)
    BY <2>1, <2>3, SameCount
  <2> QED BY <2>2, <2>4 DEF S
<1>5. Cardinality(answer.surfaceB) = Cardinality(Rendered({"non-supporting", "interpretation"}))
  <2> DEFINE S == Rendered({"non-supporting", "interpretation"})
             f == [i \in S |-> OnSurfaceB(result.verified[i])]
  <2>1. \A i, j \in S : f[i] = f[j] => i = j
    <3>1. \A i \in S : f[i].claim = id(i) /\ i \in D
      BY <1>2 DEF OnSurfaceB
    <3> HIDE DEF f, id, D
    <3> QED BY <1>3, <3>1
  <2>2. answer.surfaceB = {f[i] : i \in S}
    BY Placed
  <2>3. IsFiniteSet(S) /\ DOMAIN f = S
    BY <1>2
  <2> HIDE DEF f, S
  <2>4. Cardinality({f[i] : i \in S}) = Cardinality(S)
    BY <2>1, <2>3, SameCount
  <2> QED BY <2>2, <2>4 DEF S
<1>6. Cardinality(answer.rejected) = Cardinality(Rendered({"deny"}))
  <2> DEFINE S == Rendered({"deny"})
             f == [i \in S |-> id(i)]
  <2>1. \A i, j \in S : f[i] = f[j] => i = j
    <3>1. \A i \in S : f[i] = id(i) /\ i \in D
      BY <1>2
    <3> HIDE DEF f, id, D
    <3> QED BY <1>3, <3>1
  <2>2. answer.rejected = {f[i] : i \in S}
    BY Placed
  <2>3. IsFiniteSet(S) /\ DOMAIN f = S
    BY <1>2
  <2> HIDE DEF f, S
  <2>4. Cardinality({f[i] : i \in S}) = Cardinality(S)
    BY <2>1, <2>3, SameCount
  <2> QED BY <2>2, <2>4 DEF S
<1> QED BY <1>1, <1>2, <1>4, <1>5, <1>6

\* The counts of the reports are those of the ways in which claims are rendered.
LEMMA CountedAlike ==
  ASSUME PInv, answer.status = "final"
  PROVE  /\ Rendered({"text"}) = {i \in DOMAIN result.verified : result.verified[i].state = "runtime-validated"}
         /\ {i \in DOMAIN result.verified : result.verified[i].state = "failed"}
              = {i \in DOMAIN result.verified : result.bound[i].type = "text" /\ result.verified[i].type # "text"}
         /\ {i \in DOMAIN result.verified : result.verified[i].state = "failed"}
              \subseteq Rendered({"non-supporting", "interpretation"})
         /\ {i \in DOMAIN result.decisions : result.decisions[i] = "deny"} = Rendered({"deny"})
         /\ {i \in DOMAIN result.decisions : result.decisions[i] # "deny"}
              = Rendered({"text"}) \cup Rendered({"non-supporting", "interpretation"})
<1> DEFINE D == DOMAIN result.verified
<1>1. result.boundary = "admitted"
  BY Placed
<1>2. \A i \in D : /\ Outcome(result.bound[i], result.verified[i])
                  /\ result.bound[i].state = "unverified"
                  /\ result.decisions[i] = GateClaim(result.verified[i])
  BY <1>1, RenderedFits DEF PInv, BoundFits
<1>3. DOMAIN result.decisions = D
  <2>1. result.verified \in Seq(Claims)
    BY <1>1, RenderedFits
  <2> QED BY <1>1, <2>1, DecisionsType DEF PInv, ResultFits
<1>4. \A i \in D : GateClaim(result.verified[i]) = "text" <=> result.verified[i].state = "runtime-validated"
  BY <1>2 DEF Outcome, GateClaim
<1>5. \A i \in D :
        result.verified[i].state = "failed" <=> result.bound[i].type = "text" /\ result.verified[i].type # "text"
  BY <1>2 DEF Outcome
<1>6. \A i \in D : result.verified[i].state = "failed" => GateClaim(result.verified[i]) = "non-supporting"
  BY <1>2 DEF Outcome, GateClaim
<1>7. \A claim : GateClaim(claim) \in {"text", "non-supporting", "interpretation", "deny"}
  BY DEF GateClaim
<1> QED BY <1>2, <1>3, <1>4, <1>5, <1>6, <1>7 DEF Rendered

LEMMA ReportsByInv == PInv => ReportsAgree
<1> SUFFICES ASSUME PInv, answer.status = "final" PROVE ReportsAgree
  BY DEF ReportsAgree
<1> DEFINE text == Cardinality(Rendered({"text"}))
           below == Cardinality(Rendered({"non-supporting", "interpretation"}))
           deny == Cardinality(Rendered({"deny"}))
           failed == Cardinality({i \in DOMAIN result.verified : result.verified[i].state = "failed"})
           admitted == Rendered({"text"}) \cup Rendered({"non-supporting", "interpretation"})
<1>1. /\ Footer.textual = text /\ Footer.interpretations = below /\ Footer.denied = deny
  BY OneEntryEach DEF Footer
<1>2. Footer.curated + Footer.summaries = Footer.textual
  <2> DEFINE A == {unit \in answer.surfaceA : unit.quotes}
             B == {unit \in answer.surfaceA : ~unit.quotes}
  <2>1. A \cup B = answer.surfaceA /\ A \cap B = {}
    OBVIOUS
  <2> HIDE DEF A, B
  <2>2. Cardinality(A) + Cardinality(B) = Cardinality(answer.surfaceA)
    BY <2>1, OneEntryEach, TwoParts
  <2> QED BY <2>2 DEF A, B, Footer
<1>3. /\ VerificationSummary.validated = text /\ VerificationSummary.claims = Len(result.verified)
      /\ VerificationSummary.failed = failed /\ VerificationSummary.downgraded = failed
  BY CountedAlike DEF VerificationSummary
<1>4. BoundarySummary.denied = deny /\ BoundarySummary.admitted = Cardinality(admitted)
  BY CountedAlike DEF BoundarySummary
<1>5. text \in Nat /\ below \in Nat /\ text + below = Cardinality(admitted)
  <2>1. IsFiniteSet(admitted)
    BY OneEntryEach, FS_Union
  <2>2. Rendered({"text"}) \cap Rendered({"non-supporting", "interpretation"}) = {}
    BY DEF Rendered
  <2> HIDE DEF admitted
  <2> QED BY <2>1, <2>2, TwoParts DEF admitted
<1>6. Cardinality(admitted) + deny = Len(result.verified)
  <2>1. admitted \cup Rendered({"deny"}) = DOMAIN result.verified /\ admitted \cap Rendered({"deny"}) = {}
    <3>1. \A i \in DOMAIN result.verified : result.decisions[i] = GateClaim(result.verified[i])
      BY Placed, RenderedFits
    <3>2. \A claim : GateClaim(claim) \in {"text", "non-supporting", "interpretation", "deny"}
      BY DEF GateClaim
    <3> QED BY <3>1, <3>2 DEF Rendered
  <2> HIDE DEF admitted
  <2> QED BY <2>1, OneEntryEach, TwoParts
<1>7. failed <= below
  BY CountedAlike, OneEntryEach, FS_Subset
<1> HIDE DEF text, below, deny, failed, admitted
<1> QED BY <1>1, <1>2, <1>3, <1>4, <1>5, <1>6, <1>7 DEF ReportsAgree

-------------------------------------------------------------------------------
(* The refinement.  A reply is settled by the step that ends its job; a          *)
(* finalization happens where Build fails, or where Trace has read the store.    *)

Early == {"asked", "repair", "bound", "verified", "returned"}
Ended == {"recorded", "built"}
Quoted == {Catalog[unit.seed].artifact : unit \in {u \in SurfaceA : u.quotes}}

\* The verdict, by cases.
LEMMA VerdictOf ==
  /\ stage \in Early => Verdict = Promise!Pending
  /\ stage = "aborted" => Verdict = [gate |-> "aborted", content |-> NoAnswer, quoted |-> {}]
  /\ stage \in Ended =>
       Verdict = IF result.boundary = "none" THEN [gate |-> "none", content |-> NoAnswer, quoted |-> {}]
                 ELSE IF result.boundary = "denied" THEN [gate |-> "denied", content |-> NoAnswer, quoted |-> {}]
                 ELSE IF Renderable THEN [gate |-> "renderable", content |-> FinalAnswer, quoted |-> Quoted]
                 ELSE [gate |-> "rejected", content |-> NoAnswer, quoted |-> {}]
BY DEF Verdict, Promise!Pending, FinalAnswer, Quoted, Early, Ended

\* It depends on nothing that finalizing or the store changes.
LEMMA VerdictStays ==
  ASSUME result' = result, stage' = stage \/ (stage \in Ended /\ stage' \in Ended)
  PROVE  Verdict' = Verdict
<1>1. SurfaceA' = SurfaceA /\ Surfaces(SurfaceA)' = Surfaces(SurfaceA) /\ Renderable' = Renderable
  BY SameResult DEF FinalAnswer
<1> QED BY <1>1 DEF Verdict, Ended

\* An answer that was settled fails to be built exactly if what it quotes is gone.
LEMMA FailsIfGone ==
  ASSUME Renderable
  PROVE  (\E i \in Rendered({"text"}) : ~Buildable(result.verified[i])) <=> Quoted \cap lost # {}
<1>1. \A i \in Rendered({"text"}) :
        /\ AuthorityUnit(result.verified[i]) \in SurfaceA
        /\ AuthorityUnit(result.verified[i]).quotes = LeadEdge(result.verified[i]).quotes
        /\ Catalog[AuthorityUnit(result.verified[i]).seed].artifact = LeadSeed(result.verified[i]).artifact
  BY DEF SurfaceA, AuthorityUnit, LeadSeed
<1>2. \A i \in Rendered({"text"}) :
        ~Buildable(result.verified[i]) <=>
          LeadEdge(result.verified[i]).quotes /\ LeadSeed(result.verified[i]).artifact \in lost
  BY DEF Renderable, Buildable
<1>3. ASSUME NEW i \in Rendered({"text"}), ~Buildable(result.verified[i]) PROVE Quoted \cap lost # {}
  <2> DEFINE unit == AuthorityUnit(result.verified[i])
  <2>1. unit \in SurfaceA /\ unit.quotes /\ Catalog[unit.seed].artifact \in lost
    BY <1>1, <1>2, <1>3
  <2> HIDE DEF unit
  <2> QED BY <2>1 DEF Quoted
<1>4. ASSUME NEW unit \in SurfaceA, unit.quotes, Catalog[unit.seed].artifact \in lost
      PROVE  \E i \in Rendered({"text"}) : ~Buildable(result.verified[i])
  <2>1. PICK i \in Rendered({"text"}) : unit = AuthorityUnit(result.verified[i])
    BY DEF SurfaceA
  <2> QED BY <1>1, <1>2, <1>4, <2>1
<1> QED BY <1>3, <1>4 DEF Quoted

\* What can be traced can still be read.
LEMMA TracedIsThere ==
  ASSUME \A unit \in SurfaceA : Traceable(unit)
  PROVE  Quoted \cap lost = {}
<1> SUFFICES ASSUME NEW unit \in SurfaceA, unit.quotes PROVE Catalog[unit.seed].artifact \notin lost
  BY DEF Quoted
<1>1. PICK i \in Rendered({"text"}) : Buildable(result.verified[i]) /\ AuthorityUnit(result.verified[i]) = unit
  BY DEF Traceable
<1>2. LeadEdge(result.verified[i]).quotes /\ LeadSeed(result.verified[i]).artifact = Catalog[unit.seed].artifact
  BY <1>1 DEF AuthorityUnit, LeadSeed
<1> QED BY <1>1, <1>2 DEF Buildable

LEMMA InitPromised == Init => Promise!Init
<1> SUFFICES ASSUME Init PROVE Promise!Init
  OBVIOUS
<1>1. stage \in Early /\ lost = {} /\ answer = NoAnswer
  BY DEF Init, Early
<1> QED BY <1>1, VerdictOf DEF Promise!Init

\* The reply is recorded, or its job raises.
LEMMA SettlePromised ==
  ASSUME PInv, stage \in Early, UNCHANGED <<lost, answer>>,
         stage' \in Early \/ stage' = "aborted" \/ (stage' = "recorded" /\ result' = result)
  PROVE  Promise!Settle \/ UNCHANGED Promise!vars
<1>1. Verdict = Promise!Pending
  BY VerdictOf
<1>2. CASE stage' \in Early
  <2>1. Verdict' = Promise!Pending'
    BY <1>2 DEF Verdict, Promise!Pending, Early
  <2> QED BY <1>1, <2>1 DEF Promise!vars, Promise!Pending, NoAnswer
<1>3. CASE stage' = "aborted"
  <2>1. Verdict' = [gate |-> "aborted", content |-> NoAnswer, quoted |-> {}]
    BY <1>3 DEF Verdict, NoAnswer
  <2> QED BY <1>1, <2>1 DEF Promise!Settle, Promise!Outcomes
<1>4. CASE stage' = "recorded" /\ result' = result
  <2>1. SurfaceA' = SurfaceA /\ FinalAnswer' = FinalAnswer /\ Renderable' = Renderable
    BY <1>4, SameResult
  <2>2. Verdict' = IF result.boundary = "none" THEN [gate |-> "none", content |-> NoAnswer, quoted |-> {}]
                   ELSE IF result.boundary = "denied" THEN [gate |-> "denied", content |-> NoAnswer, quoted |-> {}]
                   ELSE IF Renderable THEN [gate |-> "renderable", content |-> FinalAnswer, quoted |-> Quoted]
                   ELSE [gate |-> "rejected", content |-> NoAnswer, quoted |-> {}]
    BY <1>4, <2>1 DEF Verdict, FinalAnswer, Quoted, NoAnswer
  <2>3. ASSUME result.boundary # "none", Renderable
        PROVE  FinalAnswer \in {a \in Answers : a.status = "final"} /\ Quoted \subseteq Artifacts
    <3>1. result.boundary = "admitted"
      BY <2>3 DEF PInv, TypeOK, Results, ResultFits, Renderable
    <3>2. SurfaceA \subseteq Units /\ FinalAnswer \in Answers /\ FinalAnswer.status = "final"
      BY <3>1, FinalAnswerType DEF PInv
    <3>3. \A s \in Seeds : Catalog[s].artifact \in Artifacts
      BY CatalogAssumption DEF SeedRecords
    <3> QED BY <3>2, <3>3 DEF Quoted, Units
  <2>4. Verdict' \in Promise!Outcomes
    <3> HIDE DEF FinalAnswer
    <3>1. CASE result.boundary \in {"none", "denied"} \/ ~Renderable
      BY <2>2, <3>1 DEF Promise!Outcomes
    <3>2. CASE result.boundary \notin {"none", "denied"} /\ Renderable
      BY <2>2, <2>3, <3>2 DEF Promise!Outcomes
    <3> QED BY <3>1, <3>2
  <2> QED BY <1>1, <2>4 DEF Promise!Settle
<1> QED BY <1>2, <1>3, <1>4

LEMMA BuildPromised == PInv /\ Build => Promise!Finalize \/ UNCHANGED Promise!vars
<1> SUFFICES ASSUME PInv, Build PROVE Promise!Finalize \/ UNCHANGED Promise!vars
  OBVIOUS
<1> DEFINE Ready == /\ result.verified # <<>>
                    /\ \A i \in Rendered({"text"}) : Buildable(result.verified[i])
<1>1. stage = "recorded" /\ result.boundary # "none" /\ UNCHANGED <<result, lost>>
  BY DEF Build
<1>2. CASE Ready
  <2>1. stage' = "built" /\ answer' = answer
    BY <1>2 DEF Build
  <2>2. Verdict' = Verdict
    BY <1>1, <2>1, VerdictStays DEF Ended
  <2> QED BY <1>1, <2>1, <2>2 DEF Promise!vars
<1>3. CASE ~Ready
  <2>1. stage' = stage /\ answer' = FinalizationError
    BY <1>3 DEF Build
  <2>2. Verdict' = Verdict
    BY <1>1, <2>1, VerdictStays
  <2>3. CASE result.boundary = "denied"
    <3>1. Verdict = [gate |-> "denied", content |-> NoAnswer, quoted |-> {}]
      BY <1>1, <2>3, VerdictOf DEF Ended
    <3> QED BY <1>1, <2>1, <2>2, <3>1 DEF Promise!Finalize
  <2>4. CASE result.boundary # "denied" /\ ~Renderable
    <3>1. Verdict = [gate |-> "rejected", content |-> NoAnswer, quoted |-> {}]
      BY <1>1, <2>4, VerdictOf DEF Ended
    <3> QED BY <1>1, <2>1, <2>2, <3>1 DEF Promise!Finalize
  <2>5. CASE result.boundary # "denied" /\ Renderable
    <3>1. Verdict = [gate |-> "renderable", content |-> FinalAnswer, quoted |-> Quoted]
      BY <1>1, <2>5, VerdictOf DEF Ended
    <3>2. Quoted \cap lost # {}
      BY <1>3, <2>5, FailsIfGone DEF Renderable
    <3> QED BY <1>1, <2>1, <2>2, <3>1, <3>2 DEF Promise!Finalize
  <2> QED BY <2>3, <2>4, <2>5
<1> QED BY <1>2, <1>3

LEMMA TracePromised == PInv /\ Trace => Promise!Finalize
<1> SUFFICES ASSUME PInv, Trace PROVE Promise!Finalize
  OBVIOUS
<1>1. stage = "built" /\ stage' = "recorded" /\ UNCHANGED <<result, lost>>
  BY DEF Trace
<1>2. result.boundary = "admitted" /\ Renderable /\ draft = SurfaceA
  BY <1>1 DEF PInv, DraftFits
<1>3. Verdict = [gate |-> "renderable", content |-> FinalAnswer, quoted |-> Quoted]
  BY <1>1, <1>2, VerdictOf DEF Ended
<1>4. Verdict' = Verdict
  BY <1>1, VerdictStays DEF Ended
<1>5. answer' = IF Quoted \cap lost = {} THEN FinalAnswer ELSE FinalizationError
  <2>1. CASE \E unit \in draft : ~Traceable(unit)
    BY <1>2, <2>1, UntracedUnbuildable, FailsIfGone DEF Trace
  <2>2. CASE ~\E unit \in draft : ~Traceable(unit)
    BY <1>2, <2>2, TracedIsThere DEF Trace, FinalAnswer
  <2> QED BY <2>1, <2>2
<1> QED BY <1>1, <1>3, <1>4, <1>5 DEF Promise!Finalize

LEMMA StepPromised == PInv /\ [Next]_vars => [Promise!Next]_(Promise!vars)
<1> SUFFICES ASSUME PInv, [Next]_vars PROVE Promise!Next \/ UNCHANGED Promise!vars
  OBVIOUS
<1>1. CASE UNCHANGED vars
  <2>1. Verdict' = Verdict
    BY <1>1, VerdictStays DEF vars
  <2> QED BY <1>1, <2>1 DEF vars, Promise!vars
<1>2. ASSUME NEW block \in Blocks, Reply(block) \/ Repair(block) PROVE Promise!Next \/ UNCHANGED Promise!vars
  <2>1. /\ stage \in Early /\ UNCHANGED <<lost, answer>>
        /\ stage' \in Early \/ stage' = "aborted"
    BY <1>2 DEF Reply, Repair, Attach, DropClaims, Abort, Early
  <2> QED BY <2>1, SettlePromised DEF Promise!Next
<1>3. CASE RepairCallFails \/ Verify \/ Gate \/ Record
  <2>1. /\ stage \in Early /\ UNCHANGED <<lost, answer>>
        /\ stage' \in Early \/ stage' = "aborted" \/ (stage' = "recorded" /\ result' = result)
    BY <1>3 DEF RepairCallFails, DropClaims, Verify, Gate, Record, Early
  <2> QED BY <2>1, SettlePromised DEF Promise!Next
<1>4. CASE Build \/ Trace
  BY <1>4, BuildPromised, TracePromised DEF Promise!Next
<1>5. ASSUME NEW a \in Artifacts, LoseSnapshot(a) PROVE Promise!Next
  <2>1. Verdict' = Verdict
    BY <1>5, VerdictStays DEF LoseSnapshot
  <2> QED BY <1>5, <2>1 DEF LoseSnapshot, Promise!Next, Promise!Lose
<1> QED BY <1>1, <1>2, <1>3, <1>4, <1>5 DEF Next
-------------------------------------------------------------------------------
\* Types of the result, of the draft and of the answer, for blocks of any length.
THEOREM PipelineTypes == Spec => []TypeOK
<1>1. PInv => TypeOK
  BY DEF PInv
<1> QED BY <1>1, PInductive, PTL

\* Whatever is on Surface A a [Text] claim of the reply has earned: it cites the seed,
\* which has its rights, and what is quoted stood in the snapshot of that seed.
THEOREM AuthorityIsEarned == Spec => []AuthorityEarned
BY EarnedByInv, PInductive, PTL

\* A finalized answer places each claim of the bound reply exactly once.
THEOREM EveryClaimIsPlaced == Spec => []EveryClaimPlaced
BY PlacedByInv, PInductive, PTL

\* A [Text] claim whose evidence failed is never shown as an interpretation.
THEOREM FailedTextIsMarked == Spec => []FailedTextMarked
BY MarkedByInv, PInductive, PTL

\* The verification summary, the boundary summary and the footer count the same claims,
\* whatever the number of claims and of the edges they share.
THEOREM ReportsDoAgree == Spec => []ReportsAgree
BY ReportsByInv, PInductive, PTL

\* The enforcement mode that is reported is one the recorded result has earned.
THEOREM ModeIsEarned == Spec => []ModeEarned
BY ModeByInv, PInductive, PTL

\* Finalizing again fails or returns the same answer, whatever snapshots are lost
\* between the attempts or during one.
THEOREM AnswerIsStable == Spec => AnswerStable
<1>1. PInv /\ PInv' /\ [Next]_vars
        => [answer.status # "none" => answer'.status = "error" \/ answer' = answer]_vars
  BY StableByInv
<1> QED BY <1>1, PInductive, PTL DEF Spec, AnswerStable

\* Two readings of the store and whatever is lost between them notwithstanding, finalizing
\* gives at one moment what was settled when the reply was recorded, or fails because there
\* was nothing or because a snapshot it quotes is gone: for any catalog and any blocks.
THEOREM AnswerIsAtOnce == Spec => AnswersAtOnce
BY InitPromised, StepPromised, PInductive, PTL DEF Spec, AnswersAtOnce, Promise!Spec
===============================================================================
