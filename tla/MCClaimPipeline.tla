-------------------------- MODULE MCClaimPipeline --------------------------
(* Small instances of ClaimPipeline for TLC. *)
EXTENDS ClaimPipeline, TLC

AllModes == {"bind", "verify", "failClosed"}
StrictMode == {"failClosed"}

Seed(artifact, interpretive, curated, rights, kind) ==
  [artifact |-> artifact, interpretive |-> interpretive, curated |-> curated,
   rights |-> rights, kind |-> kind]

\* Two snapshots; the first has an ordinary and an interpretation-only
\* occurrence, the second a licensed and an unlicensed curated one.
TwoSnapshots == {"a1", "a2"}
FourSeeds ==
  [s \in {"S1", "S2", "S3", "S4"} |->
    CASE s = "S1" -> Seed("a1", FALSE, FALSE, FALSE, "none")
      [] s = "S2" -> Seed("a2", FALSE, TRUE, TRUE, "published")
      [] s = "S3" -> Seed("a1", TRUE, FALSE, FALSE, "none")
      [] s = "S4" -> Seed("a2", FALSE, TRUE, FALSE, "generated")]

UpTo(S, n) == UNION {[1 .. k -> S] : k \in 0 .. n}
Block(flaw, claims, edges) == [flaw |-> flaw, claims |-> claims, edges |-> edges]
EdgesTo(ids, seeds) == [claim : ids, seed : seeds, quotes : BOOLEAN]

\* A [Text] claim with up to two edges.
OneClaim ==
  {Block("none", <<c>>, es) :
     c \in [id : {1}, type : {"text"}, found : {{"a1"}, {"a2"}}, declared : Kinds],
     es \in UpTo(EdgesTo({1}, {"S1", "S2", "S3", "S4"}), 2)}

Small(types) == [id : {1, 2}, type : types, found : {{}, {"a1"}}, declared : {"none"}]

\* Up to two claims, the same id allowed, with up to two edges.
TwoClaims ==
  {Block("none", cs, es) :
     cs \in UpTo(Small(ClaimTypes), 2), es \in UpTo(EdgesTo({1, 2}, {"S1"}), 2)}

\* What validation turns away; "S9" is not in the catalog.
Odd ==
  {Block(flaw, cs, es) :
     flaw \in Flaws, cs \in UpTo(Small({"text", "other"}), 1), es \in UpTo(EdgesTo({1, 3}, {"S1", "S9"}), 1)}

AllBlocks == OneClaim \cup TwoClaims \cup Odd
=============================================================================
