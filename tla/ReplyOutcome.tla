----------------------------- MODULE ReplyOutcome -----------------------------
(* What the claim pipeline promises of a panelist's reply: when the reply is     *)
(* recorded it is settled, for good, whether it can be finalized and what it is  *)
(* finalized to.  Finalizing takes one step, as often as it is asked for: the    *)
(* answer comes whole, and only while every snapshot it quotes can still be read.*)
(* DebateController knows no more of a reply than this outcome's gate, and calls *)
(* a denied one "rejected", too, as the finalizer fails on both.                 *)

CONSTANTS
  Snapshots,  \* what an answer may quote
  Contents,   \* the answers
  Nothing,    \* shown until something is finalized
  Empty,      \* the answer without units, interpretations and rejected claims
  Failure     \* shown when finalizing fails

VARIABLES
  outcome,  \* what the reply came to
  lost,     \* snapshots that can no longer be read
  shown     \* by the last finalization

vars == <<outcome, lost, shown>>

\* A reply whose job raised, one without a boundary decision, which is not finalized, one
\* that the boundary denies as a whole, one that the finalizer turns away, and one with an
\* answer.
Outcomes ==
  [gate : {"aborted", "none", "denied", "rejected"}, content : {Nothing}, quoted : {{}}]
    \cup [gate : {"renderable"}, content : Contents, quoted : SUBSET Snapshots]
Pending == [gate |-> "pending", content |-> Nothing, quoted |-> {}]

Init == outcome = Pending /\ lost = {} /\ shown = Nothing

Settle ==
  /\ outcome = Pending
  /\ outcome' \in Outcomes
  /\ UNCHANGED <<lost, shown>>

Lose(a) ==
  /\ lost' = lost \cup {a}
  /\ UNCHANGED <<outcome, shown>>

\* What is shown of a denied reply, its empty answer or a failure, is left open here.
Finalize ==
  /\ \/ outcome.gate = "denied" /\ shown' \in {Empty, Failure}
     \/ outcome.gate = "rejected" /\ shown' = Failure
     \/ /\ outcome.gate = "renderable"
        /\ shown' = IF outcome.quoted \cap lost = {} THEN outcome.content ELSE Failure
  /\ UNCHANGED <<outcome, lost>>

Next == Settle \/ Finalize \/ \E a \in Snapshots : Lose(a)

Spec == Init /\ [][Next]_vars
===============================================================================
