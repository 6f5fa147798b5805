----------------------------- MODULE RoundBarrier -----------------------------
(***************************************************************************)
(* What the debate controller promises of a run, without its workers, its  *)
(* retries or its state file: rounds are played strictly one after the     *)
(* other, each panelist contributes at most one answer to a round, an      *)
(* answer is never taken back, and a round closes only over the answers of *)
(* the whole panel.                                                        *)
(***************************************************************************)
EXTENDS Integers

CONSTANTS Panelists, MaxRound

VARIABLES
  answered,  \* answered[r]: the panelists whose answer to round r is recorded
  closed     \* closed[r]: the moderator may go on to round r + 1

vars == <<answered, closed>>

Rounds == 1 .. MaxRound

Init ==
  /\ answered = [r \in Rounds |-> {}]
  /\ closed = [r \in Rounds |-> FALSE]

\* A panelist answers the round whose predecessor is closed.
Answer(r, p) ==
  /\ r = 1 \/ closed[r - 1]
  /\ ~closed[r]
  /\ p \notin answered[r]
  /\ answered' = [answered EXCEPT ![r] = @ \cup {p}]
  /\ UNCHANGED closed

\* The barrier: a round closes over the complete panel.
Close(r) ==
  /\ ~closed[r]
  /\ answered[r] = Panelists
  /\ closed' = [closed EXCEPT ![r] = TRUE]
  /\ UNCHANGED answered

Next == \E r \in Rounds : Close(r) \/ \E p \in Panelists : Answer(r, p)

Spec == Init /\ [][Next]_vars
===============================================================================
