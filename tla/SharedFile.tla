------------------------------ MODULE SharedFile ------------------------------
(* What the state file of a run promises to those who read it: it passes from  *)
(* one complete save to the next, none of which forgets an earlier one, and a  *)
(* reader gets the save that was the last when it opened the file.  This is    *)
(* the atomic save that DebateController takes for granted.  The promise ends  *)
(* with the first two calls on the run that overlap in different processes.    *)

CONSTANTS Readers, Unread

VARIABLES
  file,    \* the saves that the file reflects; none before the first one
  seen,    \* what each reader got when it last looked, or Unread
  shared   \* whether calls have overlapped

vars == <<file, seen, shared>>

Init == file = {} /\ seen = [r \in Readers |-> Unread] /\ shared = FALSE

Publish ==
  /\ file \subseteq file' /\ file' # file
  /\ UNCHANGED <<seen, shared>>

Look(r) ==
  /\ file # {}
  /\ seen' = [seen EXCEPT ![r] = file]
  /\ UNCHANGED <<file, shared>>

Overlap == shared'

Next == Overlap \/ (~shared /\ (Publish \/ \E r \in Readers : Look(r)))

Spec == Init /\ [][Next]_vars
===============================================================================
