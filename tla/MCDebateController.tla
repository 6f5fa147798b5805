------------------------- MODULE MCDebateController -------------------------
(* Small instances of DebateController for TLC: the panelists are model values. *)
EXTENDS DebateController

AllFaults == {"crash", "raise", "save", "loss"}
CrashOnly == {"crash"}
=============================================================================
