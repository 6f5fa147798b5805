---------------------------- MODULE MCCodexClient ----------------------------
(* Small instances of CodexClient for TLC: the workers are model values.  Two  *)
(* workers with two attempts each are four request ids, enough for an answer   *)
(* that is late, for its owner and for the other worker.                       *)
EXTENDS CodexClient
===============================================================================
