-------------------------- MODULE MCClientLifecycle --------------------------
(* Small instances of ClientLifecycle for TLC: three model values for the pool *)
(* threads, so that one holds the lock, one waits and one is past it.          *)
EXTENDS ClientLifecycle
===============================================================================
