-------------------------- MODULE MCManagedWhisper --------------------------
(* Instances of ManagedWhisper for TLC: two callers in the one that passes, one  *)
(* (as many as the queue has) in the one that refutes.                          *)
EXTENDS ManagedWhisper
=============================================================================
