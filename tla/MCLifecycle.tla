----------------------------- MODULE MCLifecycle -----------------------------
(* An instance of Lifecycle for TLC: two servers (the third is like them),   *)
(* two workers of the outbox and one consumer of verdicts.                   *)
EXTENDS Lifecycle
=============================================================================
