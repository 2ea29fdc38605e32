------------------------------ MODULE MCOutbox ------------------------------
(* Instances of Outbox for TLC. *)
EXTENDS Outbox, TLC

CONSTANTS j1, j2, w1, w2

Symmetry == Permutations({w1, w2})
=============================================================================
