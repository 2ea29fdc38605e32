----------------------------- MODULE MCHistory -----------------------------
(* A chat of five messages over four times, so that some share one.         *)
EXTENDS History

=============================================================================
