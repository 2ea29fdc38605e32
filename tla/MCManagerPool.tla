--------------------------- MODULE MCManagerPool ---------------------------
(* Three managers and two places, so that the pool can be full.            *)
EXTENDS ManagerPool

=============================================================================
