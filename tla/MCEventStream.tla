---------------------------- MODULE MCEventStream ----------------------------
(* Instances of EventStream for TLC: three subscribers of one user, so that  *)
(* a removal meets the first, a middle and the last cell, two events and an  *)
(* invalid one.                                                              *)
EXTENDS EventStream, TLC

CONSTANTS u1, s1, s2, s3, p1, p2, p3

Subs  == (s1 :> u1) @@ (s2 :> u1) @@ (s3 :> u1)
Addr3 == (p1 :> u1) @@ (p2 :> u1) @@ (p3 :> u1)
=============================================================================
