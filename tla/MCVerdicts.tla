----------------------------- MODULE MCVerdicts -----------------------------
(* Instances of Verdicts for TLC: one partition with verdicts of every kind, *)
(* two of them on the same message, or two short partitions.                 *)
EXTENDS Verdicts, TLC

CONSTANTS c1, c2, p1, p2, m1, m2

V(m, s) == [msg |-> m, status |-> s]

OneLog  == p1 :> <<V(m1, "ok"), V(m2, "garbage"), V(m1, "suspicious")>>
TwoLogs == (p1 :> <<V(m1, "ok")>>) @@ (p2 :> <<V(m2, "suspicious")>>)

ConsumerSymmetry == Permutations({c1, c2})
=============================================================================
