---------------------------- MODULE MCChatSystem ----------------------------
(* An instance of ChatSystem for TLC: one message on which the anti-fraud    *)
(* service may give either verdict and, if it is produced twice, both.       *)
EXTENDS ChatSystem, TLC

CONSTANT m1

EitherVerdict == m1 :> {"ok", "suspicious"}
=============================================================================
