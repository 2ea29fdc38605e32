---------------------------- MODULE MCSendMessage ----------------------------
(* Instances of SendMessage for TLC: a1 and a2 are two attempts at one       *)
(* request, a3 and a5 are other requests of the same client -- three in all, *)
(* so that two race when the chat exists and its problem is resolved --, and *)
(* a4 is one of another client.                                              *)
EXTENDS SendMessage, TLC

CONSTANTS a1, a2, a3, a4, a5, r1, r2, r3, r4, c1, c2

Req       == (a1 :> r1) @@ (a2 :> r1) @@ (a3 :> r2)
Req5      == Req @@ (a4 :> r3) @@ (a5 :> r4)
Cl        == (r1 :> c1) @@ (r2 :> c1) @@ (r3 :> c2)
Cl4       == Cl @@ (r4 :> c1)
=============================================================================
