---------------------------- MODULE ManagerQueue ----------------------------
(***************************************************************************)
(* What the manager pool promises (managerpool.Pool): a first-come-first-   *)
(* served queue in which a manager stands at most once.                    *)
(***************************************************************************)
EXTENDS Naturals, Sequences

CONSTANT Managers

VARIABLE waiting    \* the managers in the queue

Waiting == {waiting[i] : i \in DOMAIN waiting}

Init == waiting = <<>>

Join(m) == m \notin Waiting /\ waiting' = Append(waiting, m)

Serve == waiting # <<>> /\ waiting' = Tail(waiting)

Dissolve == waiting' = <<>>

Next == (\E m \in Managers : Join(m)) \/ Serve \/ Dissolve

Spec == Init /\ [][Next]_waiting
=============================================================================
