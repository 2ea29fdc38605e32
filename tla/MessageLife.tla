----------------------------- MODULE MessageLife -----------------------------
(***************************************************************************)
(* The life of a message as its author may know it: what the history says  *)
(* of it (get-history: one tick, two ticks, blocked) and what events have   *)
(* told about it.  A state is never left for an earlier one, and nothing   *)
(* is told before it is true.                                              *)
(***************************************************************************)
CONSTANT Message

VARIABLES status,  \* none, accepted, received, blocked
          told     \* the outcomes announced by an event

lifeVars == <<status, told>>

Outcome == {"received", "blocked"}

Init == status = [m \in Message |-> "none"] /\ told = [m \in Message |-> {}]

Become(m, from, s) ==
    /\ status[m] \in from
    /\ status' = [status EXCEPT ![m] = s]
    /\ UNCHANGED told

(* "received" may be told late, of a message that is blocked by then. *)
Tell(m, s) ==
    /\ status[m] \in Outcome
    /\ s = "blocked" => status[m] = "blocked"
    /\ told' = [told EXCEPT ![m] = @ \cup {s}]
    /\ UNCHANGED status

Next ==
    \E m \in Message :
        \/ Become(m, {"none"}, "accepted")
        \/ Become(m, {"accepted"}, "received")
        \/ Become(m, {"accepted", "received"}, "blocked")
        \/ \E s \in Outcome : Tell(m, s)

Spec == Init /\ [][Next]_lifeVars
=============================================================================
