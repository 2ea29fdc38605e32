--------------------------- MODULE OutboxContract ---------------------------
(***************************************************************************)
(* What the outbox promises to the use case that puts a job: once          *)
(* accepted, a job is owed until its handler has succeeded or the job has  *)
(* been buried in the dead letter table.  A handler may be performed more  *)
(* than once, even after the job was settled.                              *)
(***************************************************************************)
CONSTANT Job

VARIABLES accepted,   \* jobs put
          owed,       \* jobs accepted and not settled
          performed,  \* jobs whose handler has succeeded at least once
          buried      \* jobs in the dead letter table

contractVars == <<accepted, owed, performed, buried>>

Init == accepted = {} /\ owed = {} /\ performed = {} /\ buried = {}

Accept(j) ==
    /\ j \notin accepted
    /\ accepted' = accepted \cup {j}
    /\ owed' = owed \cup {j}
    /\ UNCHANGED <<performed, buried>>

Perform(j) ==
    /\ j \in accepted
    /\ performed' = performed \cup {j}
    /\ UNCHANGED <<accepted, owed, buried>>

Complete(j) ==
    /\ j \in owed \cap performed
    /\ owed' = owed \ {j}
    /\ UNCHANGED <<accepted, performed, buried>>

BuryJob(j) ==
    /\ j \in owed
    /\ owed' = owed \ {j}
    /\ buried' = buried \cup {j}
    /\ UNCHANGED <<accepted, performed>>

Next == \E j \in Job : Accept(j) \/ Perform(j) \/ Complete(j) \/ BuryJob(j)

Spec == Init /\ [][Next]_contractVars
=============================================================================
