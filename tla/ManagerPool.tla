---------------------------- MODULE ManagerPool ----------------------------
(***************************************************************************)
(* The pool of managers who are ready for a problem                        *)
(* (internal/services/manager-pool/in-mem), the load of a manager, and the *)
(* free-hands request, which reads the load and then puts the manager.     *)
(*                                                                         *)
(* A method of the pool holds its mutex from beginning to end, so it is    *)
(* one step.  The load is read from the database in a step of its own.     *)
(* Who takes managers from the pool and gives them problems is not written *)
(* yet: it is the environment, and gives a problem to whom it takes only.  *)
(***************************************************************************)
EXTENDS Naturals, Sequences, FiniteSets

CONSTANTS
    Managers,
    Requests,       \* the free-hands requests that may be in progress at once
    ManagersMax,    \* managersMax
    MaxProblems     \* managerload.Options.maxProblemsAtTime

ASSUME ManagerPoolAssumption ==
    /\ IsFiniteSet(Requests)
    /\ ManagersMax \in Nat \ {0} /\ MaxProblems \in Nat \ {0}

VARIABLES
    queue,      \* Service.queue
    managers,   \* the keys of Service.managers
    load,       \* the open problems of a manager
    pc,         \* a request: idle, check the load, put
    who,        \* its manager
    answer      \* its answer

pool     == <<queue, managers>>
requests == <<pc, who, answer>>
vars     == <<pool, load, requests>>

InQueue == {queue[i] : i \in DOMAIN queue}

TypeOK ==
    /\ queue \in Seq(Managers)
    /\ managers \subseteq Managers
    /\ load \in [Managers -> Nat]
    /\ pc \in [Requests -> {"idle", "check", "put"}]
    /\ who \in [Requests -> Managers]
    /\ answer \in [Requests -> {"none", "ok", "overloaded", "capacity", "error"}]

Init ==
    /\ queue = <<>> /\ managers = {}
    /\ load = [m \in Managers |-> 0]
    /\ pc = [r \in Requests |-> "idle"]
    /\ who \in [Requests -> Managers]
    /\ answer = [r \in Requests |-> "none"]

-----------------------------------------------------------------------------
(* A manager presses the button. *)
Ask(r, m) ==
    /\ pc[r] = "idle"
    /\ pc' = [pc EXCEPT ![r] = "check"]
    /\ who' = [who EXCEPT ![r] = m]
    /\ answer' = [answer EXCEPT ![r] = "none"]
    /\ UNCHANGED <<pool, load>>

Reply(r, a) ==
    /\ pc' = [pc EXCEPT ![r] = "idle"]
    /\ answer' = [answer EXCEPT ![r] = a]
    /\ UNCHANGED who

(* CanManagerTakeProblem *)
(* Mutant: one problem too many. *)
CanTakeOneMore(m) == load[m] <= MaxProblems
CanTakeProblem(m) == load[m] < MaxProblems

Check(r) ==
    /\ pc[r] = "check"
    /\ \/ /\ CanTakeProblem(who[r])
          /\ pc' = [pc EXCEPT ![r] = "put"]
          /\ UNCHANGED <<who, answer>>
       \/ ~CanTakeProblem(who[r]) /\ Reply(r, "overloaded")
       \/ Reply(r, "error")
    /\ UNCHANGED <<pool, load>>

(* Service.Put: the capacity comes first, a manager in the pool next. *)
(* Mutant: the newest first. *)
Push(m) == queue' = <<m>> \o queue
Enqueue(m) == queue' = Append(queue, m)

(* Mutant: nobody looks whether the manager is in the pool. *)
NewEveryTime(r) ==
    /\ Cardinality(managers) < ManagersMax
    /\ managers' = managers \cup {who[r]} /\ Enqueue(who[r])
    /\ Reply(r, "ok")
PutNew(r) ==
    /\ Cardinality(managers) < ManagersMax /\ who[r] \notin managers
    /\ managers' = managers \cup {who[r]} /\ Enqueue(who[r])
    /\ Reply(r, "ok")

Put(r) ==
    /\ pc[r] = "put"
    /\ \/ PutNew(r)
       \/ /\ Cardinality(managers) < ManagersMax /\ who[r] \in managers
          /\ Reply(r, "ok") /\ UNCHANGED pool
       \/ Cardinality(managers) >= ManagersMax /\ Reply(r, "capacity") /\ UNCHANGED pool
    /\ UNCHANGED load

(* Service.Get *)
Get ==
    /\ queue # <<>>
    /\ queue' = Tail(queue)
    /\ managers' = managers \ {Head(queue)}

(* The manager taken from the pool gets a problem ... *)
Assign ==
    /\ Get
    /\ load' = [load EXCEPT ![Head(queue)] = @ + 1]
    /\ UNCHANGED requests

(* ... and a problem is resolved. *)
Resolve(m) ==
    /\ load[m] > 0
    /\ load' = [load EXCEPT ![m] = @ - 1]
    /\ UNCHANGED <<pool, requests>>

(* Service.Close *)
Close ==
    /\ queue' = <<>> /\ managers' = {}
    /\ UNCHANGED <<load, requests>>

Next ==
    \/ \E r \in Requests : (\E m \in Managers : Ask(r, m)) \/ Check(r) \/ Put(r)
    \/ \E m \in Managers : Resolve(m)
    \/ Assign \/ Close

Spec == Init /\ [][Next]_vars

-----------------------------------------------------------------------------
(* Queue and set hold the same managers, each of them once: whoever is in    *)
(* the set alone could never be put again, whoever is in the queue twice   *)
(* would be served twice (service.go:50 and 68).                           *)
QueueIsSet ==
    /\ InQueue = managers
    /\ \A i, j \in DOMAIN queue : queue[i] = queue[j] => i = j

(* Requests of one manager that are about to put it. *)
Putting(m) == {r \in Requests : pc[r] = "put" /\ who[r] = m}

(* A manager is in the pool, has a problem, or has a request that has        *)
(* weighed its load.  Each of the latter may have read it before the       *)
(* others took effect, and no more than one per request goes over the      *)
(* limit (usecases/manager/free-hands/usecase.go:46 and 55).               *)
OverloadIsBounded ==
    \A m \in Managers :
        load[m] + (IF m \in managers THEN 1 ELSE 0) + Cardinality(Putting(m))
            <= MaxProblems + Cardinality(Requests)

PoolInv == TypeOK /\ QueueIsSet /\ OverloadIsBounded

(* The pool is a queue, first come first served, in which a manager stands   *)
(* once (pool.go:13), and requests at the limit change nothing.            *)
Queue == INSTANCE ManagerQueue WITH waiting <- queue
ImplementsQueue == Queue!Spec

(* If managers are taken again and again, nobody waits for ever, however     *)
(* many others come and come back.                                         *)
NobodyStarves ==
    []<><<Assign>>_vars =>
        \A m \in Managers : (m \in managers) ~> (m \notin managers)
=============================================================================
