------------------------- MODULE ManagerPoolProofs -------------------------
(***************************************************************************)
(* The manager pool is a queue without repetitions, and free-hands         *)
(* requests overload a manager by one problem each at most, for any number *)
(* of managers and requests and any limits.                                *)
(***************************************************************************)
EXTENDS ManagerPool, FiniteSetTheorems, TLAPS

USE ManagerPoolAssumption

(* What a manager's part in the pool and its requests add to its load. *)
Claims(m) == load[m] + (IF m \in managers THEN 1 ELSE 0) + Cardinality(Putting(m))

LEMMA PuttingIsFinite ==
    \A m \in Managers : IsFiniteSet(Putting(m)) /\ Cardinality(Putting(m)) \in Nat
<1>1. \A m \in Managers : Putting(m) \in SUBSET Requests
  BY DEF Putting
<1> QED
  BY <1>1, FS_Subset, FS_CardinalityType

LEMMA RequestsAreFinite == Cardinality(Requests) \in Nat
BY FS_CardinalityType

LEMMA InitOK == Init => PoolInv
<1> SUFFICES ASSUME Init PROVE PoolInv
  OBVIOUS
<1>1. TypeOK /\ QueueIsSet
  BY DEF Init, TypeOK, QueueIsSet, InQueue
<1>2. \A m \in Managers : Putting(m) = {}
  BY DEF Init, Putting
<1>3. Cardinality({}) = 0
  BY FS_EmptySet
<1>4. OverloadIsBounded
  <2> SUFFICES ASSUME NEW m \in Managers
               PROVE  Claims(m) <= MaxProblems + Cardinality(Requests)
    BY DEF OverloadIsBounded, Claims
  <2>1. load[m] = 0 /\ m \notin managers /\ Cardinality(Putting(m)) = 0
    BY <1>2, <1>3 DEF Init
  <2>2. Claims(m) = 0
    BY <2>1 DEF Claims
  <2> QED
    BY <2>2, RequestsAreFinite
<1> QED
  BY <1>1, <1>4 DEF PoolInv

-----------------------------------------------------------------------------
(* The queue.                                                              *)

LEMMA StepTypeOK ==
    ASSUME TypeOK, [Next]_vars
    PROVE  TypeOK'
<1> USE DEF TypeOK
<1>1. ASSUME NEW r \in Requests, NEW m \in Managers, Ask(r, m)
      PROVE  TypeOK'
  BY <1>1 DEF Ask, pool
<1>2. ASSUME NEW r \in Requests, Check(r)
      PROVE  TypeOK'
  BY <1>2 DEF Check, Reply, pool
<1>3. ASSUME NEW r \in Requests, Put(r)
      PROVE  TypeOK'
  <2>1. \E a \in {"ok", "capacity"} : Reply(r, a)
    BY <1>3, Zenon DEF Put, PutNew
  <2>2. pc' \in [Requests -> {"idle", "check", "put"}] /\ who' = who
    BY <2>1 DEF Reply
  <2>3. answer' \in [Requests -> {"none", "ok", "overloaded", "capacity", "error"}]
    BY <2>1 DEF Reply
  <2>4. queue' \in Seq(Managers) /\ managers' \subseteq Managers /\ load' = load
    <3>1. load' = load
      BY <1>3 DEF Put
    <3>2. \/ UNCHANGED pool
          \/ managers' = managers \cup {who[r]} /\ queue' = Append(queue, who[r])
      BY <1>3, Zenon DEF Put, PutNew, Enqueue
    <3>3. who[r] \in Managers
      OBVIOUS
    <3>4. CASE UNCHANGED pool
      BY <3>1, <3>4 DEF pool
    <3>5. CASE managers' = managers \cup {who[r]} /\ queue' = Append(queue, who[r])
      BY <3>1, <3>3, <3>5
    <3> QED
      BY <3>2, <3>4, <3>5
  <2> QED
    BY <2>2, <2>3, <2>4
<1>4. ASSUME NEW m \in Managers, Resolve(m)
      PROVE  TypeOK'
  BY <1>4 DEF Resolve, pool, requests
<1>5. CASE Assign
  BY <1>5 DEF Assign, Get, requests
<1>6. CASE Close
  BY <1>6 DEF Close, requests
<1>7. CASE UNCHANGED vars
  BY <1>7 DEF vars, pool, requests
<1> QED
  BY <1>1, <1>2, <1>3, <1>4, <1>5, <1>6, <1>7 DEF Next

LEMMA StepQueue ==
    ASSUME TypeOK, QueueIsSet, [Next]_vars
    PROVE  QueueIsSet'
<1> USE DEF TypeOK, QueueIsSet, InQueue
<1>1. ASSUME NEW r \in Requests, PutNew(r)
      PROVE  QueueIsSet'
  <2>1. /\ queue' = Append(queue, who[r]) /\ managers' = managers \cup {who[r]}
        /\ who[r] \in Managers /\ who[r] \notin managers
    BY <1>1 DEF PutNew, Enqueue
  <2>2. /\ DOMAIN queue' = DOMAIN queue \cup {Len(queue) + 1}
        /\ \A i \in DOMAIN queue : queue'[i] = queue[i]
        /\ queue'[Len(queue) + 1] = who[r]
        /\ Len(queue) + 1 \notin DOMAIN queue
    BY <2>1
  <2>3. \A i \in DOMAIN queue : queue[i] # who[r]
    BY <2>1
  <2> QED
    BY <2>1, <2>2, <2>3
<1>2. CASE Get
  <2>1. queue # <<>> /\ queue' = Tail(queue) /\ managers' = managers \ {queue[1]}
    BY <1>2 DEF Get
  <2>2. /\ DOMAIN queue = 1..Len(queue) /\ Len(queue) \in Nat \ {0}
        /\ DOMAIN queue' = 1..(Len(queue) - 1)
        /\ \A i \in DOMAIN queue' : queue'[i] = queue[i + 1] /\ i + 1 \in DOMAIN queue
    BY <2>1
  <2>3. \A i, j \in DOMAIN queue' : queue'[i] = queue'[j] => i = j
    BY <2>2
  <2>4. ASSUME NEW m \in managers', NEW i \in DOMAIN queue, queue[i] = m
        PROVE  \E j \in DOMAIN queue' : queue'[j] = m
    <3>1. i # 1
      BY <2>1, <2>4
    <3>2. i - 1 \in DOMAIN queue' /\ queue'[i - 1] = queue[i]
      BY <2>2, <3>1
    <3> QED
      BY <2>4, <3>2
  <2>5. ASSUME NEW i \in DOMAIN queue'
        PROVE  queue'[i] \in managers'
    <3>1. queue'[i] = queue[i + 1] /\ i + 1 \in DOMAIN queue /\ 1 \in DOMAIN queue /\ i + 1 # 1
      BY <2>2
    <3>2. queue[i + 1] # queue[1] /\ queue[i + 1] \in managers
      BY <3>1
    <3> QED
      BY <2>1, <3>1, <3>2
  <2>6. \A m \in managers' : \E i \in DOMAIN queue : queue[i] = m
    BY <2>1
  <2>7. InQueue' = managers'
    BY <2>4, <2>5, <2>6
  <2> QED
    BY <2>3, <2>7
<1>3. CASE Close
  BY <1>3 DEF Close
<1>4. CASE UNCHANGED pool
  BY <1>4 DEF pool
<1>5. UNCHANGED pool \/ (\E r \in Requests : PutNew(r)) \/ Get \/ Close
  BY Zenon DEF Next, Ask, Check, Put, Resolve, Assign, vars
<1> QED
  BY <1>1, <1>2, <1>3, <1>4, <1>5

-----------------------------------------------------------------------------
(* The load.                                                               *)

(* The claims of a manager do not grow when no request of its begins to      *)
(* put and its load and its place in the pool do not grow together.        *)
LEMMA NoMoreClaims ==
    ASSUME TypeOK, TypeOK', NEW m \in Managers,
           Putting(m)' \subseteq Putting(m),
           load'[m] + (IF m \in managers' THEN 1 ELSE 0)
             <= load[m] + (IF m \in managers THEN 1 ELSE 0)
    PROVE  Claims(m)' <= Claims(m)
<1>1. /\ Cardinality(Putting(m)') <= Cardinality(Putting(m))
      /\ Cardinality(Putting(m)') \in Nat /\ Cardinality(Putting(m)) \in Nat
  BY PuttingIsFinite, FS_Subset, FS_CardinalityType
<1>2. load[m] \in Nat /\ load'[m] \in Nat
  BY DEF TypeOK
<1> QED
  BY <1>1, <1>2 DEF Claims

(* A manager that joins gives up the claim of the request that puts it.      *)
LEMMA JoiningTradesClaims ==
    ASSUME TypeOK, TypeOK', NEW r \in Requests, Put(r), PutNew(r),
           NEW m \in Managers
    PROVE  Claims(m)' <= Claims(m)
<1>1. /\ pc[r] = "put" /\ pc' = [pc EXCEPT ![r] = "idle"] /\ who' = who
      /\ load' = load /\ managers' = managers \cup {who[r]}
      /\ who[r] \notin managers
  BY DEF Put, PutNew, Reply
<1>2. Putting(m)' = Putting(m) \ {r}
  BY <1>1 DEF Putting, TypeOK
<1>3. CASE m = who[r]
  <2>1. r \in Putting(m)
    BY <1>1, <1>3 DEF Putting
  <2>2. Cardinality(Putting(m)') = Cardinality(Putting(m)) - 1
    BY <1>2, <2>1, PuttingIsFinite, FS_RemoveElement
  <2>3. load[m] \in Nat /\ Cardinality(Putting(m)) \in Nat
    BY PuttingIsFinite DEF TypeOK
  <2> QED
    BY <1>1, <1>3, <2>2, <2>3 DEF Claims
<1>4. CASE m # who[r]
  <2>1. load'[m] = load[m] /\ (m \in managers' <=> m \in managers) /\ load[m] \in Nat
    BY <1>1, <1>4 DEF TypeOK
  <2> QED
    BY <1>2, <2>1, NoMoreClaims
<1> QED
  BY <1>3, <1>4

(* A request that passes the check of the load finds it below the limit:     *)
(* the claims are bounded by what the other requests and a place add.      *)
LEMMA CheckedClaims ==
    ASSUME TypeOK, TypeOK', NEW m \in Managers, load' = load, load[m] < MaxProblems
    PROVE  Claims(m)' <= MaxProblems + Cardinality(Requests)
<1>1. Putting(m)' \in SUBSET Requests
  BY DEF Putting
<1>2. /\ Cardinality(Putting(m)') <= Cardinality(Requests)
      /\ Cardinality(Putting(m)') \in Nat /\ Cardinality(Requests) \in Nat
  BY <1>1, FS_Subset, FS_CardinalityType
<1>3. load[m] \in Nat /\ load'[m] < MaxProblems
  BY DEF TypeOK
<1> QED
  BY <1>2, <1>3 DEF Claims

LEMMA StepOverload ==
    ASSUME TypeOK, TypeOK', QueueIsSet, OverloadIsBounded, [Next]_vars
    PROVE  OverloadIsBounded'
<1> SUFFICES ASSUME NEW m \in Managers
             PROVE  Claims(m)' <= MaxProblems + Cardinality(Requests)
  BY DEF OverloadIsBounded, Claims
<1>0. /\ Claims(m) <= MaxProblems + Cardinality(Requests)
      /\ load[m] \in Nat /\ load'[m] \in Nat
      /\ Cardinality(Putting(m)) \in Nat /\ Cardinality(Putting(m)') \in Nat
      /\ Cardinality(Requests) \in Nat
  <2>1. Putting(m)' \in SUBSET Requests
    BY DEF Putting
  <2> QED
    BY <2>1, PuttingIsFinite, RequestsAreFinite, FS_Subset, FS_CardinalityType
       DEF OverloadIsBounded, Claims, TypeOK
<1>00. Claims(m) \in Nat /\ Claims(m)' \in Nat
  BY <1>0 DEF Claims
<1>1. ASSUME Claims(m)' <= Claims(m)
      PROVE  Claims(m)' <= MaxProblems + Cardinality(Requests)
  BY <1>0, <1>00, <1>1
<1>2. ASSUME NEW r \in Requests, NEW n \in Managers, Ask(r, n)
      PROVE  Claims(m)' <= Claims(m)
  <2>1. Putting(m)' \subseteq Putting(m)
    BY <1>2 DEF Ask, Putting, TypeOK
  <2> QED
    BY <1>0, <1>2, <2>1, NoMoreClaims DEF Ask, pool
<1>3. ASSUME NEW r \in Requests, Check(r)
      PROVE  Claims(m)' <= MaxProblems + Cardinality(Requests)
  <2>1. load' = load /\ managers' = managers /\ who' = who
    BY <1>3, Zenon DEF Check, Reply, pool
  <2>2. CASE m = who[r] /\ CanTakeProblem(m)
    BY <2>1, <2>2, CheckedClaims DEF CanTakeProblem
  <2>3. CASE m # who[r] \/ ~CanTakeProblem(m)
    <3>1. Putting(m)' \subseteq Putting(m)
      BY <1>3, <2>3 DEF Check, Reply, Putting, TypeOK
    <3> QED
      BY <1>0, <1>1, <2>1, <3>1, NoMoreClaims
  <2> QED
    BY <2>2, <2>3
<1>4. ASSUME NEW r \in Requests, Put(r)
      PROVE  Claims(m)' <= Claims(m)
  <2>1. CASE PutNew(r)
    BY <1>4, <2>1, JoiningTradesClaims
  <2>2. CASE ~PutNew(r)
    <3>1. \E a \in {"ok", "capacity"} : Reply(r, a)
      BY <1>4, Zenon DEF Put, PutNew
    <3>2. load' = load /\ managers' = managers
      BY <1>4, <2>2, Zenon DEF Put, pool
    <3>3. Putting(m)' \subseteq Putting(m)
      BY <3>1 DEF Reply, Putting, TypeOK
    <3> QED
      BY <1>0, <3>2, <3>3, NoMoreClaims
  <2> QED
    BY <2>1, <2>2
<1>5. CASE Assign
  <2>1. Putting(m)' \subseteq Putting(m)
    BY <1>5 DEF Assign, requests, Putting
  <2>2. /\ queue # <<>> /\ Head(queue) \in managers
        /\ managers' = managers \ {Head(queue)}
        /\ load' = [load EXCEPT ![Head(queue)] = @ + 1]
    BY <1>5 DEF Assign, Get, TypeOK, QueueIsSet, InQueue
  <2>3. load'[m] + (IF m \in managers' THEN 1 ELSE 0)
          <= load[m] + (IF m \in managers THEN 1 ELSE 0)
    <3>1. CASE m = Head(queue)
      <4>1. load'[m] = load[m] + 1 /\ m \in managers /\ m \notin managers'
        BY <2>2, <3>1 DEF TypeOK
      <4> QED
        BY <1>0, <4>1
    <3>2. CASE m # Head(queue)
      <4>1. load'[m] = load[m] /\ (m \in managers <=> m \in managers')
        BY <2>2, <3>2 DEF TypeOK
      <4> QED
        BY <1>0, <4>1
    <3> QED
      BY <3>1, <3>2
  <2> QED
    BY <1>1, <2>1, <2>3, NoMoreClaims
<1>6. CASE Close \/ (\E n \in Managers : Resolve(n)) \/ UNCHANGED vars
  <2>1. Putting(m)' \subseteq Putting(m)
    BY <1>6 DEF Close, Resolve, vars, requests, Putting
  <2>2. load'[m] <= load[m] /\ managers' \subseteq managers
    <3>1. CASE Close
      BY <1>0, <3>1 DEF Close
    <3>2. ASSUME NEW n \in Managers, Resolve(n)
          PROVE  load'[m] <= load[m] /\ managers' \subseteq managers
      <4>1. load[n] \in Nat /\ load' = [load EXCEPT ![n] = load[n] - 1]
        BY <3>2 DEF Resolve, TypeOK
      <4>2. load'[m] = load[m] \/ (m = n /\ load'[m] = load[m] - 1)
        BY <4>1 DEF TypeOK
      <4> QED
        BY <1>0, <3>2, <4>2 DEF Resolve, pool
    <3>3. CASE UNCHANGED vars
      BY <1>0, <3>3 DEF vars, pool
    <3> QED
      BY <1>6, <3>1, <3>2, <3>3
  <2>3. load'[m] + (IF m \in managers' THEN 1 ELSE 0)
          <= load[m] + (IF m \in managers THEN 1 ELSE 0)
    BY <1>0, <2>2
  <2> QED
    BY <1>1, <2>1, <2>3, NoMoreClaims
<1> QED
  BY <1>1, <1>2, <1>3, <1>4, <1>5, <1>6 DEF Next

-----------------------------------------------------------------------------
(* The invariant and what follows from it.                                 *)

(* The invariant of the pool and its requests. *)
THEOREM PoolInvariant == Spec => []PoolInv
<1>1. Init => PoolInv
  BY InitOK
<1>2. PoolInv /\ [Next]_vars => PoolInv'
  BY StepTypeOK, StepQueue, StepOverload DEF PoolInv
<1> QED
  BY <1>1, <1>2, PTL DEF Spec

(* Queue and set agree, whatever the capacity. *)
THEOREM PoolQueueIsSet == Spec => []QueueIsSet
<1>1. PoolInv => QueueIsSet
  BY DEF PoolInv
<1> QED
  BY <1>1, PoolInvariant, PTL

(* Stale checks cost one problem per concurrent request at most. *)
THEOREM PoolOverloadIsBounded == Spec => []OverloadIsBounded
<1>1. PoolInv => OverloadIsBounded
  BY DEF PoolInv
<1> QED
  BY <1>1, PoolInvariant, PTL

(* The pool implements the first-come-first-served queue.                   *)
THEOREM PoolImplementsQueue == Spec => ImplementsQueue
<1>1. Init => Queue!Init
  BY DEF Init, Queue!Init
<1>2. PoolInv /\ [Next]_vars => [Queue!Next]_queue
  <2> SUFFICES ASSUME PoolInv, [Next]_vars
               PROVE  Queue!Next \/ queue' = queue
    OBVIOUS
  <2>1. UNCHANGED pool \/ (\E r \in Requests : PutNew(r)) \/ Get \/ Close
    BY Zenon DEF Next, Ask, Check, Put, Resolve, Assign, vars
  <2>2. ASSUME NEW r \in Requests, PutNew(r)
        PROVE  Queue!Next
    <3>1. who[r] \in Managers /\ who[r] \notin InQueue
      BY <2>2 DEF PutNew, PoolInv, TypeOK, QueueIsSet
    <3>2. Queue!Join(who[r])
      BY <2>2, <3>1 DEF PutNew, Enqueue, InQueue, Queue!Join, Queue!Waiting
    <3> QED
      BY <3>1, <3>2 DEF Queue!Next
  <2>3. CASE Get
    BY <2>3 DEF Get, Queue!Next, Queue!Serve
  <2>4. CASE Close
    BY <2>4 DEF Close, Queue!Next, Queue!Dissolve
  <2> QED
    BY <2>1, <2>2, <2>3, <2>4 DEF pool
<1> QED
  BY <1>1, <1>2, PoolInvariant, PTL DEF Spec, ImplementsQueue, Queue!Spec
=============================================================================
