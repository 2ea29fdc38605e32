---------------------------- MODULE OutboxProofs ----------------------------
(***************************************************************************)
(* The outbox's safety properties hold for every number of jobs and        *)
(* workers, every setting of its options and every number of faults.  The  *)
(* inductive invariant is OutboxInv; each lemma below shows that one part  *)
(* of it is preserved by every action.                                     *)
(***************************************************************************)
EXTENDS Outbox, TLAPS

USE OutboxAssumption DEF Owning

(* The initial tables are empty, so every part of the invariant holds. *)
LEMMA InitOutboxInv == Init => OutboxInv
BY DEF Init, OutboxInv, TypeOK, PC, WorkerKnows, EffectsOfAccepted, NoJobLost,
       BuriedOnce, BuriedOnlyAfterMaxAttempts, ReservationHolds,
       ExclusiveHandling, HandledIsDeleted

(* Counting down stays within the range that was counted down from. *)
LEMMA DecRange == ASSUME NEW m \in Nat, NEW n \in 0..m PROVE Dec(n) \in 0..m
BY DEF Dec

(* A reservation is within the range of its column and of the clocks. *)
LEMMA MarkedRange ==
    ASSUME TypeOK, NEW w \in Worker, NEW j \in Job, MarkReserved(j, till[w])
    PROVE  \E r \in 0..(ReserveFor + Skew) :
               /\ till[w] <= r + Skew
               /\ reserve' = [reserve EXCEPT ![j] = r]
BY DEF MarkReserved, Around

(* What every case about Reserve starts from. *)
LEMMA ReserveFacts ==
    ASSUME TypeOK, NEW w \in Worker, Reserve(w)
    PROVE  \E j \in Eligible, r \in 0..(ReserveFor + Skew) :
               /\ j \in Job /\ j \in rows /\ reserve[j] = 0
               /\ till[w] <= r + Skew
               /\ reserve' = [reserve EXCEPT ![j] = r]
               /\ attempts' = [attempts EXCEPT ![j] = @ + 1]
               /\ task' = [task EXCEPT ![w] = j]
               /\ try' = [try EXCEPT ![w] = attempts'[j]]
               /\ pc' = [pc EXCEPT ![w] = "reserved"] /\ till' = till
               /\ UNCHANGED <<accepted, rows, delay, failed, done, proc, faults, cancels>>
<1>1. PICK j \in Eligible :
          /\ MarkReserved(j, till[w])
          /\ task' = [task EXCEPT ![w] = j]
          /\ try' = [try EXCEPT ![w] = attempts'[j]]
    BY DEF Reserve
<1>2. j \in Job /\ j \in rows /\ reserve[j] = 0
    BY <1>1 DEF Eligible, TypeOK
<1>3. pc' = [pc EXCEPT ![w] = "reserved"] /\ till' = till
    BY DEF Reserve, GoTo
<1>4. PICK r \in 0..(ReserveFor + Skew) :
          till[w] <= r + Skew /\ reserve' = [reserve EXCEPT ![j] = r]
    BY <1>1, <1>2, MarkedRange
<1>5. /\ rows' = rows /\ delay' = delay /\ failed' = failed
      /\ attempts' = [attempts EXCEPT ![j] = @ + 1]
    BY <1>1 DEF MarkReserved
<1>6. UNCHANGED <<accepted, done, proc, faults, cancels>>
    BY DEF Reserve
<1> QED
    BY <1>1, <1>2, <1>3, <1>4, <1>5, <1>6

(* Every action keeps the types. *)
LEMMA TypeStep == TypeOK /\ [Next]_vars => TypeOK'
<1> SUFFICES ASSUME TypeOK, [Next]_vars PROVE TypeOK'
    OBVIOUS
<1> USE DEF TypeOK, PC
<1>1. ASSUME NEW j \in Job, NEW d \in 0..MaxDelay, Put(j, d) PROVE TypeOK'
    BY <1>1 DEF Put, CreateJob, workers
<1>2. ASSUME NEW w \in Worker, Step(w) PROVE TypeOK'
  <2>1. CASE Reserve(w)
    BY <2>1, ReserveFacts
  <2>2. CASE Ask(w)
    BY <2>2 DEF Ask, table
  <2>3. CASE Begin(w) \/ NoJobs(w) \/ Wake(w)
    BY <2>3 DEF Begin, NoJobs, Wake, GoTo, table
  <2>4. CASE ReserveFails(w)
    BY <2>4 DEF ReserveFails, Fault, StopOnError, GoTo, table
  <2>5. CASE ExitOnCancel(w)
    BY <2>5 DEF ExitOnCancel, GoTo, table
  <2>6. CASE HandleOk(w)
    BY <2>6 DEF HandleOk, GoTo, table
  <2>7. CASE HandleErr(w)
    BY <2>7 DEF HandleErr, GoTo, table
  <2>8. CASE Delete(w)
    BY <2>8 DEF Delete, DeleteOk, DeleteJob, Fault, GoTo, table
  <2>9. CASE Dlq(w)
    BY <2>9 DEF Dlq, Bury, DlqTx, CreateFailedJob, DeleteJob, StopOnError,
                GoTo, table
  <2>10. CASE DlqFails(w)
    BY <2>10 DEF DlqFails, DlqTx, CreateFailedJob, DeleteJob, Fault, StopOnError,
                 GoTo, table
  <2> QED
    BY <1>2, <2>1, <2>2, <2>3, <2>4, <2>5, <2>6, <2>7, <2>8, <2>9, <2>10 DEF Step
<1>3. CASE Cancel
    BY <1>3 DEF Cancel, table, workers
<1>4. CASE Exit
    BY <1>4 DEF Exit, table, workers
<1>5. CASE Crash
    BY <1>5 DEF Crash, Fault, table
<1>6. CASE Start
    BY <1>6 DEF Start, table
<1>7. CASE Tick
  <2>1. reserve' \in [Job -> 0..(ReserveFor + Skew)]
      BY <1>7, DecRange DEF Tick
  <2>2. delay' \in [Job -> 0..MaxDelay]
      BY <1>7, DecRange DEF Tick
  <2>3. till' \in [Worker -> 0..ReserveFor]
      BY <1>7, DecRange DEF Tick
  <2> QED
      BY <1>7, <2>1, <2>2, <2>3 DEF Tick
<1>8. CASE UNCHANGED vars
    BY <1>8 DEF vars, table, workers
<1> QED
    BY <1>1, <1>2, <1>3, <1>4, <1>5, <1>6, <1>7, <1>8 DEF Next

(* The outbox's variables keep their types. *)
THEOREM OutboxTypeCorrect == Spec => []TypeOK
<1>1. Init => TypeOK
    BY InitOutboxInv DEF OutboxInv
<1> QED
    BY <1>1, TypeStep, PTL DEF Spec

-----------------------------------------------------------------------------
(* The parts of the invariant.                                          *)
(* steps that leave the relevant variables alone are taken together.       *)

(* The workers' knowledge survives because attempts, accepted and done     *)
(* only grow.                                                              *)
LEMMA WorkerKnowsStep ==
    TypeOK /\ WorkerKnows /\ [Next]_vars => WorkerKnows'
<1> SUFFICES ASSUME TypeOK, WorkerKnows, [Next]_vars PROVE WorkerKnows'
    OBVIOUS
<1> USE DEF TypeOK, PC, WorkerKnows, AttemptsUsedUp
<1>1. ASSUME NEW j \in Job, NEW d \in 0..MaxDelay, Put(j, d) PROVE WorkerKnows'
    BY <1>1 DEF Put, CreateJob, workers
<1>2. ASSUME NEW w \in Worker, Step(w) PROVE WorkerKnows'
  <2>1. CASE Reserve(w)
    <3>1. PICK j \in Eligible :
              /\ j \in Job /\ j \in rows
              /\ attempts' = [attempts EXCEPT ![j] = @ + 1]
              /\ task' = [task EXCEPT ![w] = j]
              /\ try' = [try EXCEPT ![w] = attempts'[j]]
              /\ pc' = [pc EXCEPT ![w] = "reserved"]
              /\ UNCHANGED <<accepted, done, proc>>
        BY <2>1, ReserveFacts
    <3>2. /\ attempts' \in [Job -> Nat]
          /\ \A i \in Job : attempts[i] <= attempts'[i]
        BY <3>1
    <3>3. proc # "down"
        BY <2>1 DEF Reserve
    <3> QED
        BY <3>1, <3>2, <3>3
  <2>2. CASE Ask(w) \/ NoJobs(w) \/ Wake(w) \/ HandleErr(w)
    BY <2>2 DEF Ask, NoJobs, Wake, HandleErr, GoTo, table
  <2>3. CASE Begin(w)
    BY <2>3 DEF Begin, GoTo, table
  <2>7. CASE ReserveFails(w) \/ ExitOnCancel(w)
    BY <2>7 DEF ReserveFails, ExitOnCancel, StopOnError, GoTo, table
  <2>4. CASE HandleOk(w)
    BY <2>4 DEF HandleOk, GoTo, table
  <2>5. CASE Delete(w)
    BY <2>5 DEF Delete, DeleteOk, GoTo, table
  <2>6. CASE Dlq(w) \/ DlqFails(w)
    BY <2>6 DEF Dlq, Bury, DlqTx, DlqFails, StopOnError, GoTo, table
  <2> QED
    BY <1>2, <2>1, <2>2, <2>3, <2>4, <2>5, <2>6, <2>7 DEF Step
<1>3. CASE Cancel \/ Exit \/ Crash \/ Start \/ Tick
    BY <1>3 DEF Cancel, Exit, Crash, Start, Tick, table, workers
<1>4. CASE UNCHANGED vars
    BY <1>4 DEF vars, table, workers
<1> QED
    BY <1>1, <1>2, <1>3, <1>4 DEF Next

(* The conjuncts that relate the tables to the history.  Rows appear only   *)
(* in Put and disappear only in Delete and Bury.                            *)
TablesInv ==
    EffectsOfAccepted /\ NoJobLost /\ BuriedOnce /\ BuriedOnlyAfterMaxAttempts

(* What a row's disappearance leaves behind agrees with the history. *)
LEMMA TablesStep ==
    TypeOK /\ WorkerKnows /\ TablesInv /\ [Next]_vars => TablesInv'
<1> SUFFICES ASSUME TypeOK, WorkerKnows, TablesInv, [Next]_vars PROVE TablesInv'
    OBVIOUS
<1> USE DEF TypeOK, PC, TablesInv, EffectsOfAccepted, NoJobLost, BuriedOnce,
            BuriedOnlyAfterMaxAttempts
<1>1. ASSUME NEW j \in Job, NEW d \in 0..MaxDelay, Put(j, d) PROVE TablesInv'
    BY <1>1 DEF Put, CreateJob
<1>2. ASSUME NEW w \in Worker, Step(w) PROVE TablesInv'
  <2>1. CASE Reserve(w)
    BY <2>1, ReserveFacts
  <2>2. CASE Ask(w) \/ Begin(w) \/ NoJobs(w) \/ Wake(w) \/ ReserveFails(w)
             \/ ExitOnCancel(w) \/ HandleErr(w)
    BY <2>2 DEF Ask, Begin, NoJobs, Wake, ReserveFails, ExitOnCancel, HandleErr, table
  <2>3. CASE HandleOk(w)
    BY <2>3 DEF HandleOk, WorkerKnows, table
  <2>4. CASE Delete(w)
    BY <2>4 DEF Delete, DeleteOk, DeleteJob, WorkerKnows, table
  <2>5. CASE Dlq(w) \/ DlqFails(w)
    <3>1. CASE DlqTx(w)
      <4>1. task[w] \in Registered => MaxAttempts <= attempts[task[w]]
          BY <2>5 DEF Dlq, DlqFails, WorkerKnows, AttemptsUsedUp
      <4>2. UNCHANGED <<accepted, done>>
          BY <2>5 DEF Dlq, DlqFails
      <4> QED
          BY <3>1, <4>1, <4>2 DEF DlqTx, CreateFailedJob, DeleteJob
    <3>2. CASE ~DlqTx(w)
        BY <2>5, <3>2 DEF Dlq, Bury, DlqFails, table
    <3> QED
        BY <3>1, <3>2
  <2> QED
    BY <1>2, <2>1, <2>2, <2>3, <2>4, <2>5 DEF Step
<1>3. CASE Cancel \/ Exit \/ Crash \/ Start \/ Tick
    BY <1>3 DEF Cancel, Exit, Crash, Start, Tick, table
<1>4. CASE UNCHANGED vars
    BY <1>4 DEF vars, table
<1> QED
    BY <1>1, <1>2, <1>3, <1>4 DEF Next

(* The reservation of a job in hand is shortened only by the clock, which   *)
(* shortens the worker's own count as well, or replaced when it has run out. *)
LEMMA ReservationStep ==
    TypeOK /\ WorkerKnows /\ ReservationHolds /\ [Next]_vars => ReservationHolds'
<1> SUFFICES ASSUME TypeOK, WorkerKnows, ReservationHolds, [Next]_vars,
                    NEW v \in Worker, pc'[v] \in Owning, task'[v] \in rows'
             PROVE  till'[v] <= reserve'[task'[v]] + Skew
    BY DEF ReservationHolds
<1> USE DEF TypeOK, PC, ReservationHolds
<1>1. ASSUME NEW j \in Job, NEW d \in 0..MaxDelay, Put(j, d)
      PROVE  till'[v] <= reserve'[task'[v]] + Skew
    BY <1>1 DEF Put, CreateJob, WorkerKnows, workers
<1>2. ASSUME NEW w \in Worker, Step(w)
      PROVE  till'[v] <= reserve'[task'[v]] + Skew
  <2>1. CASE Reserve(w)
    <3>1. PICK j \in Eligible, r \in 0..(ReserveFor + Skew) :
              /\ j \in Job /\ j \in rows /\ reserve[j] = 0
              /\ till[w] <= r + Skew
              /\ reserve' = [reserve EXCEPT ![j] = r]
              /\ task' = [task EXCEPT ![w] = j]
              /\ pc' = [pc EXCEPT ![w] = "reserved"]
              /\ till' = till /\ rows' = rows
        BY <2>1, ReserveFacts
    <3>2. CASE v = w
        BY <3>1, <3>2
    <3>3. CASE v # w
      <4>1. pc[v] \in Owning /\ task'[v] = task[v] /\ task[v] \in rows
          BY <3>1, <3>3
      <4>2. till[v] <= reserve[task[v]] + Skew
          BY <4>1
      <4> QED
          BY <3>1, <4>1, <4>2
    <3> QED
        BY <3>2, <3>3
  <2>2. CASE Begin(w) \/ HandleOk(w)
    BY <2>2 DEF Begin, HandleOk, GoTo, table
  <2>3. CASE Ask(w) \/ NoJobs(w) \/ Wake(w) \/ ReserveFails(w) \/ ExitOnCancel(w)
    BY <2>3 DEF Ask, NoJobs, Wake, ReserveFails, ExitOnCancel, StopOnError, GoTo, table
  <2>4. CASE HandleErr(w)
    BY <2>4 DEF HandleErr, AttemptsUsedUp, GoTo, table
  <2>5. CASE Delete(w) \/ Dlq(w) \/ DlqFails(w)
    <3>1. pc[v] \in Owning /\ UNCHANGED <<reserve, task>> /\ rows' \subseteq rows
        BY <2>5 DEF Delete, DeleteOk, DeleteJob, Dlq, Bury, DlqTx, DlqFails,
                    StopOnError, GoTo, table
    <3>2. till'[v] = till[v]
        BY <2>5 DEF Delete, Dlq, Bury, DlqFails, StopOnError, GoTo
    <3> QED
        BY <3>1, <3>2
  <2> QED
    BY <1>2, <2>1, <2>2, <2>3, <2>4, <2>5 DEF Step
<1>3. CASE Cancel \/ Exit \/ Crash \/ Start
    BY <1>3 DEF Cancel, Exit, Crash, Start, table, workers
<1>4. CASE Tick
  <2>1. pc[v] \in Owning /\ task'[v] = task[v] /\ task[v] \in rows
      BY <1>4 DEF Tick
  <2>2. till[v] <= reserve[task[v]] + Skew
      BY <2>1
  <2>3. till'[v] = Dec(till[v]) /\ reserve'[task[v]] = Dec(reserve[task[v]])
      BY <1>4, <2>1 DEF Tick
  <2> QED
      BY <2>1, <2>2, <2>3 DEF Dec
<1>5. CASE UNCHANGED vars
    BY <1>5 DEF vars, table, workers
<1> QED
    BY <1>1, <1>2, <1>3, <1>4, <1>5 DEF Next

(* Nobody but Reserve takes a job in hand, and what a worker counts while   *)
(* it has one only goes down.                                               *)
LEMMA InHandBefore ==
    ASSUME TypeOK, [Next]_vars, ~ \E w \in Worker : Reserve(w),
           NEW v \in Worker, pc'[v] \in Owning
    PROVE  pc[v] \in Owning /\ task'[v] = task[v] /\ till'[v] <= till[v]
<1> USE DEF TypeOK, PC
<1>1. ASSUME NEW w \in Worker, Step(w)
      PROVE  pc[v] \in Owning /\ task'[v] = task[v] /\ till'[v] <= till[v]
  <2>1. pc[v] \in Owning /\ task'[v] = task[v]
      BY <1>1 DEF Step, Ask, Begin, NoJobs, Wake, ReserveFails, ExitOnCancel,
                  HandleOk, HandleErr, AttemptsUsedUp, Delete, Dlq, Bury, DlqFails,
                  StopOnError, GoTo
  <2>2. till'[v] <= till[v]
      BY <1>1, <2>1 DEF Step, Ask, Begin, NoJobs, Wake, ReserveFails, ExitOnCancel,
                  HandleOk, HandleErr, Delete, Dlq, Bury, DlqFails, StopOnError, GoTo
  <2> QED
      BY <2>1, <2>2
<1>2. ASSUME NEW j \in Job, NEW d \in 0..MaxDelay, Put(j, d)
      PROVE  pc[v] \in Owning /\ task'[v] = task[v] /\ till'[v] <= till[v]
    BY <1>2 DEF Put, workers
<1>3. CASE Cancel \/ Exit \/ Crash \/ Start
    BY <1>3 DEF Cancel, Exit, Crash, Start, workers
<1>4. CASE Tick
    BY <1>4 DEF Tick, Dec
<1>5. CASE UNCHANGED vars
    BY <1>5 DEF vars, workers
<1> QED
    BY <1>1, <1>2, <1>3, <1>4, <1>5 DEF Next

(* A job that Reserve finds is in the hands of overdue workers only. *)
LEMMA ExclusiveStep ==
    TypeOK /\ ReservationHolds /\ ExclusiveHandling /\ [Next]_vars
        => ExclusiveHandling'
<1> SUFFICES ASSUME TypeOK, ReservationHolds, ExclusiveHandling, [Next]_vars,
                    NEW u \in Worker, NEW v \in Worker, u # v,
                    pc'[u] \in Owning, pc'[v] \in Owning, task'[u] = task'[v]
             PROVE  till'[u] <= Skew \/ till'[v] <= Skew
    BY DEF ExclusiveHandling, Overdue
<1>1. ASSUME NEW w \in Worker, Reserve(w)
      PROVE  till'[u] <= Skew \/ till'[v] <= Skew
  <2>1. PICK j \in Eligible :
            /\ j \in rows /\ reserve[j] = 0
            /\ task' = [task EXCEPT ![w] = j]
            /\ pc' = [pc EXCEPT ![w] = "reserved"]
            /\ till' = till
      BY <1>1, ReserveFacts
  <2>2. ASSUME NEW x \in Worker, x # w, pc'[x] \in Owning
        PROVE  /\ pc[x] \in Owning /\ task'[x] = task[x]
               /\ task[x] = j => till'[x] <= Skew
    <3>1. pc[x] \in Owning /\ task'[x] = task[x]
        BY <2>1, <2>2 DEF TypeOK
    <3>2. task[x] = j => till[x] <= reserve[j] + Skew
        BY <2>1, <3>1 DEF ReservationHolds
    <3> QED
        BY <2>1, <3>1, <3>2
  <2>3. task'[w] = j
      BY <2>1 DEF TypeOK
  <2>4. CASE u = w \/ v = w
      BY <2>2, <2>3, <2>4
  <2>5. CASE u # w /\ v # w
      BY <2>1, <2>2, <2>5 DEF ExclusiveHandling, Overdue
  <2> QED
      BY <2>4, <2>5
<1>2. ASSUME ~ \E w \in Worker : Reserve(w)
      PROVE  till'[u] <= Skew \/ till'[v] <= Skew
  <2>1. /\ pc[u] \in Owning /\ task'[u] = task[u] /\ till'[u] <= till[u]
        /\ pc[v] \in Owning /\ task'[v] = task[v] /\ till'[v] <= till[v]
      BY <1>2, InHandBefore
  <2>2. till[u] <= Skew \/ till[v] <= Skew
      BY <2>1 DEF ExclusiveHandling, Overdue
  <2>3. /\ till[u] \in Nat /\ till[v] \in Nat
        /\ till'[u] \in Nat /\ till'[v] \in Nat
      BY TypeStep DEF TypeOK
  <2> QED
      BY <2>1, <2>2, <2>3
<1> QED
    BY <1>1, <1>2

(* Without a crash or a failed DELETE, a worker leaves "delete" only with   *)
(* the row gone.                                                            *)
LEMMA HandledStep ==
    TypeOK /\ WorkerKnows /\ EffectsOfAccepted /\ HandledIsDeleted /\ [Next]_vars
        => HandledIsDeleted'
<1> SUFFICES ASSUME TypeOK, WorkerKnows, EffectsOfAccepted, HandledIsDeleted,
                    [Next]_vars, faults' = 0, NEW i \in done' \cap rows'
             PROVE  \E x \in Worker : pc'[x] = "delete" /\ task'[x] = i
    BY DEF HandledIsDeleted
<1> USE DEF TypeOK, PC, HandledIsDeleted
<1>1. ASSUME NEW j \in Job, NEW d \in 0..MaxDelay, Put(j, d)
      PROVE  \E x \in Worker : pc'[x] = "delete" /\ task'[x] = i
    BY <1>1 DEF Put, CreateJob, EffectsOfAccepted, workers
<1>2. ASSUME NEW w \in Worker, Step(w)
      PROVE  \E x \in Worker : pc'[x] = "delete" /\ task'[x] = i
  <2>1. CASE Ask(w) \/ Reserve(w) \/ Begin(w) \/ NoJobs(w) \/ Wake(w)
             \/ ExitOnCancel(w) \/ HandleErr(w)
    <3>1. /\ done' = done /\ rows' = rows /\ faults = 0
          /\ pc[w] \notin {"delete"}
          /\ \A x \in Worker \ {w} : pc'[x] = pc[x] /\ task'[x] = task[x]
        BY <2>1 DEF Ask, Reserve, MarkReserved, Begin, NoJobs, Wake, ExitOnCancel,
                    HandleErr, GoTo, table
    <3> QED
        BY <3>1
  <2>2. CASE HandleOk(w)
    BY <2>2 DEF HandleOk, GoTo, table
  <2>3. CASE Delete(w)
    <3>1. /\ rows' = rows \ {task[w]} /\ done' = done /\ faults = 0
          /\ \A x \in Worker \ {w} : pc'[x] = pc[x] /\ task'[x] = task[x]
        BY <2>3 DEF Delete, DeleteOk, DeleteJob, Fault, GoTo
    <3> QED
        BY <3>1
  <2>4. CASE Dlq(w) \/ DlqFails(w)
    <3>1. /\ rows' \subseteq rows /\ done' = done /\ faults = 0
          /\ pc[w] = "dlq"
          /\ \A x \in Worker \ {w} : pc'[x] = pc[x] /\ task'[x] = task[x]
        BY <2>4 DEF Dlq, Bury, DlqTx, DlqFails, DeleteJob, Fault, StopOnError, GoTo, table
    <3> QED
        BY <3>1
  <2>5. ~ReserveFails(w)
    BY DEF ReserveFails, Fault
  <2> QED
    BY <1>2, <2>1, <2>2, <2>3, <2>4, <2>5 DEF Step
<1>3. CASE Cancel \/ Exit \/ Tick
    BY <1>3 DEF Cancel, Exit, Tick, table, workers
<1>4. CASE Start
    BY <1>4 DEF Start, WorkerKnows, table
<1>5. ~Crash
    BY DEF Crash, Fault
<1>6. CASE UNCHANGED vars
    BY <1>6 DEF vars, table, workers
<1> QED
    BY <1>1, <1>2, <1>3, <1>4, <1>5, <1>6 DEF Next

-----------------------------------------------------------------------------
(* The theorems.                                                           *)

(* The conjunction of all parts is preserved by every step. *)
LEMMA OutboxInvStep == OutboxInv /\ [Next]_vars => OutboxInv'
<1> SUFFICES ASSUME OutboxInv, [Next]_vars PROVE OutboxInv'
    OBVIOUS
<1>1. TypeOK' /\ WorkerKnows'
    BY TypeStep, WorkerKnowsStep DEF OutboxInv
<1>2. TablesInv'
    BY TablesStep DEF OutboxInv, TablesInv
<1>3. ReservationHolds' /\ ExclusiveHandling'
    BY ReservationStep, ExclusiveStep DEF OutboxInv
<1>4. HandledIsDeleted'
    BY HandledStep DEF OutboxInv
<1> QED
    BY <1>1, <1>2, <1>3, <1>4 DEF OutboxInv, TablesInv

(* The inductive invariant holds in every reachable state. *)
THEOREM OutboxInvariant == Spec => []OutboxInv
BY InitOutboxInv, OutboxInvStep, PTL DEF Spec

(* A job that was put is in the table until it is handled or buried        *)
(* (findAndProcessJob and dlq, under crashes and concurrent workers).      *)
THEOREM JobsAreNeverLost == Spec => []NoJobLost
<1>1. OutboxInv => NoJobLost
    BY DEF OutboxInv
<1> QED
    BY <1>1, OutboxInvariant, PTL

(* The dead letter transaction takes effect at most once for a job. *)
THEOREM JobsAreBuriedOnce == Spec => [](BuriedOnce /\ BuriedOnlyAfterMaxAttempts)
<1>1. OutboxInv => BuriedOnce /\ BuriedOnlyAfterMaxAttempts
    BY DEF OutboxInv
<1> QED
    BY <1>1, OutboxInvariant, PTL

(* Two workers have one job in hand only when one of them is past the end   *)
(* of the reservation it asked for, whatever the query and the handler took. *)
THEOREM HandlersAreExclusive == Spec => []ExclusiveHandling
<1>1. OutboxInv => ExclusiveHandling
    BY DEF OutboxInv
<1> QED
    BY <1>1, OutboxInvariant, PTL

(* A success is followed by the deletion of its row, also during shutdown. *)
THEOREM SuccessesAreDeleted == Spec => []HandledIsDeleted
<1>1. OutboxInv => HandledIsDeleted
    BY DEF OutboxInv
<1> QED
    BY <1>1, OutboxInvariant, PTL

(* Every step of the outbox is a step of its contract or leaves it alone. *)
LEMMA ContractStep ==
    OutboxInv /\ [Next]_vars => [Contract!Next]_(Contract!contractVars)
<1> SUFFICES ASSUME OutboxInv, [Next]_vars
             PROVE  [Contract!Next]_(Contract!contractVars)
    OBVIOUS
<1> USE DEF OutboxInv, TypeOK, PC, Contract!Next, Contract!contractVars
<1>0. failed' = failed => BuriedJobs' = BuriedJobs
    BY DEF BuriedJobs
<1>1. ASSUME NEW j \in Job, NEW d \in 0..MaxDelay, Put(j, d)
      PROVE  Contract!Accept(j)
    BY <1>0, <1>1 DEF Put, CreateJob, Contract!Accept
<1>2. ASSUME NEW w \in Worker, Step(w)
      PROVE  [Contract!Next]_(Contract!contractVars)
  <2>1. CASE Ask(w) \/ Reserve(w) \/ Begin(w) \/ NoJobs(w) \/ Wake(w)
             \/ ReserveFails(w) \/ ExitOnCancel(w) \/ HandleErr(w)
    <3>1. UNCHANGED <<accepted, rows, done, failed>>
      BY <2>1 DEF Ask, Reserve, Begin, NoJobs, Wake, ReserveFails, ExitOnCancel,
                HandleErr, MarkReserved, table
    <3> QED
      BY <1>0, <3>1
  <2>2. CASE HandleOk(w)
    <3>1. Contract!Perform(task[w])
        BY <1>0, <2>2 DEF HandleOk, WorkerKnows, Contract!Perform, table
    <3> QED
        BY <3>1
  <2>3. CASE Delete(w)
    <3>1. task[w] \in done /\ task[w] \in Job /\ UNCHANGED <<accepted, done, failed>>
        BY <2>3 DEF Delete, DeleteOk, WorkerKnows, table
    <3>2. CASE rows' = rows
        BY <1>0, <3>1, <3>2
    <3>3. CASE rows' # rows
      <4>1. rows' = rows \ {task[w]}
          BY <2>3, <3>3 DEF Delete, DeleteOk, DeleteJob, table
      <4>2. task[w] \in rows
          BY <3>3, <4>1
      <4>3. Contract!Complete(task[w])
          BY <1>0, <3>1, <4>1, <4>2 DEF Contract!Complete
      <4> QED
          BY <3>1, <4>3
    <3> QED
        BY <3>2, <3>3
  <2>4. CASE Dlq(w) \/ DlqFails(w)
    <3>1. CASE DlqTx(w)
      <4>1. UNCHANGED <<accepted, done>>
          BY <2>4 DEF Dlq, DlqFails
      <4>2. /\ task[w] \in rows /\ rows' = rows \ {task[w]}
            /\ failed' = [failed EXCEPT ![task[w]] = @ + 1]
          BY <3>1 DEF DlqTx, CreateFailedJob, DeleteJob
      <4>3. BuriedJobs' = BuriedJobs \cup {task[w]}
          BY <4>2 DEF BuriedJobs
      <4>4. Contract!BuryJob(task[w])
          BY <4>1, <4>2, <4>3 DEF Contract!BuryJob
      <4> QED
          BY <4>4
    <3>2. CASE ~DlqTx(w)
        BY <1>0, <2>4, <3>2 DEF Dlq, Bury, DlqFails, table
    <3> QED
        BY <3>1, <3>2
  <2> QED
    BY <1>2, <2>1, <2>2, <2>3, <2>4 DEF Step
<1>3. CASE Cancel \/ Exit \/ Crash \/ Start \/ Tick
    BY <1>0, <1>3 DEF Cancel, Exit, Crash, Start, Tick, table
<1>4. CASE UNCHANGED vars
    BY <1>0, <1>4 DEF vars, table
<1> QED
    BY <1>1, <1>2, <1>3, <1>4 DEF Next

(* The outbox implements OutboxContract. *)
THEOREM OutboxImplementsContract == Spec => ImplementsContract
<1>1. Init => Contract!Init
    BY DEF Init, Contract!Init, BuriedJobs
<1> QED
    BY <1>1, OutboxInvariant, ContractStep, PTL
    DEF Spec, ImplementsContract, Contract!Spec
=============================================================================
