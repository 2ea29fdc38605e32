------------------------------- MODULE Outbox -------------------------------
(***************************************************************************)
(* The transactional outbox: the "jobs" and "failed_jobs" tables and the   *)
(* worker goroutines of outbox.Service that reserve, handle, delete and    *)
(* bury jobs (internal/services/outbox, internal/repositories/jobs).       *)
(*                                                                         *)
(* One SQL statement or one transaction is one action.  The columns        *)
(* available_at and reserved_until, and the worker's own idea of the end   *)
(* of its reservation, are kept as the time left until them, so that the   *)
(* passing of time (Tick) only counts down.  The worker reads its clock    *)
(* before the query (Ask), the database compares with now(): any time may  *)
(* pass in between, and the two clocks may differ.  A handler returns when *)
(* it likes, at its deadline or after it.                                  *)
(***************************************************************************)
EXTENDS Naturals, FiniteSets

CONSTANTS
    Job,          \* identities of job rows
    Registered,   \* the jobs whose name has a handler in Service.jobs
    Worker,       \* worker goroutines of Service.Run
    MaxAttempts,  \* Job.MaxAttempts(), the same for every job (DefaultJob)
    ReserveFor,   \* Options.reserveFor, in ticks
    Skew,         \* bound on the difference of time.Now() and SQL's now()
    MaxDelay,     \* bound on available_at - now() of a job put
    MaxFaults,    \* bound on crashes and database errors
    MaxCancels    \* bound on cancellations of the context of Run

ASSUME OutboxAssumption ==
    /\ Registered \subseteq Job
    /\ MaxAttempts \in Nat \ {0}
    /\ ReserveFor \in Nat \ {0}
    /\ Skew \in Nat
    /\ MaxDelay \in Nat
    /\ MaxFaults \in Nat
    /\ MaxCancels \in Nat

VARIABLES
    accepted,  \* jobs whose Put has committed (history)
    rows,      \* table jobs: the ids present
    attempts,  \* column attempts
    reserve,   \* time left until reserved_until, 0 when it has passed
    delay,     \* time left until available_at, 0 when it has passed
    failed,    \* table failed_jobs: how many rows stand for a job
    done,      \* jobs for which some Handle has returned nil (history)
    proc,      \* "up", "stopping" (context of Run done) or "down"
    pc,        \* where a worker is
    task,      \* the job a worker has reserved
    try,       \* Attempts, as read by the reservation
    till,      \* time left, by a worker's clock, until the end it asked for
    faults,    \* crashes and database errors so far
    cancels    \* cancellations so far

table   == <<rows, attempts, reserve, delay, failed>>
workers == <<pc, task, try, till>>
vars    == <<accepted, table, done, proc, workers, faults, cancels>>

(* A worker has a job in hand from the commit of its reservation on. *)
Owning == {"reserved", "handle", "delete", "dlq"}
PC     == Owning \cup {"poll", "find", "sleep", "exited"}

TypeOK ==
    /\ accepted \subseteq Job
    /\ rows \subseteq accepted
    /\ attempts \in [Job -> Nat]
    /\ reserve \in [Job -> 0..(ReserveFor + Skew)]
    /\ delay \in [Job -> 0..MaxDelay]
    /\ failed \in [Job -> Nat]
    /\ done \subseteq Job
    /\ proc \in {"up", "stopping", "down"}
    /\ pc \in [Worker -> PC]
    /\ task \in [Worker -> Job]
    /\ try \in [Worker -> Nat]
    /\ till \in [Worker -> 0..ReserveFor]
    /\ faults \in 0..MaxFaults
    /\ cancels \in 0..MaxCancels

Init ==
    /\ accepted = {} /\ rows = {} /\ done = {}
    /\ attempts = [j \in Job |-> 0]
    /\ reserve = [j \in Job |-> 0]
    /\ delay = [j \in Job |-> 0]
    /\ failed = [j \in Job |-> 0]
    /\ proc = "up"
    /\ pc = [w \in Worker |-> "poll"]
    /\ task \in [Worker -> Job]      \* meaningless until a job is reserved
    /\ try = [w \in Worker |-> 0]
    /\ till = [w \in Worker |-> 0]
    /\ faults = 0 /\ cancels = 0

-----------------------------------------------------------------------------
(* The statements of internal/repositories/jobs.                           *)

CreateJob(j, d) ==
    /\ rows' = rows \cup {j}
    /\ delay' = [delay EXCEPT ![j] = d]
    /\ UNCHANGED <<attempts, reserve, failed>>

Eligible == {j \in rows : delay[j] = 0 /\ reserve[j] = 0}

(* What is left of `until' by the database's clock. *)
Around(until) ==
    {r \in 0..(ReserveFor + Skew) : r <= until + Skew /\ until <= r + Skew}

(* Mutants of FindAndReserveJob's SET list. *)
MarkReservedForNothing(j, until) ==
    /\ attempts' = [attempts EXCEPT ![j] = @ + 1]
    /\ UNCHANGED <<rows, reserve, delay, failed>>
MarkReservedUncounted(j, until) ==
    /\ \E r \in Around(until) : reserve' = [reserve EXCEPT ![j] = r]
    /\ UNCHANGED <<rows, attempts, delay, failed>>

MarkReserved(j, until) ==
    /\ attempts' = [attempts EXCEPT ![j] = @ + 1]
    /\ \E r \in Around(until) : reserve' = [reserve EXCEPT ![j] = r]
    /\ UNCHANGED <<rows, delay, failed>>

DeleteJob(j) == rows' = rows \ {j}

CreateFailedJob(j) == failed' = [failed EXCEPT ![j] = @ + 1]

-----------------------------------------------------------------------------
(* Service.Put, called from a use case: the row appears when the caller's  *)
(* transaction commits.                                                    *)
Put(j, d) ==
    /\ proc # "down"
    /\ j \notin accepted
    /\ accepted' = accepted \cup {j}
    /\ CreateJob(j, d)
    /\ UNCHANGED <<done, proc, workers, faults, cancels>>

-----------------------------------------------------------------------------
(* The worker goroutine.                                                   *)

(* `till' means something from Ask until the worker lets go of its job. *)
GoTo(w, l) ==
    /\ pc' = [pc EXCEPT ![w] = l]
    /\ till' = IF l \in Owning THEN till ELSE [till EXCEPT ![w] = 0]

(* A crash or a database error, within the bound. *)
Fault == faults < MaxFaults /\ faults' = faults + 1

(* A worker's loop gets an error from processAvailableJobs: it ends, and   *)
(* unless the context was done already its error cancels the whole group.  *)
StopOnError(w) ==
    /\ GoTo(w, "exited")
    /\ proc' = "stopping"
    /\ UNCHANGED <<task, try>>

(* The worker finds its context alive and computes `until'. *)
Ask(w) ==
    /\ pc[w] = "poll" /\ proc = "up"
    /\ pc' = [pc EXCEPT ![w] = "find"]
    /\ till' = [till EXCEPT ![w] = ReserveFor]
    /\ UNCHANGED <<accepted, table, done, proc, task, try, faults, cancels>>

(* FindAndReserveJob's UPDATE takes effect, as late as the pool, the       *)
(* network and the database make it.                                       *)
Reserve(w) ==
    /\ pc[w] = "find"
    /\ \E j \in Eligible :
        /\ MarkReserved(j, till[w])
        /\ task' = [task EXCEPT ![w] = j]
        /\ try' = [try EXCEPT ![w] = attempts'[j]]
    /\ GoTo(w, "reserved")
    /\ UNCHANGED <<accepted, done, proc, faults, cancels>>

(* The row has come back; its name selects the handler. *)
Begin(w) ==
    /\ pc[w] = "reserved"
    /\ GoTo(w, IF task[w] \in Registered THEN "handle" ELSE "dlq")
    /\ UNCHANGED <<accepted, table, done, proc, task, try, faults, cancels>>

(* ErrNoJobs: wait idleTime before the next round.  SKIP LOCKED: a row     *)
(* that is eligible is not seen while another transaction holds it, and    *)
(* that transaction may be rolled back afterwards.                         *)
NoJobs(w) ==
    /\ pc[w] = "find"
    /\ GoTo(w, "sleep")
    /\ UNCHANGED <<accepted, table, done, proc, task, try, faults, cancels>>

Wake(w) ==
    /\ pc[w] = "sleep" /\ proc = "up"
    /\ GoTo(w, "poll")
    /\ UNCHANGED <<accepted, table, done, proc, task, try, faults, cancels>>

(* FindAndReserveJob returns an error, before its UPDATE or after it. *)
ReserveFails(w) ==
    /\ pc[w] \in {"find", "reserved"} /\ proc = "up"
    /\ Fault
    /\ StopOnError(w)
    /\ UNCHANGED <<accepted, table, done, cancels>>

(* The worker sees its context done, between two rounds or by an error of  *)
(* FindAndReserveJob, whose UPDATE may have been committed all the same.   *)
ExitOnCancel(w) ==
    /\ pc[w] \in {"poll", "find", "reserved", "sleep"} /\ proc = "stopping"
    /\ GoTo(w, "exited")
    /\ UNCHANGED <<accepted, table, done, proc, task, try, faults, cancels>>

(* Handle returns nil. *)
HandleOk(w) ==
    /\ pc[w] = "handle"
    /\ done' = done \cup {task[w]}
    /\ GoTo(w, "delete")
    /\ UNCHANGED <<accepted, table, proc, task, try, faults, cancels>>

AttemptsUsedUp(w) == try[w] >= MaxAttempts

(* Handle returns an error, its context's deadline included.  The job is   *)
(* buried or left in the table until its reservation runs out.             *)
HandleErr(w) ==
    /\ pc[w] = "handle"
    /\ GoTo(w, IF AttemptsUsedUp(w) THEN "dlq" ELSE "poll")
    /\ UNCHANGED <<accepted, table, done, proc, task, try, faults, cancels>>

DeleteOk(w) ==
    /\ DeleteJob(task[w])
    /\ UNCHANGED <<attempts, reserve, delay, failed>>

(* DeleteJob after a success.  It uses context.Background(); its error,    *)
(* "not found" when another worker was faster, is only logged.             *)
Delete(w) ==
    /\ pc[w] = "delete"
    /\ GoTo(w, "poll")
    /\ \/ DeleteOk(w) /\ UNCHANGED faults
       \/ Fault /\ UNCHANGED table
    /\ UNCHANGED <<accepted, done, proc, task, try, cancels>>

(* Mutant: two statements, no transaction around them. *)
BuryWithoutTx(w) ==
    /\ CreateFailedJob(task[w])
    /\ DeleteJob(task[w])
    /\ UNCHANGED <<attempts, reserve, delay>>
    /\ IF task[w] \in rows
       THEN GoTo(w, "poll") /\ UNCHANGED <<proc, task, try>>
       ELSE StopOnError(w)
(* Mutant: the row is deleted and the failed job is not recorded. *)
BuryUnrecorded(w) ==
    /\ DeleteJob(task[w])
    /\ GoTo(w, "poll")
    /\ UNCHANGED <<failed, attempts, reserve, delay, proc, task, try>>

(* Service.dlq's transaction: CreateFailedJob and DeleteJob. *)
DlqTx(w) ==
    /\ task[w] \in rows
    /\ CreateFailedJob(task[w])
    /\ DeleteJob(task[w])
    /\ UNCHANGED <<attempts, reserve, delay>>

(* Service.dlq.  DeleteJob's "not found" rolls the transaction back, and   *)
(* the worker stops with it.                                               *)
Bury(w) ==
    \/ DlqTx(w) /\ GoTo(w, "poll") /\ UNCHANGED <<proc, task, try>>
    \/ task[w] \notin rows /\ UNCHANGED table /\ StopOnError(w)

Dlq(w) ==
    /\ pc[w] = "dlq"
    /\ Bury(w)
    /\ UNCHANGED <<accepted, done, faults, cancels>>

(* RunInTx returns an error, because the database or the connection fails  *)
(* or the context is done: COMMIT may have taken effect before it.         *)
DlqFails(w) ==
    /\ pc[w] = "dlq"
    /\ IF proc = "up" THEN Fault ELSE UNCHANGED faults
    /\ UNCHANGED table \/ DlqTx(w)
    /\ StopOnError(w)
    /\ UNCHANGED <<accepted, done, cancels>>

-----------------------------------------------------------------------------
(* The process and the clock.                                              *)

(* SIGTERM, or another runner of main.run's errgroup fails. *)
Cancel ==
    /\ proc = "up"
    /\ cancels < MaxCancels /\ cancels' = cancels + 1
    /\ proc' = "stopping"
    /\ UNCHANGED <<accepted, table, done, workers, faults>>

(* errgroup.Wait returns, and with it the process. *)
Exit ==
    /\ proc = "stopping"
    /\ \A w \in Worker : pc[w] = "exited"
    /\ proc' = "down"
    /\ UNCHANGED <<accepted, table, done, workers, faults, cancels>>

(* The process dies: only the tables survive. *)
Crash ==
    /\ proc # "down"
    /\ Fault
    /\ proc' = "down"
    /\ pc' = [w \in Worker |-> "exited"]
    /\ till' = [w \in Worker |-> 0]
    /\ UNCHANGED <<accepted, table, done, task, try, cancels>>

Start ==
    /\ proc = "down"
    /\ proc' = "up"
    /\ pc' = [w \in Worker |-> "poll"]
    /\ UNCHANGED <<accepted, table, done, task, try, till, faults, cancels>>

Dec(n) == IF n = 0 THEN 0 ELSE n - 1

Tick ==
    /\ reserve' = [j \in Job |-> Dec(reserve[j])]
    /\ delay' = [j \in Job |-> Dec(delay[j])]
    /\ till' = [w \in Worker |-> Dec(till[w])]
    /\ UNCHANGED <<accepted, rows, attempts, failed, done, proc, pc, task, try,
                   faults, cancels>>

Step(w) ==
    \/ Ask(w) \/ Reserve(w) \/ Begin(w) \/ NoJobs(w) \/ Wake(w)
    \/ ReserveFails(w) \/ ExitOnCancel(w)
    \/ HandleOk(w) \/ HandleErr(w)
    \/ Delete(w) \/ Dlq(w) \/ DlqFails(w)

Next ==
    \/ \E j \in Job, d \in 0..MaxDelay : Put(j, d)
    \/ \E w \in Worker : Step(w)
    \/ Cancel \/ Exit \/ Crash \/ Start \/ Tick

Spec == Init /\ [][Next]_vars

(***************************************************************************)
(* Goroutines are scheduled and the database answers; a handler returns,   *)
(* because its context expires; time passes; the process is restarted by   *)
(* whatever runs it.  Faults and cancellations are never forced.  An       *)
(* eligible row hides from the scans only behind transactions that fail:   *)
(* they are finitely many, so if there is a row to find again and again,   *)
(* one is found (strong fairness, of the workers together).                *)
(***************************************************************************)
Fairness ==
    /\ \A w \in Worker : WF_vars(Step(w))
    /\ SF_vars(\E w \in Worker : Reserve(w))
    /\ WF_vars(Tick) /\ WF_vars(Exit) /\ WF_vars(Start)

LiveSpec == Spec /\ Fairness

-----------------------------------------------------------------------------
(* Properties.                                                             *)

(* A job whose Put has committed is not lost: until it has been handled or *)
(* has its row in failed_jobs, it stays in the table (findAndProcessJob    *)
(* deletes a row only after Handle returned nil, dlq only with a failed    *)
(* job), whatever crashes, cancellations and expired reservations do.      *)
NoJobLost ==
    \A j \in accepted : j \in rows \/ j \in done \/ failed[j] > 0

(* dlq is all or nothing, also when several workers own the job at once:   *)
(* a job has one failed_jobs row at most, and none while it can be tried.  *)
BuriedOnce ==
    \A j \in Job : failed[j] <= 1 /\ (failed[j] = 1 => j \notin rows)

(* A job with a handler is buried only after MaxAttempts reservations were *)
(* counted for it.                                                         *)
BuriedOnlyAfterMaxAttempts ==
    \A j \in Registered : failed[j] > 0 => attempts[j] >= MaxAttempts

(* schema/job.go, of reserved_until: "other goroutines will skip it."  Two *)
(* workers have the same job in hand only when the end that one of them    *)
(* asked for has come, up to the difference of the clocks.  So a handler   *)
(* started within d of service.go:120 that honours its timeout has its job *)
(* to itself when reserveFor > d + ExecutionTimeout + the difference.      *)
Overdue(w) == till[w] <= Skew

ExclusiveHandling ==
    \A v, w \in Worker :
        v # w /\ pc[v] \in Owning /\ pc[w] \in Owning /\ task[v] = task[w]
            => Overdue(v) \/ Overdue(w)

(* A handled job whose row is still there is about to be deleted, also     *)
(* while the context is done: only a crash or a failed DELETE lets a       *)
(* success be repeated after the worker has moved on.                      *)
HandledIsDeleted ==
    faults = 0 => \A j \in done \cap rows :
                      \E w \in Worker : pc[w] = "delete" /\ task[w] = j

(* Every job put is finally handled or buried and leaves the table, when   *)
(* crashes, errors and cancellations are finitely many.                    *)
EveryJobSettles ==
    \A j \in Job : j \in accepted ~> j \notin rows /\ (j \in done \/ failed[j] = 1)

(* The inductive invariant behind the ones above.  What a worker that has  *)
(* reserved a job knows about it ...                                       *)
WorkerKnows ==
    \A w \in Worker :
        /\ proc = "down" => pc[w] = "exited"
        /\ pc[w] \in Owning => task[w] \in accepted
        /\ pc[w] = "handle" => task[w] \in Registered
        /\ pc[w] = "delete" => task[w] \in done
        /\ pc[w] \in {"reserved", "handle", "dlq"} => try[w] <= attempts[task[w]]
        /\ pc[w] = "dlq" /\ task[w] \in Registered => AttemptsUsedUp(w)

(* ... that effects are those of jobs put ...                              *)
EffectsOfAccepted ==
    done \subseteq accepted /\ \A j \in Job : failed[j] > 0 => j \in accepted

(* ... and that a job in hand is reserved for as long as its worker asked. *)
ReservationHolds ==
    \A w \in Worker : pc[w] \in Owning /\ task[w] \in rows =>
        till[w] <= reserve[task[w]] + Skew

OutboxInv ==
    /\ TypeOK /\ WorkerKnows /\ EffectsOfAccepted
    /\ NoJobLost /\ BuriedOnce /\ BuriedOnlyAfterMaxAttempts
    /\ ReservationHolds /\ ExclusiveHandling /\ HandledIsDeleted

(* Every step of the tables and the workers is a step of the contract, or  *)
(* none: in particular a row disappears in one step with its reason.       *)
BuriedJobs == {i \in Job : failed[i] > 0}
Contract == INSTANCE OutboxContract
                WITH owed <- rows, performed <- done, buried <- BuriedJobs
ImplementsContract == Contract!Spec

(* outbox/job.go: "MaxAttempts is the maximum number of attempts to run    *)
(* the task."  The code compares after Handle, so an attempt whose outcome *)
(* was lost is followed by another one.                                    *)
HandledAtMostMaxAttempts ==
    \A w \in Worker : pc[w] = "handle" => try[w] <= MaxAttempts
=============================================================================
