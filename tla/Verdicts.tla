------------------------------ MODULE Verdicts ------------------------------
(***************************************************************************)
(* The processor of AFC verdicts (internal/services/afc-verdicts-processor): *)
(* consumers of one Kafka group that fetch verdicts, apply each of them in *)
(* a database transaction, send what cannot be applied to a dead letter    *)
(* topic and commit offsets batch by batch.                                *)
(*                                                                         *)
(* The group coordinator, the topics and the offsets are external; they    *)
(* are modelled from the calls of FetchMessage, CommitMessages and         *)
(* WriteMessages.  A verdict is named by its partition and offset.         *)
(***************************************************************************)
EXTENDS Naturals, Sequences, FiniteSets

CONSTANTS
    Consumer,     \* the goroutines of Run
    Partition,
    Message,      \* ids a verdict can name
    Known,        \* the messages that exist in the database
    Log,          \* the verdicts of a partition, in order
    BatchSize,    \* Options.processBatchSize
    Retries,      \* Options.retries
    Nobody,       \* a partition that is not assigned
    MaxFaults,    \* bound on crashes and on errors of the database and Kafka
    MaxMoves,     \* bound on rebalances that move a partition
    MaxCancels,   \* bound on cancellations of the context of Run
    MaxFetchErrors \* bound on errors of FetchMessage

Status == {"ok", "suspicious", "other", "garbage"}

ASSUME VerdictsAssumption ==
    /\ Known \subseteq Message
    /\ Log \in [Partition -> Seq([msg : Message, status : Status])]
    /\ BatchSize \in Nat \ {0} /\ Retries \in Nat \ {0}
    /\ Nobody \notin Consumer
    /\ MaxFaults \in Nat /\ MaxMoves \in Nat /\ MaxCancels \in Nat
    /\ MaxFetchErrors \in Nat

VARIABLES
    committed,   \* committed offset of a partition: the verdicts below it are done with
    owner,       \* the consumer a partition is assigned to
    fetched,     \* how far its owner has fetched
    hand,        \* the verdict the fetching goroutine offers on msgCh, or <<>>
    fetcher,     \* the fetching goroutine: "run", "failed" (on errCh) or "gone"
    pc,          \* the consumer: collect, check, process, dlq, commit, exited
    batch,       \* the verdicts collected
    i,           \* index in processBatch
    tries,       \* failed calls of processVerdict for the current verdict
    visible,     \* messages with is_visible_for_manager set
    blocked,     \* messages with is_blocked set
    sentJobs,    \* client-message-sent jobs put for a message
    blockedJobs, \* client-message-blocked jobs put for a message
    applied,     \* how many transactions of a verdict have committed (history)
    dlq,         \* verdicts in the dead letter topic
    dropped,     \* verdicts whose write to it returned an error (history)
    proc,        \* "up", "stopping" (context of Run done), "down"
    faults, moves, cancels, fetchErrors

kafka     == <<committed, owner, fetched>>
consumers == <<hand, fetcher, pc, batch, i, tries>>
tables    == <<visible, blocked, sentJobs, blockedJobs, applied>>
letters   == <<dlq, dropped>>
bounds    == <<faults, moves, cancels, fetchErrors>>
vars      == <<kafka, consumers, tables, letters, proc, bounds>>

Verdict == UNION {{p} \X (1..Len(Log[p])) : p \in Partition}
Of(v) == Log[v[1]][v[2]]

TypeOK ==
    /\ committed \in [Partition -> Nat]
    /\ fetched \in [Partition -> Nat]
    /\ \A p \in Partition : committed[p] <= Len(Log[p]) /\ fetched[p] <= Len(Log[p])
    /\ owner \in [Partition -> Consumer \cup {Nobody}]
    /\ hand \in [Consumer -> Verdict \cup {<<>>}]
    /\ fetcher \in [Consumer -> {"run", "failed", "gone"}]
    /\ pc \in [Consumer -> {"collect", "check", "process", "dlq", "commit", "exited"}]
    /\ batch \in [Consumer -> Seq(Verdict)]
    /\ \A c \in Consumer : Len(batch[c]) <= BatchSize
    /\ i \in [Consumer -> Nat] /\ tries \in [Consumer -> 0..Retries]
    /\ visible \subseteq Message /\ blocked \subseteq Message
    /\ sentJobs \in [Message -> Nat] /\ blockedJobs \in [Message -> Nat]
    /\ applied \in [Verdict -> Nat]
    /\ dlq \subseteq Verdict /\ dropped \subseteq Verdict
    /\ proc \in {"up", "stopping", "down"}
    /\ faults \in 0..MaxFaults /\ moves \in 0..MaxMoves
    /\ cancels \in 0..MaxCancels /\ fetchErrors \in 0..MaxFetchErrors

EveryConsumer(x) == [c \in Consumer |-> x]

Init ==
    /\ committed = [p \in Partition |-> 0] /\ fetched = [p \in Partition |-> 0]
    /\ owner = [p \in Partition |-> Nobody]
    /\ hand = EveryConsumer(<<>>) /\ fetcher = EveryConsumer("run")
    /\ pc = EveryConsumer("collect") /\ batch = EveryConsumer(<<>>)
    /\ i = EveryConsumer(0) /\ tries = EveryConsumer(0)
    /\ visible = {} /\ blocked = {}
    /\ sentJobs = [m \in Message |-> 0] /\ blockedJobs = [m \in Message |-> 0]
    /\ applied = [v \in Verdict |-> 0]
    /\ dlq = {} /\ dropped = {}
    /\ proc = "up"
    /\ faults = 0 /\ moves = 0 /\ cancels = 0 /\ fetchErrors = 0

GoTo(c, l) == pc' = [pc EXCEPT ![c] = l]
Fault == faults < MaxFaults /\ faults' = faults + 1

-----------------------------------------------------------------------------
(* The consumer group.  A partition is read from its committed offset by   *)
(* its new owner; what the old one has fetched stays with the old one.     *)

Assign(p, c) ==
    /\ owner' = [owner EXCEPT ![p] = c]
    /\ fetched' = [fetched EXCEPT ![p] = committed[p]]
    /\ UNCHANGED committed

Join(p, c) ==
    /\ proc # "down" /\ owner[p] = Nobody /\ pc[c] # "exited"
    /\ Assign(p, c)
    /\ UNCHANGED <<consumers, tables, letters, proc, bounds>>

Rebalance(p, c) ==
    /\ owner[p] \notin {Nobody, c} /\ pc[c] # "exited"
    /\ moves < MaxMoves /\ moves' = moves + 1
    /\ Assign(p, c)
    /\ UNCHANGED <<consumers, tables, letters, proc, faults, cancels, fetchErrors>>

-----------------------------------------------------------------------------
(* processMessages: the fetching goroutine ...                             *)

Fetch(c) ==
    /\ fetcher[c] = "run" /\ hand[c] = <<>> /\ pc[c] # "exited"
    /\ \E p \in Partition :
        /\ owner[p] = c /\ fetched[p] < Len(Log[p])
        /\ fetched' = [fetched EXCEPT ![p] = @ + 1]
        /\ hand' = [hand EXCEPT ![c] = <<p, fetched[p] + 1>>]
    /\ UNCHANGED <<committed, owner, fetcher, pc, batch, i, tries, tables, letters,
                   proc, bounds>>

(* FetchMessage returns an error, that of its done context included. *)
FetchFails(c) ==
    /\ fetcher[c] = "run" /\ hand[c] = <<>> /\ pc[c] # "exited"
    /\ \/ proc = "stopping" /\ UNCHANGED fetchErrors
       \/ fetchErrors < MaxFetchErrors /\ fetchErrors' = fetchErrors + 1
    /\ fetcher' = [fetcher EXCEPT ![c] = "failed"]
    /\ UNCHANGED <<kafka, hand, pc, batch, i, tries, tables, letters, proc,
                   faults, moves, cancels>>

(* ... and the loop that collects a batch, by size or by time.             *)

(* Mutant: a slice that is built from the front. *)
PutFirst(b, v) == <<v>> \o b
AppendTo(b, v) == Append(b, v)

Collect(c) ==
    /\ pc[c] = "collect" /\ hand[c] # <<>>
    /\ batch' = [batch EXCEPT ![c] = AppendTo(@, hand[c])]
    /\ hand' = [hand EXCEPT ![c] = <<>>]
    /\ IF Len(batch'[c]) = BatchSize THEN GoTo(c, "check") ELSE UNCHANGED pc
    /\ UNCHANGED <<kafka, fetcher, i, tries, tables, letters, proc, bounds>>

(* An empty batch is processed and committed to no effect. *)
EmptyBatch(c) ==
    /\ pc[c] = "collect" /\ hand[c] = <<>> /\ batch[c] = <<>> /\ proc = "up"
    /\ UNCHANGED vars

BatchTimeout(c) ==
    /\ pc[c] = "collect"
    /\ batch[c] # <<>> \/ proc = "stopping"
    /\ GoTo(c, "check")
    /\ UNCHANGED <<kafka, hand, fetcher, batch, i, tries, tables, letters, proc, bounds>>

(* processMessages returns nil and the reader is closed: the consumer is   *)
(* gone for the life of the process, and its partitions are given up.      *)
Leave(c) ==
    /\ GoTo(c, "exited")
    /\ fetcher' = [fetcher EXCEPT ![c] = "gone"]
    /\ hand' = [hand EXCEPT ![c] = <<>>]
    /\ batch' = [batch EXCEPT ![c] = <<>>]
    /\ owner' = [p \in Partition |-> IF owner[p] = c THEN Nobody ELSE owner[p]]
    /\ UNCHANGED <<committed, fetched, i, tries>>

SeeFetchError(c) ==
    /\ pc[c] = "collect" /\ fetcher[c] = "failed"
    /\ Leave(c)
    /\ UNCHANGED <<tables, letters, proc, bounds>>

CheckContext(c) ==
    /\ pc[c] = "check"
    /\ IF proc = "stopping" THEN Leave(c)
       ELSE /\ GoTo(c, IF batch[c] = <<>> THEN "collect" ELSE "process")
            /\ i' = [i EXCEPT ![c] = 1] /\ tries' = [tries EXCEPT ![c] = 0]
            /\ UNCHANGED <<kafka, hand, fetcher, batch>>
    /\ UNCHANGED <<tables, letters, proc, bounds>>

-----------------------------------------------------------------------------
(* processBatch, for the verdict at index i.                               *)

Current(c) == batch[c][i[c]]

(* On to the next verdict of the batch, or to its commit. *)
Advance(c) ==
    /\ GoTo(c, IF i[c] = Len(batch[c]) THEN "commit" ELSE "process")
    /\ i' = [i EXCEPT ![c] = @ + 1]
    /\ tries' = [tries EXCEPT ![c] = 0]

Applicable(v) == Of(v).status \in {"ok", "suspicious"}

(* What the transaction of processVerdict does: the flag of the message    *)
(* and the job that tells its author.                                      *)
ApplyVerdict(v) ==
    LET m == Of(v).msg IN
    /\ IF Of(v).status = "ok"
       THEN /\ visible' = visible \cup {m}
            /\ sentJobs' = [sentJobs EXCEPT ![m] = @ + 1]
            /\ UNCHANGED <<blocked, blockedJobs>>
       ELSE /\ blocked' = blocked \cup {m}
            /\ blockedJobs' = [blockedJobs EXCEPT ![m] = @ + 1]
            /\ UNCHANGED <<visible, sentJobs>>
    /\ applied' = [applied EXCEPT ![v] = @ + 1]

(* decodeMsg fails, or the status is neither ok nor suspicious. *)
Reject(c) ==
    /\ pc[c] = "process" /\ ~Applicable(Current(c))
    /\ GoTo(c, "dlq")
    /\ UNCHANGED <<kafka, hand, fetcher, batch, i, tries, tables, letters, proc, bounds>>

Apply(c) ==
    /\ pc[c] = "process" /\ proc = "up"
    /\ Applicable(Current(c)) /\ Of(Current(c)).msg \in Known
    /\ ApplyVerdict(Current(c))
    /\ Advance(c)
    /\ UNCHANGED <<kafka, hand, fetcher, batch, letters, proc, bounds>>

LastTry(c) == tries[c] + 1 = Retries

(* Mutant: the flag is set outside the transaction that puts the job. *)
FlagOnly(v) ==
    /\ IF Of(v).status = "ok"
       THEN visible' = visible \cup ({Of(v).msg} \cap Known) /\ UNCHANGED blocked
       ELSE blocked' = blocked \cup ({Of(v).msg} \cap Known) /\ UNCHANGED visible
    /\ UNCHANGED <<sentJobs, blockedJobs, applied>>
RolledBack(v) == UNCHANGED tables

(* processVerdict fails: an unknown message, a done context or a database  *)
(* error.  The transaction may have been committed all the same; a COMMIT  *)
(* that the end of the context interrupts counts as such an error.         *)
ApplyFails(c) ==
    /\ pc[c] = "process" /\ Applicable(Current(c))
    /\ \/ /\ Of(Current(c)).msg \notin Known \/ proc = "stopping"
          /\ RolledBack(Current(c)) /\ UNCHANGED faults
       \/ Fault /\ RolledBack(Current(c))
       \/ Fault /\ Of(Current(c)).msg \in Known /\ ApplyVerdict(Current(c))
    /\ tries' = [tries EXCEPT ![c] = @ + 1]
    /\ GoTo(c, IF LastTry(c) THEN "dlq" ELSE "process")
    /\ UNCHANGED <<kafka, hand, fetcher, batch, i, letters, proc, moves, cancels,
                   fetchErrors>>

(* WriteMessages returns nil, which it may also do once the context is     *)
(* done.                                                                   *)
WriteDlq(c) ==
    /\ pc[c] = "dlq"
    /\ dlq' = dlq \cup {Current(c)}
    /\ Advance(c)
    /\ UNCHANGED <<kafka, hand, fetcher, batch, tables, dropped, proc, bounds>>

(* It returns an error: that is logged, and the verdict is committed with  *)
(* its batch.  The record may be in the topic all the same: it is queued   *)
(* before the context is looked at, and is written then or by the time     *)
(* dlqWriter.Close has flushed it, if the process lives that long.         *)
WriteDlqFails(c) ==
    /\ pc[c] = "dlq"
    /\ IF proc = "up" THEN Fault ELSE UNCHANGED faults
    /\ dropped' = dropped \cup {Current(c)}
    /\ dlq' = dlq \/ dlq' = dlq \cup {Current(c)}
    /\ Advance(c)
    /\ UNCHANGED <<kafka, hand, fetcher, batch, tables, proc, moves, cancels,
                   fetchErrors>>

-----------------------------------------------------------------------------
(* CommitMessages.                                                         *)

OffsetsIn(b, p) == {b[x][2] : x \in {y \in 1..Len(b) : b[y][1] = p}}
Highest(S) == CHOOSE x \in S : \A y \in S : y <= x

(* Mutant: what was fetched is committed, not what was processed. *)
CommitFetched(c) == [p \in Partition |-> IF owner[p] = c THEN fetched[p] ELSE committed[p]]

(* The offset of each partition in the batch is overwritten, also when the *)
(* partition has moved to a consumer that is further on.                   *)
CommitBatch(c) ==
    [p \in Partition |-> IF OffsetsIn(batch[c], p) = {} THEN committed[p]
                         ELSE Highest(OffsetsIn(batch[c], p))]

(* Mutant: `messages = messages[:0]' is forgotten. *)
KeepBatch(c) == UNCHANGED batch
NewBatch(c) == batch' = [batch EXCEPT ![c] = <<>>]

(* The commit is made, or refused by the coordinator after a rebalance, or *)
(* fails with an error or a done context; the consumer goes on regardless. *)
CommitMessages(c) ==
    /\ pc[c] = "commit"
    /\ \/ committed' = CommitBatch(c) /\ UNCHANGED faults
       \/ /\ \/ proc = "stopping"
             \/ \E x \in 1..Len(batch[c]) : owner[batch[c][x][1]] # c
          /\ UNCHANGED <<committed, faults>>
       \/ Fault /\ UNCHANGED committed
    /\ NewBatch(c)
    /\ GoTo(c, "collect")
    /\ UNCHANGED <<owner, fetched, hand, fetcher, i, tries, tables, letters, proc,
                   moves, cancels, fetchErrors>>

-----------------------------------------------------------------------------
(* The process.                                                            *)

Cancel ==
    /\ proc = "up" /\ cancels < MaxCancels
    /\ cancels' = cancels + 1 /\ proc' = "stopping"
    /\ UNCHANGED <<kafka, consumers, tables, letters, faults, moves, fetchErrors>>

Unassign == owner' = [p \in Partition |-> Nobody] /\ UNCHANGED <<committed, fetched>>

(* Run has returned, or the process has died. *)
Down ==
    /\ \/ /\ proc = "stopping" /\ \A c \in Consumer : pc[c] = "exited"
          /\ UNCHANGED faults
       \/ proc # "down" /\ Fault
    /\ proc' = "down"
    /\ Unassign
    /\ hand' = EveryConsumer(<<>>) /\ fetcher' = EveryConsumer("gone")
    /\ pc' = EveryConsumer("exited") /\ batch' = EveryConsumer(<<>>)
    /\ UNCHANGED <<i, tries, tables, letters, moves, cancels, fetchErrors>>

Start ==
    /\ proc = "down" /\ proc' = "up"
    /\ hand' = EveryConsumer(<<>>) /\ fetcher' = EveryConsumer("run")
    /\ pc' = EveryConsumer("collect") /\ batch' = EveryConsumer(<<>>)
    /\ i' = EveryConsumer(0) /\ tries' = EveryConsumer(0)
    /\ UNCHANGED <<kafka, tables, letters, bounds>>

Work(c) ==
    \/ Fetch(c) \/ FetchFails(c) \/ Collect(c) \/ EmptyBatch(c) \/ BatchTimeout(c)
    \/ SeeFetchError(c) \/ CheckContext(c)
    \/ Reject(c) \/ Apply(c) \/ ApplyFails(c) \/ WriteDlq(c) \/ WriteDlqFails(c)
    \/ CommitMessages(c)

Next ==
    \/ \E p \in Partition, c \in Consumer : Join(p, c) \/ Rebalance(p, c)
    \/ \E c \in Consumer : Work(c)
    \/ Cancel \/ Down \/ Start

Spec == Init /\ [][Next]_vars

(***************************************************************************)
(* Goroutines run, Kafka assigns a free partition to a consumer that is    *)
(* there, the process is restarted.  Each fault is possible, none is       *)
(* forced.                                                                 *)
(***************************************************************************)
Progress(c) ==
    \/ Fetch(c) \/ Collect(c) \/ BatchTimeout(c) \/ SeeFetchError(c)
    \/ CheckContext(c) \/ Reject(c) \/ Apply(c) \/ ApplyFails(c)
    \/ WriteDlq(c) \/ WriteDlqFails(c) \/ CommitMessages(c)
Stop == proc = "stopping" /\ Down

LiveSpec ==
    /\ Spec
    /\ \A c \in Consumer : WF_vars(Progress(c))
    /\ \A p \in Partition : WF_vars(\E c \in Consumer : Join(p, c))
    /\ WF_vars(Stop) /\ WF_vars(Start)

-----------------------------------------------------------------------------
(* Properties.                                                             *)

Settled(v) == applied[v] > 0 \/ v \in dlq \/ v \in dropped

(* A committed offset stands for verdicts that were applied or sent to the *)
(* dead letter topic; the one hole is a failed write to that topic, which  *)
(* processBatch only logs.                                                 *)
CommittedIsSettled ==
    \A v \in Verdict : v[2] <= committed[v[1]] => Settled(v)

(* The verdicts of a partition take effect in their order: none before the *)
(* ones ahead of it, whatever is fetched again after a rebalance.          *)
SettledInOrder ==
    \A v \in Verdict : Settled(v) => \A o \in 1..(v[2] - 1) : Settled(<<v[1], o>>)

(* A message is visible to the manager or blocked exactly when a job to    *)
(* tell its author was put: flag and job share a transaction.              *)
FlagsMatchJobs ==
    \A m \in Message : /\ m \in visible <=> sentJobs[m] > 0
                       /\ m \in blocked <=> blockedJobs[m] > 0

(* A verdict that could be applied gets to the dead letter topic only      *)
(* after Retries failures, or because the service was told to stop: then   *)
(* the tries fail by the done context, and the record may still be sent.   *)
DlqOnlyAfterRetries ==
    \A v \in dlq : Applicable(v) /\ Of(v).msg \in Known => faults >= Retries \/ cancels > 0

(* What a consumer has in hand, and the first of its batch that is left to *)
(* be settled.                                                             *)
Held(c) == {batch[c][x] : x \in 1..Len(batch[c])}
FirstLeft(c) == IF pc[c] \in {"process", "dlq", "commit"} THEN i[c] ELSE 1

(* Where a consumer is in its batch; nobody owns a partition who cannot    *)
(* read it.                                                                *)
Stages ==
    /\ \A c \in Consumer :
           /\ pc[c] = "collect" => Len(batch[c]) < BatchSize
           /\ pc[c] \in {"process", "dlq"} => i[c] \in 1..Len(batch[c])
           /\ pc[c] = "commit" => i[c] = Len(batch[c]) + 1
           /\ pc[c] = "process" => tries[c] < Retries
    /\ proc = "down" => \A p \in Partition : owner[p] = Nobody

(* A consumer has settled its batch up to where it is, holds no verdict    *)
(* without those ahead of it that are not settled, and has passed over     *)
(* none of a partition it owns.                                            *)
NothingSkipped ==
    /\ \A c \in Consumer, v \in Verdict :
           /\ \A x \in 1..Len(batch[c]) :
                  /\ x < FirstLeft(c) => Settled(batch[c][x])
                  /\ v[1] = batch[c][x][1] /\ v[2] < batch[c][x][2] =>
                         Settled(v) \/ \E y \in 1..(x - 1) : batch[c][y] = v
           /\ hand[c] # <<>> /\ v[1] = hand[c][1] /\ v[2] < hand[c][2] =>
                  Settled(v) \/ v \in Held(c)
    /\ \A v \in Verdict :
           v[2] <= fetched[v[1]] /\ owner[v[1]] # Nobody =>
               Settled(v) \/ v \in Held(owner[v[1]]) \/ v = hand[owner[v[1]]]

(* The dead letter is the last resort, also while the context is done; and *)
(* as long as it is not, only a fault makes processVerdict fail on a       *)
(* verdict that can be applied.                                            *)
TriesAreFaults ==
    /\ proc # "up" => cancels > 0 \/ \A c \in Consumer : pc[c] = "exited"
    /\ \A c \in Consumer :
           pc[c] \in {"process", "dlq"} /\ Applicable(Current(c)) /\ Of(Current(c)).msg \in Known =>
               /\ proc = "up" => tries[c] <= faults
               /\ pc[c] = "dlq" => tries[c] >= Retries

(* Without a fault, a cancellation or a rebalance no verdict is applied    *)
(* twice, so its author is told once.                                      *)
Undisturbed == faults + moves + cancels + fetchErrors = 0

UndisturbedIsOnce == Undisturbed => \A v \in Verdict : applied[v] <= 1

(* ... because each verdict is fetched once, is in one place and is not    *)
(* applied while it is there and left to be settled.                       *)
Taken(v) ==
    applied[v] > 0 \/ \E c \in Consumer : v \in Held(c) \/ v = hand[c]

OnePlace ==
    Undisturbed =>
        /\ proc = "up" /\ \A c \in Consumer : fetcher[c] = "run" /\ pc[c] # "exited"
        /\ \A v \in Verdict : Taken(v) => v[2] <= fetched[v[1]] /\ owner[v[1]] # Nobody
        /\ \A c, d \in Consumer :
               /\ \A x \in 1..Len(batch[c]) :
                      /\ \A y \in 1..Len(batch[d]) : batch[c][x] = batch[d][y] => c = d /\ x = y
                      /\ batch[c][x] # hand[d]
                      /\ x >= FirstLeft(c) => applied[batch[c][x]] = 0
               /\ hand[c] # <<>> => applied[hand[c]] = 0 /\ (hand[c] = hand[d] => c = d)

(* The properties with what makes them inductive. *)
VerdictsInv ==
    /\ TypeOK /\ Stages
    /\ NothingSkipped /\ SettledInOrder /\ CommittedIsSettled
    /\ TriesAreFaults /\ DlqOnlyAfterRetries /\ FlagsMatchJobs
    /\ OnePlace /\ UndisturbedIsOnce

(* As long as FetchMessage does not fail for every consumer of a process,  *)
(* every verdict is settled.                                               *)
EveryVerdictSettles == \A v \in Verdict : <>Settled(v)
=============================================================================
