# A verification model of the bank chat service

TLA+ modules, TLC runs and TLAPS proofs about the chat service of this
repository. Paths are relative to `src/`. The modules are translated from the
code; where a comment, test or document of the repository says something of its
own, it is quoted.

    tlc -config Outbox.cfg MCOutbox              # any run of the table below
    tlapm OutboxProofs.tla                       # any module of proofs

## 1. The system

One process, `cmd/chat-service`, with PostgreSQL, Kafka and Keycloak around it.
`main.run` builds everything, then runs three HTTP servers, the outbox and the
verdict processor in one errgroup: the first error, SIGINT or SIGTERM ends the
context that all of them share.

A client's message takes this way:

1. `POST /sendMessage` -> **send-message use case**: in one transaction it finds
   or creates chat and open problem, inserts the message, visible to the client
   only, and puts the job `send-client-message` into the outbox.
2. **Outbox**: worker goroutines reserve jobs with `FOR UPDATE SKIP LOCKED`,
   run their handler and delete them. This one writes the message to the Kafka
   topic `chat.messages` (**message producer**) and publishes an event to the
   client's open sessions (**event stream**, read by **websocket** sessions).
3. The anti-fraud service (external) answers on `afc.msg-verdicts`. The **AFC
   verdict processor** marks the message visible to the manager or blocked and
   puts `client-message-sent` or `client-message-blocked`, whose handlers
   publish events again.
4. Managers announce "free hands": **manager load** counts their open problems,
   the **manager pool** queues them. Nothing takes managers from the pool yet.
5. `POST /getHistory` pages through the messages of a chat.

| Component | State | Operations | Hard because | Correct when |
|---|---|---|---|---|
| outbox (`services/outbox`, `repositories/jobs`) | tables `jobs`, `failed_jobs`; workers | `Put`, `Run` (reserve, handle, delete, bury) | reservations that expire, crashes between statements, cancellation, several owners of a job | nothing accepted is lost; buried once, not too early; handled to the end |
| send-message (`usecases/client/send-message`, repositories of chats, problems, messages) | tables `chats`, `problems`, `messages` | `Handle` | check-then-insert, repeated requests, lost commit replies, rollback | one message per request, one open problem per chat, all or nothing |
| event stream (`services/event-stream/in-mem`) | map of user to slice of clients, channels, `closed`, WaitGroup | `Subscribe`, `Publish`, `Close` | slice changed while it is ranged over, slow readers, close against publish | each reader sees a gapless window in order; no double close, no send on closed |
| verdict processor (`services/afc-verdicts-processor`) | offsets, batch, flags of messages | `Run` (fetch, batch, apply, dead letter, commit) | at-least-once delivery, rebalances, retries, errors that are only logged | committed implies settled; order kept; flag and job together |
| websocket (`websocket-stream`) | three goroutines and two deadlines per session | `Serve`, `Close` | who ends whom, closed event channel, shutdown | every session ends and closes its socket once |
| manager pool and load (`services/manager-*`, `usecases/manager`) | queue, set | `Put`, `Get`, `Contains`, `Close`, free hands | capacity, check then act | queue and set agree, first come first served |
| history (`repositories/messages/api_history.go`, `usecases/client/get-history`) | cursor | `GetClientChatMessages` | paging against a growing table, equal timestamps | every message on one page exactly |
| message producer, job handlers (`services/msg-producer`, `services/outbox/jobs`) | the topic `chat.messages` | `ProduceMessage`, three `Handle` | steps of a handler repeated after others succeeded | every stored message is judged, reported or known to have failed |
| author's page (`cmd/ui-client/static/app`), event adapters | the messages on the page | history, answers, events | three sources of one fact, in any order | nothing untrue is shown |
| servers, lifecycle (`internal/server`, `internal/server-debug`, `cmd/chat-service`) | contexts, listeners, requests, what is open | `Run`, `Shutdown`, the deferred calls | shutdown against start, an error of one ends all, requests that do not end | the process ends when it is told to, closes nothing in use, and says whether it failed |
| row store (`internal/store`) | tables `chats`, `problems`, `messages`, `jobs`, `failed_jobs`; the transaction in a context | `RunInTx`; for each entity create, bulk, upsert, update, delete, queries along edges | calls on one builder that act on each other, nested transactions, upserts, required edges | a `Save` does what its mutation says; one that fails does all of it or nothing; constraints hold; immutable fields stay |
| authentication, error handler, configuration, logging, types | none of interest | | | |

The components interact through the tables (send-message and the verdict
processor put jobs in their own transaction), through Kafka, through calls of
`Publish` by job handlers, and through the shared context. `PROJECT.json` lists
every component, and under `hazards` what in this code is hard to test, with the
properties about it or the reason why there is none yet.

## 2. The plan

| # | Module | Of | State |
|---|---|---|---|
| 1 | `Outbox`, `OutboxContract`, `OutboxProofs` | outbox, jobs tables; what it promises; proofs | done |
| 2 | `SendMessage`, `SendMessageProofs` | send-message use case; proofs | done |
| 3 | `EventStream`, `EventStreamProofs` | in-memory event stream; proofs | done |
| 4 | `Verdicts`, `VerdictsProofs` | verdict processor and consumer group; proofs | done |
| 5 | `WebSocket`, `WebSocketProofs` | a session: read loop, write loop, closer, deadlines; proofs | done |
| 6 | `ManagerPool`, `ManagerQueue`, `ManagerPoolProofs` | pool, load and the free-hands request; what the pool promises; proofs | done |
| 7 | `ChatSystem`, `MessageLife`, `ChatSystemProofs` | a message from the request to the author's page, over the contracts of 1 to 5; what its author may know of it; proofs | done |
| 8 | `History`, `SendMessageProofs` | paging while messages arrive; proofs (with those of the requests that write the messages) | done |
| 9 | `Lifecycle`, `EventStreamProofs` | preparation, errgroup of all runners, graceful shutdown; proofs (with those of the stream that the process closes) | done |
| 10 | `EntBuilder`, `StoreChat`, `StoreProblem`, `StoreMessage`, `StoreJob`, `StoreFailedJob`, `Store`, `StoreProofs` | what builders share; the five entities; transactions and tables; proofs | done |

Abstract specifications worth stating: the outbox's contract (done: a job owed
until performed or buried); for the event stream, a log per user and a cursor per
subscriber; for the verdict processor, a set of verdicts settled in order; for
the pool, a FIFO without duplicates (done); and for `ChatSystem` the life of one
message (accepted, received, blocked) as its author may know it (done).

Every safety property that a passing run checks is stated by a theorem. Not
written down as modules of their own are the log with a cursor that a subscriber of
`EventStream` implements, of which `StreamIsWindow` is the invariant, and the set of
verdicts settled in order, which `SettledInOrder` and `CommittedIsSettled` say.

## 3. The modules

### Outbox

| Module | Code |
|---|---|
| `rows`, `attempts`, `reserve`, `delay` | table `jobs` (`internal/store/schema/job.go`): its ids, `attempts`, and the time left until `reserved_until` and `available_at` |
| `failed` | rows of `failed_jobs` that stand for a job |
| `pc`, `task`, `try`, `till` | a worker goroutine of `Service.Run`: where it is, the job it reserved, `Attempts` as read, the time left by its clock until the `until` of `service.go:120` |
| `Put` | `Service.Put` inside its caller's transaction, at the commit |
| `Ask`, `Reserve`, `Begin` | `findAndProcessJob` up to the handler: the clock is read, `FindAndReserveJob` (`Eligible`, `MarkReserved`) takes effect, its row is back and its name selects the handler |
| `HandleOk`, `HandleErr`, `Delete` | `findAndProcessJob`; `DeleteJob` runs on `context.Background()`, its error is logged only |
| `Dlq`, `DlqFails` | `Service.dlq` and `Database.RunInTx` |
| `NoJobs`, `Wake`, `ReserveFails`, `ExitOnCancel`, `StopOnError` | the loops of `processAvailableJobs` and `Run` |
| `Cancel`, `Exit`, `Crash`, `Start`, `Tick` | the shared context, `eg.Wait`, the process, the clock |

A statement or a transaction is one action, and an error of one may hide that it
took effect (`ReserveFails` after `Reserve`, `DlqFails`). A scan with `SKIP LOCKED`
may find nothing although a row is eligible (`NoJobs`): another transaction holds
it and may be rolled back. Time is counted down, so the clock adds no unbounded
state. It may advance between any two steps, so a query, a handler and a deletion
take any time; in particular the end of a reservation, which is computed before the
query, may have come when the query returns. A handler need not return at its
timeout (`Publish` of the event stream ignores its context and may wait a second for
each slow subscriber). `Skew` bounds the difference between the process's clock and
the database's, which compares. `idleTime` is not timed: `Wake` may happen at any
time. `accepted` and `done` are history.

`ExclusiveHandling` is what the reservation does give: two workers have a job in
hand only if the end that one of them asked for has come, up to `Skew`. A handler
that starts within `d` of `service.go:120` and honours its timeout is therefore
alone if `reserveFor > d + ExecutionTimeout + Skew`; the code bounds neither `d` nor
`Skew`, and cannot make a handler stop.

`OutboxContract` is what the caller of `Put` is promised. `ImplementsContract`
maps `rows` to the jobs owed and `failed` to the jobs buried.

### SendMessage

One action per SQL statement of `UseCase.Handle`; `pc[a]` is the next one. A
statement sees what is committed and its own writes (READ COMMITTED, the default
of PostgreSQL and of `client.Tx`). An attempt creates one row of a table at most,
and the row is named after it. Two things make transactions wait: the row lock
that the chat's `ON CONFLICT DO UPDATE` leaves (`lock`), and the unique index on
`initial_request_id` (`CreateClientVisible`). `Commit` may succeed and report an
error. `Resolve` is external: the column `resolved_at` is read in the code and
set nowhere in it yet. A request id is taken to be used by one client
(`ClientOf`), as the user interface generates them.

### EventStream

`arr` and `len` are the array and the length of `clients.items[user]`: `Publish`
ranges over the slice as it was (`n` cells), `clients.remove` overwrites cells of
the same array. `pc`, `k` follow a call of `Publish` through its loop, `mu` is
the mutex, `closes` counts `close(ch)`. The timer of a second may fire at any
time while a publisher waits for a full channel (`DropSlow`), and not before it
waits. The context of a subscriber may end at any time (`Leave`); like in the
code, the stream learns of it when it publishes. `published` and `since` are
history. `EventStreamInv` says beside the properties what the loop relies on:
cells ahead of it are never overwritten and hold clients still registered
(`LoopMissesNobody`), and those are the only ones that lack the event
(`OnlyAheadLack`).

### Verdicts

Consumers of one group, each with the goroutine that fetches (`fetcher`, `hand`)
and the loop that collects (`batch`), processes (`i`, `tries`) and commits.
`ApplyVerdict` is the transaction of `processVerdict`. The group coordinator is
external: it assigns free partitions, moves them between consumers (`Rebalance`;
what the old owner has in hand stays with it) and accepts or refuses a late
commit. `dlq` is the dead letter topic, `dropped` the verdicts whose write to it
returned an error, which the code logs. Such a record may be in the topic all the same
(`WriteDlqFails`): `WriteMessages` queues it before it looks at the context, and it is
written then or until `dlqWriter.Close`. The model puts it there at the return.
What `decodeMsg` and the statuses make of a verdict
is a field of `Log`. An unknown message fails each time and goes to the dead letter
topic after `Retries`; a failed transaction may have been committed; and when the
context ends in the middle of a batch, the tries fail at once and the rest of the batch
is written to the dead letter topic, or dropped, and perhaps committed. `VerdictsInv` says beside the properties where
a consumer is in its batch (`Stages`) and that it has passed over nothing that is
not settled (`NothingSkipped`).

### WebSocket

One session: `Serve` (`serve`), its goroutines `reader`, `writer` and `watcher`
(the one that waits for `shutdownCh`), the `sync.Once` of the closer (`once`), and
`ctxDone`, the errgroup's context. Only an *error* cancels it, so a write loop
that returns nil because the stream has dropped the session (`StreamEnds`) leaves
the reader to its deadline. All waiting is timed: `Tick` counts down the read and
write deadlines, the ticker, the closer's sleep and the pong on its way, and is
disabled while a goroutine has something to do, so a deadline cannot be missed by
the scheduler. The select of `writeLoop` takes any ready case. A write to a live
peer takes up to `MaxWrite`; to a silent one it may succeed, the buffers take it,
or fail at its deadline. The peer, gorilla/websocket and the channel of the event
stream are external; a `WriteControl` that waits for its five seconds is left out.
`Shutdown` is what the handler is written for; `server_client.go:72` makes the
channel and nothing closes it. When `Subscribe` fails, `Serve` returns and leaves
the upgraded connection open (`handler.go:60`); `NothingLeftBehind` is about
subscribed sessions. `WebSocketInv` says beside the properties who may be in the
closer when (`Stages`), which events are written, in hand and in the channel
(`InOrder`), and how far the read deadline lies behind the pong (`OnTime`).

### ManagerPool

`queue` and `managers` are the slice and the map of the pool; its methods hold the
mutex throughout, so each is one action (`Put`, `Close`, and `Get` inside
`Assign`). A free-hands request reads the load (`Check`) and puts the manager in a
later step; `OverloadIsBounded` says what that costs. The code has nobody yet who
takes managers and gives them problems: `Assign` and `Resolve` are external, and
the bound supposes that problems are given to managers taken from the pool only.
`ManagerQueue` is the interface `managerpool.Pool`: a queue without repetitions.

### History

`CreateRow`, `CommitRow` and `RollBack` are what `SendMessage` does to the rows of
one chat, as far as paging sees it: `created_at` is taken when the row is built,
the row is visible from its commit, and the lock of the chat's row excludes other
transactions of the chat. The proofs about both stand in `SendMessageProofs`, which
extends both modules, hence the prefix in `HistoryInit`, `HistoryNext`, `HistorySpec`
and `HistoryTypeOK`. `ReadPage` is one request of the client with the
cursor it was given (`Youngest` is the `ORDER BY` with its `LIMIT`, as a set; ties
are chosen freely), `Reload` one without. The clock does not go back; a wall clock
that is set back while a client pages is not considered, nor several instances
with clocks of their own.

### ChatSystem

The composition. What other modules show of a component is taken as its contract:
a request is one transaction (`SendMessage`; proved atomic), the jobs are an
instance of `OutboxContract` (`Outbox` implements it; proved), a verdict is applied
at least once or given up (`Verdicts`), a session is a queue of events that may
end (`EventStream`, `WebSocket`). What the code adds to them is in full: the steps
of the three job handlers (`MessageIsStored`, `Produce`, `Publish`) with the
attempts that fail or are repeated between them, `processVerdict` with its flag
and job, how `get-history` renders the two flags (`Render`), and the author's page
(`cmd/ui-client/static/app`), which puts together the history (`ShowHistory`), the
answer of its request (`ShowReply`) and the events (`HandleEvent`), each as late
as it likes.

| Variables | Code |
|---|---|
| `messages`, `visible`, `blocked` | table `messages` and its two flags |
| `accepted`, `owed`, `performed`, `buried`, `tries` | jobs as in `OutboxContract`; the column `attempts` |
| `task`, `step` | a worker: the job it reserved and the next step of its handler |
| `topic`, `verdict`, `settled`, `givenUp` | the two Kafka topics, and how far the verdict processor is |
| `loads`, `online`, `stream`, `replies`, `asked`, `answer`, `page` | the author's page, its session, what is on the way to it |

`Crash` ends workers, sessions and answers; tables and topics stay. One
author stands for all, for nothing in the code relates the messages of different
chats. `MessageLife` is what the author may know of a message: accepted, received,
blocked, never back, and told of by events only when it is so. The run shows that
it is implemented also when the anti-fraud service gives both verdicts on one
message (it may: the message is produced again when a handler is repeated): the
flags only grow and the history prefers `is_blocked`. `Judge` is external.

The page shows nothing untrue (`PageIsTrue`) but need not show all: an event about
a message that is not on the page yet is ignored (`stream.js:10`), so a page whose
history was read before a verdict and shown after the event keeps one tick until it
is opened again. A message may also be on the page twice (`main.js:117` does not
look whether the event came first); the page is a set here.

### Lifecycle

`stage` follows `run` in `main.go`: the steps that prepare, of which each may fail,
`run` (the errgroup waits), `closing` (the deferred calls) and `exited`. A server
(`internal/server` and `internal/server-debug` have the same `Run`) is two
goroutines: `listening` in `ListenAndServe` and `shutting`, which waits for the
context and then for `Shutdown` with its timeout, counted down by `graceLeft`.
`working` and `consuming` are the goroutines of the outbox and of the verdict
processor as far as they end. No context is a variable: `CtxDone`,
`ServerCtxDone` and `OutboxCtxDone` derive from the signal and from who has failed,
as `errgroup.WithContext` does; an error of an inner group reaches the outer one
when all of the inner goroutines are done. `net/http`, requests and signals are
external. Websocket sessions are hijacked connections, which `Shutdown` does not
know of: they end with the process.

### Store

`EntBuilder` is what the generated builders have in common: a builder collects
what its caller asks for (`set`, `clear`, `add`, `link`, `unlink`, `unlinked`) and
`Save` makes one statement or a few of it. Each entity has a module for what was
generated for it: columns, constraints and validators, what may be called on each
kind of builder, defaults and checks, which columns an upsert keeps, which changes
an update makes, what its mutation reports, its edges in each of their four forms
(query, client, eager loading, predicate) and its predicates. `Store` is the state
machine over them: a caller that begins and ends nested calls of
`Database.RunInTx`, takes a builder, calls it, and saves; `hand` is the builder it
has, `tx` the transaction in its context with its own view of the tables. What
`sqlgraph` and PostgreSQL make of a builder is external (`Create`, `Update`,
`Delete`, `Insert`, `Intact`), written down from the specs the builders pass to
them. The rows of a bulk are inserted one after the other (`Inserted`), and none of
them stays when one fails.

Four assumptions on the constants say what the program can rely on. The tables are
in order when it starts (`TablesAssumption`). No value that a caller sets is a NULL:
the setters take Go values, and only a `Clear` makes a field NULL
(`ValuesAssumption`). A conflict is on a unique column, without which PostgreSQL
refuses an `ON CONFLICT`, and is resolved in one of the ways that the generated
options offer, and the values an upsert sets are valid (`ConflictsAssumption`): the
setters of an upsert go past the validators (`job_create.go:319`), so here it is the
caller who answers for them. The one upsert that the repository makes, of the chat
(`repositories/chats/api.go:15`), sets a column to itself. `StoreAssumption` has the
types.

`StoreInv` has the rows valid and the four encodings of each edge in agreement;
`SaveDoesWhatItSays` compares the rows a successful `Save` leaves with what the
mutation reports. Of one outside a transaction that returns an error it demands that
it changed nothing when the client refused it, and did all of it or nothing when the
database failed: a `Save` without edges in other tables is one statement that commits
by itself (`creator.mayTx` of ent's `sqlgraph` gives it a `NopTx`), one with such edges
ends in a commit of its own, and the reply to either may be lost (`ReplyLost`). A
caller that repeats a failed `Save` may so do it twice.
`ImmutablesStay` is about every form of upsert. What the model shows and no
property forbids: inside a transaction a `Save` that fails in its second
statement leaves the first behind, for the rollback of `txDriver` is a nop
(`tx.go:212`) and only the end of the transaction decides; `AddAttempts` passes no
validator; setting a field after clearing it makes a statement that PostgreSQL
refuses; and linking messages or problems from the side of the parent never
succeeds, as their keys are required. The transactions of several callers are
in `SendMessage` and `Outbox`.

## 4. The runs

| Run | Checks | Shows |
|---|---|---|
| `outbox` | `OutboxInv`, `ExclusiveHandling`, `ImplementsContract`, `EveryJobSettles` | the inductive invariant with all safety properties in it, that a job is in two hands only when one is overdue, the contract, and that each job is handled or buried, also when two workers own it |
| `outbox_attempts` | `HandledAtMostMaxAttempts`, **violated** | the finding below |
| `send_message` | `OneOpenProblem`, `OneMessagePerRequest`, `AllOrNothing`, `HoldersNeverWait`, `MessagesJoinTheOpenProblem` | five racing attempts, two with one request id; no ring of waiters between the row of the chat and the unique index |
| `event_stream` | `EventStreamInv`, `StreamIsWindow`, `CallsReturn`, `QuietAfterClose` | removal in place skips and repeats nothing, and closes a channel once; slow readers stop nobody for ever |
| `verdicts_safety` | `VerdictsInv`, `CommittedIsSettled`, `SettledInOrder`, `UndisturbedIsOnce` | offsets, order, retries and flags under rebalances and faults |
| `verdicts_live` | `EveryVerdictSettles` | verdicts are settled while one consumer is left |
| `websocket` | `WebSocketInv`, `LivePeerStays`, `NothingLeftBehind`, `NoGap`, `SessionServes` | deadlines, the closer and the errgroup of a session; it ends, also when only the read deadline is left, and writes its events unless it does |
| `history` | `SkipsOnlyTies`, `PagesDescend`, `PagingEnds` | pages go back in time and leave out ties at most; paging ends although messages arrive |
| `manager_pool` | `OverloadIsBounded`, `ImplementsQueue`, `NobodyStarves` | the pool is a queue without repetitions, first come, first served; stale checks overload by one problem per request |
| `chat_system` | `ChatSystemInv`, `NobodyForgotten`, `PageIsTrue`, `ImplementsLife`, `EveryMessageDecided` | a message through all components with a fault anywhere: it is not forgotten, the page and the events say nothing untrue, its status never goes back, its author is told or the failure is on record |
| `lifecycle` | `LifecycleInv`, `ExitTellsTheTruth`, `ProcessEnds` | nothing in use is closed, `run` returns an error exactly when something failed, the process ends when it is told to |
| `store` | `StoreInv`, `SaveDoesWhatItSays`, `ImmutablesStay` | all builders of the five entities inside and outside of transactions |

The invariants of the runs named after a module (`OutboxInv` and its like) include
the type invariant of their module. All of them are inductive and proved to be so. `SendMessageInv`, `HistoryInv` and `PoolInv` are proved, too, and
are not listed as invariants of a run, which has the properties that follow from
them.

**Finding.** `services/outbox/job.go:23`: "MaxAttempts is the maximum number
of attempts to run the task." The code compares after the handler has failed
(`service.go:146`). Attempts without an outcome are not limited: in the
counterexample the last permitted attempt succeeds, its row is not deleted before
the reservation runs out, and another worker runs the handler again, as attempt
`MaxAttempts + 1`. A process that dies in its handlers repeats such a job without
limit. `EveryJobSettles` therefore needs that crashes are finitely many.

What the models show and no property forbids: a verdict whose write to the dead
letter topic fails is committed and is then nowhere but in the log (`dropped`), which
a mere shutdown in the middle of a batch can bring about;
a message can be both visible and blocked after two verdicts; a worker that comes
late to `dlq` ends all workers and with them the process; a consumer whose
`FetchMessage` fails once is gone for the life of the process; `Put` compares the
size of the pool with `managersMax` before it looks whether the manager is there,
so in a full pool a repeated `Put` is answered with `ErrManagerCapacityExceeded`.

**Bounds.** Named constants in each module. Two workers are enough for every
race of the outbox, which is between two owners of a job; the third attempt at a
job is the first that exceeds `MaxAttempts = 2`; with `ReserveFor = 1` and clocks
that agree a reservation is good or has run out, at every point between the query
and the deletion. The run of the finding has `ReserveFor = 2` and `Skew = 1`; for
every other value there are the proofs. One fault and one cancellation occur at
every point. In
`SendMessage` five attempts are a repeated request, two more of the same client
(so that two still race after the chat exists and its problem was resolved) and
one of another client. In `EventStream` three subscribers give a
removal a first, a middle and a last cell, and a capacity of 1 (1024 in the code)
fills at once. In `Verdicts` `Retries = 2` and batches of 2 make the retry and
the batch boundary visible, two faults use up the retries, one partition of three
verdicts has an ok and a suspicious one on one message.
In `WebSocket` a period of 5 is the smallest
that satisfies the hypothesis of `LivePeerStays` with two events of one tick each
and a pong of one; with 4 a live peer can be cut off, so the hypothesis is sharp.
The code's values (3 s, and 1 s for a write) satisfy it as long as writes take
milliseconds.
In `History` pages of two (10 to 100 in the
code) and five messages give three pages, with ties inside a page, at its end and
across it. In `ManagerPool` two places (1000 in the code) for three managers fill
the pool, and two requests reach the bound of `OverloadIsBounded` exactly.
In `ChatSystem` one message is enough for what the code relates: its jobs, records,
verdicts and rows; with one fault (a crash at any point, an error, a lost event or
answer, a verdict applied twice, a second worker on a job) it is produced twice
and judged both ways, or buried with `MaxAttempts = 1` (30 in the code) after it
was produced or before; the page is opened twice. Two messages, which only share
workers and topic, are beyond what the run can finish. In `Lifecycle` two servers
(the third is like them), two workers and a consumer fail in every order of two
failures, a request outlasts the shutdown's two ticks or not. In `Store` one row
or none of each table, rows proposed that meet it or not, a valid and an invalid
value, and two saves, of which each counts as a call (`MaxCalls = 2`), give every pair
of calls on a builder before the first save, and a second save, after one call at
most, that sees what the first one left in a nested transaction.
`Symmetry` is used in safety runs only, over sets whose elements the
specification treats alike.

Deadlock is checked in every run. Where a system rests for ever its last states
stutter explicitly (`Ended`, `AllDone`, `EmptyBatch`, `Returned`, `Rest`, `Over`).

**Fairness.** Goroutines are scheduled and databases answer, also the calls without a
deadline (`DeleteJob` with `context.Background()`, `service.go:161`): weak fairness of a
worker's steps, of the statements of a request, of a publisher and of a
consumer. Time passes, and a process that has ended is started again. An eligible job hides
from the workers' scans only behind transactions that fail, which are finitely many:
strong fairness of the workers' `Reserve`, taken together. A
publisher gets the mutex although others take it again and again (strong
fairness of `Lock`): `sync.Mutex` hands itself to a waiter that has starved for a
millisecond. Free partitions are assigned. Faults, cancellations and rebalances
are never forced and are finitely many. A client that pages goes on (`ReadPage`), and
`NobodyStarves` has the taking of managers as its hypothesis, for nothing in the
code does it. In `ChatSystem` the workers, the anti-fraud service and
the verdict processor go on, and nothing is asked of the author and the page. In
`Lifecycle` the goroutines, the handlers of jobs with their database calls (none of
which the shutdown bounds) and the shutdown timer go on,
while requests may last for ever. Clients, readers of the stream and
managers owe nothing.

## 5. The proofs

`OutboxProofs`, `SendMessageProofs`, `EventStreamProofs`, `VerdictsProofs`,
`WebSocketProofs`, `ManagerPoolProofs`, `ChatSystemProofs` and `StoreProofs` prove, for any number of jobs, workers, attempts, clients, subscribers, partitions,
records, consumers, faults, messages, managers, requests, servers, periods of
time, tables, conflicts and calls on builders, the safety properties of their modules;
those of `History` stand in `SendMessageProofs`, and those of `Lifecycle`, the process that
closes the event stream, stand in `EventStreamProofs`, which extends both modules
(hence the prefix in `ProcessInit`, `ProcessNext`, `ProcessSpec`). The only
assumptions are those on the constants (`OutboxAssumption` and its like): their
types, that the messages of a chat and the requests in progress are finite, that there is at
least one server (`main.go` has three), and those of the row store (section 3). The bounds of the models on faults, errors and
time are constants of the theorems, so that they hold for each value of them.

*Outbox.* No property is inductive alone. `NoJobLost` needs that a worker about to
delete has seen its job succeed, `BuriedOnlyAfterMaxAttempts` that the attempts a
worker has read never exceed the column, `BuriedOnce` that only accepted jobs have
effects and that `dlq` rolls back when the row is gone. `ExclusiveHandling` rests
on `ReservationHolds`: while a job in hand is still in the table, its column
`reserved_until` is no earlier than the worker's own count, up to `Skew`. `Tick`
preserves it because it counts both down, and another worker's `Reserve` because it
needs a reservation that has run out. `OutboxInv` is
their conjunction; each lemma preserves one part of it, one step per action.
`OutboxImplementsContract` maps each action to `Accept`, `Perform`, `Complete`,
`BuryJob` or a stutter, under the invariant.

*SendMessage.* The lock of a chat is held exactly between the upsert and the end of
a transaction (`LocksHeld`), so what a transaction has read of the chat's problems
stays true up to their being resolved (`ProblemStable`); and a running transaction
has committed nothing, and excludes others from its request id once its message is
inserted (`RunningIsInvisible`). From these follow one open problem per chat, one
message per request and atomicity, and that a message joins the open problem.
`SendNeverDeadlocks` needs in addition that whoever has inserted a message holds
its chat's lock: an attempt waits for a lock before it has one, and for the index
only when it has the lock, so that who is waited for waits for nobody.

*EventStream.* `Publish` ranges over `n` cells of an array in which
`clients.remove` puts the last client of the shortened slice into the cell of the
removed one. `DroppingFacts` has the reason why no client is missed: the removed
client, which the loop is at, stands in a cell that is not ahead, since those ahead
hold different clients; so `LoopMissesNobody` is preserved, and removal only takes
away the client that the loop passes (`RegisteredAfterDrop`). `OnlyAheadLack` then
says that a client which is visited lacks exactly the last event of its user: its
stream, a window that ended before it, is a window that ends with it.
`StreamIsWindow` is about a subsequence and is proved event by event (`Windows`,
`SubSeqPoints`). That no channel is sent to when closed follows from the clients
visited being registered, and `QuietAfterClose` from `Close` waiting for the loops.

*Verdicts.* `CommittedIsSettled` is inductive only with `NothingSkipped`: ahead of
any verdict that a consumer holds, in its batch or in the hand of its fetcher, each
verdict of the partition is settled or held before it; a rebalance sets the fetch
position back to the offset committed, so the next owner has nothing to skip. The
same part gives `SettledInOrder`, for a consumer settles the first of its batch that
is left. `DlqOnlyAfterRetries` counts: a consumer comes to the dead letter topic with a
verdict that can be applied after `Retries` failed tries, whatever the state of the
context, and while that is not done each of them has used up a fault
(`TriesAreFaults`). `UndisturbedIsOnce` needs `OnePlace`:
without disturbance a verdict is fetched once, and is in one place from then on.

*WebSocket.* `NothingLeftBehind` rests on `Stages`: before the group ends only the
goroutine that waits for the shutdown is in the closer, so `Serve` finds `once` free
or done. `NoGap` rests on `InOrder`: what is written, in hand and in the channel are
the events offered, in order. `LivePeerStays` is an argument about time. `WayToPong`
bounds the time until the pong comes that puts the read deadline off: the pong on
its way, or the ping that is being written and its answer, or the events that may
still win the select against a tick that is due, and then the ping, or the tick and
the longest such way. `OnTime` keeps the deadline behind that. A tick takes one from
both (`TickInTime`); every other step leaves the way as it was or shortens it, and
a pong sets the deadline to two periods, of which the ticker needs one and, by the
hypothesis, the longest way less than the other.

*History.* `SkipsOnlyTies` needs that rows commit in the order of their times
(`RowsInOrder`, by the chat's lock) and that the client has seen nothing older than
its cursor (`SeenIsYounger`). `PageFacts` says what one read returns; a short page
holds everything older (`ShortPageIsAll`, by cardinality).

*ManagerPool.* `QueueIsSet` is inductive alone. `OverloadIsBounded` is stated as a
bound on a manager's claims (problems, a place in the pool, requests that have
passed the check): joining trades a request's claim for the place, being taken
trades the place for a problem, and only a check that finds the load below the
limit adds one. The refinement maps `queue` to `waiting`; that `Put` joins nobody
twice is `QueueIsSet`.

*ChatSystem.* The steps of the components are reduced to what they do to the jobs
(`JobsStep`), to a worker (`WorkStep`) and to the records of the topics
(`RecordsStep`), and nothing that the proof looks at is ever taken back: rows,
flags, accepted and performed jobs, records and answers only grow
(`NothingIsTakenBack`). `ChatSystemInv` is inductive: a job is about a stored
message and says what is so, a handler that publishes the news of a message has
produced it, a verdict that is settled and not given up has left its job.
`NobodyForgotten` follows from it without a further induction: the first job of a
message leads to a record, the record to a verdict, the verdict to a second job,
and what is not accounted for by one of them is still with the one before.
`PageIsTrue` needs that what is true of an event or a row stays true while it is
on its way. `ChatSystemImplementsLife` maps `SendMessage`, `ProcessVerdict` and
`Publish` to `Become` and `Tell`, all other steps to stutters; a verdict that
changes nothing (a second one, an "ok" after a "suspicious") is a stutter, too.
The numbers `nth` that tell jobs apart go up to `MaxFaults + 1`, for only a fault
makes a job or a verdict take effect again.

*Lifecycle.* `ClosedWhenUnused` needs `StagesInOrder`: before `run` nothing has
been started, in it everything has, and what is closed is closed after everybody
has returned. With `Drainage` (a shutdown that has ended well has left no request)
this is inductive. The exit is true because once everybody has returned no failure
can be added: the result that `Wait` gave is still the result when `run` returns.

*Store.* `StoreInv` is `Sound`: the committed tables and the view of the transaction
are both `Consistent` (rows of the right columns, valid; constraints intact), and what
is in hand fits its kind. Three observations carry it. The generator's lists are
right for each entity: no kind of update or upsert offers an immutable field, what an
upsert assigns leaves out what it keeps, and the columns that are unique are immutable
(`EntityFacts`, `ResolvingFacts`, `OfferedFacts`, `KeptFacts`, `ReportFacts`). A
statement replaces rows by rows that are valid and agree with them on what is
immutable: the checks of a builder imply it for the row it creates (`CreateFacts`) and
the changes it makes (`UpdateFacts`), `ConflictsAssumption` for the changes of an
upsert (`ResolvedRow`). And the tables that a `Save` leaves, also one that fails in
its second statement, are either those it found or have passed the constraints
(`CreateKeeps`, `UpdateKeeps`, `DeleteKeeps`). A bulk is followed row by row
(`InsertFollows`: every row that was there still has a successor with its id and
its immutable fields). That the four encodings of an edge agree needs no induction:
`EdgeFacts` compares what was generated, and `EdgesOfRows` holds of any tables.
`ImmutablesNeverChange` is the same argument for one step. `SaveKeepsItsWord` reads
the result back: the rows an update matched are found again by their ids with the
fields, increments and NULLs its mutation reports (`UpdatedHonestly`, over
`AssignedAsReported`); as no `Save` that links or unlinks a required child succeeds,
the edges reported are those of the rows. `AllOfIt` says this of a `Save` that
worked, whether its caller learns so (`Save`) or not (`ReplyLost`). A create adds a row per builder, or the one
it resolved, whose id is returned (`InsertGives`, `SingleCreate`); the number of rows
of a bulk without conflicts is by cardinality.

Only model-checked: liveness (`EveryJobSettles`, `CallsReturn`,
`EveryVerdictSettles`, `SessionServes`, `PagingEnds`, `NobodyStarves`,
`EveryMessageDecided`, `ProcessEnds`). Proofs under fairness need `ENABLED`, which the
prover does not handle.

## 6. Not modelled

Authentication (a token is checked by Keycloak on every request, nothing is kept),
error responses, configuration, logging, validation of options, conversions between
types, and the generated API code hold no state and no order of steps. Of the
message producer the encryption and the Kafka key of a record are left out, of the
debug server its pages; the manager's page calls operations the service does not
have yet, and `can-receive-problems` only reads the pool and the load. In the
store, hooks and interceptors (none is registered), `OldX` and `Reset` of mutations,
`GroupBy`, `Select`, `Aggregate` and the order and limit of generated queries are
left out; the one query that needs them is `History`. An upsert resolves its conflict
in one way: that the options of `OnConflict` may be combined (`UpdateNewValues` and
then `SetX`) is left out. In the event stream `Publish` calls `wg.Add` without the
mutex while `Close` may be in `wg.Wait` (`service.go:46`, `:85`), which
`sync.WaitGroup` may punish with a panic in the instant its counter is zero; the model
has the counter without it. Panics outside `RunInTx` and
the failure of PostgreSQL to keep a committed transaction are not considered.
