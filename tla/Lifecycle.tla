----------------------------- MODULE Lifecycle -----------------------------
(***************************************************************************)
(* The process (cmd/chat-service/main.go): run builds the components one   *)
(* after the other, starts five runners in an errgroup -- three HTTP       *)
(* servers, the outbox, the verdict processor --, waits for all of them    *)
(* and closes what it has opened, in the reverse order.                    *)
(*                                                                         *)
(* Each runner has an errgroup of its own with a context derived from the  *)
(* one all share: a server has one goroutine that listens and one that     *)
(* shuts it down, the outbox its workers, the verdict processor its        *)
(* consumers.  net/http, the requests and the signals are external.  A     *)
(* websocket session is hijacked: Shutdown does not wait for it, nobody    *)
(* closes the channel that would tell it, and it ends with the process.    *)
(***************************************************************************)
EXTENDS Naturals, Sequences

CONSTANTS
    Server,          \* debug, client, manager
    Worker,          \* goroutines of the outbox
    Consumer,        \* goroutines of the verdict processor
    ShutdownTimeout, \* shutdownTimeout of the servers, in ticks
    MaxRequests,     \* bound on the requests in progress in a server
    MaxFaults        \* bound on failures

ASSUME LifecycleAssumption ==
    /\ Server # {}
    /\ ShutdownTimeout \in Nat \ {0} /\ MaxRequests \in Nat /\ MaxFaults \in Nat

(* What run does before it starts the runners, up to the next step that    *)
(* opens something or may take long.                                       *)
Steps == <<"config", "clients", "database", "schema", "services", "stream", "servers">>

VARIABLES
    stage,     \* the step of run, then "run", "closing", "exited"
    db,        \* psqlClient: none, open, closed
    stream,    \* eventStream: none, open, closed
    signalled, \* SIGINT or SIGTERM has come
    listening, \* a server's goroutine in ListenAndServe: off, run, nil, error
    shutting,  \* the one that shuts it down: off, run, drain, nil, error
    graceLeft, \* time left to Shutdown
    requests,  \* requests in progress in a server
    working,   \* a worker: off, run, busy (in a handler), nil, error
    consuming, \* a consumer: off, run, nil
    exit,      \* the result of run: none, nil, error
    faults

setup       == <<stage, db, stream, exit>>
servers     == <<listening, shutting, graceLeft, requests>>
processVars == <<setup, signalled, servers, working, consuming, faults>>

Stages == {Steps[i] : i \in 1..Len(Steps)} \cup {"run", "closing", "exited"}

ProcessTypeOK ==
    /\ stage \in Stages
    /\ db \in {"none", "open", "closed"} /\ stream \in {"none", "open", "closed"}
    /\ signalled \in BOOLEAN
    /\ listening \in [Server -> {"off", "run", "nil", "error"}]
    /\ shutting \in [Server -> {"off", "run", "drain", "nil", "error"}]
    /\ graceLeft \in [Server -> 0..ShutdownTimeout]
    /\ requests \in [Server -> 0..MaxRequests]
    /\ working \in [Worker -> {"off", "run", "busy", "nil", "error"}]
    /\ consuming \in [Consumer -> {"off", "run", "nil"}]
    /\ exit \in {"none", "nil", "error"}
    /\ faults \in 0..MaxFaults

ProcessInit ==
    /\ stage = Steps[1] /\ db = "none" /\ stream = "none" /\ signalled = FALSE
    /\ listening = [s \in Server |-> "off"] /\ shutting = [s \in Server |-> "off"]
    /\ graceLeft = [s \in Server |-> ShutdownTimeout]
    /\ requests = [s \in Server |-> 0]
    /\ working = [w \in Worker |-> "off"] /\ consuming = [c \in Consumer |-> "off"]
    /\ exit = "none" /\ faults = 0

Fault == faults < MaxFaults /\ faults' = faults + 1

(* signal.NotifyContext: the first one cancels the context, later ones are *)
(* swallowed.                                                              *)
Signal ==
    /\ stage # "exited" /\ ~signalled
    /\ signalled' = TRUE
    /\ UNCHANGED <<setup, servers, working, consuming, faults>>

-----------------------------------------------------------------------------
(* run, up to the runners. *)

Prepare(i) ==
    /\ stage = Steps[i]
    /\ db' = IF stage = "database" THEN "open" ELSE db
    /\ stream' = IF stage = "stream" THEN "open" ELSE stream
    /\ stage' = IF i < Len(Steps) THEN Steps[i + 1] ELSE "run"
    /\ IF i < Len(Steps) THEN UNCHANGED <<listening, shutting, working, consuming>>
       ELSE /\ listening' = [s \in Server |-> "run"] /\ shutting' = [s \in Server |-> "run"]
            /\ working' = [w \in Worker |-> "run"] /\ consuming' = [c \in Consumer |-> "run"]
    /\ UNCHANGED <<signalled, graceLeft, requests, exit, faults>>

(* Each step may fail; the schema is created under the context, so that a  *)
(* signal fails it.                                                        *)
PrepareFails(i) ==
    /\ stage = Steps[i]
    /\ \/ Fault
       \/ stage = "schema" /\ signalled /\ UNCHANGED faults
    /\ stage' = "closing" /\ exit' = "error"
    /\ UNCHANGED <<db, stream, signalled, servers, working, consuming>>

-----------------------------------------------------------------------------
(* The errgroups. *)

Ended == {"nil", "error"}

ServerReturned(s) == listening[s] \in Ended /\ shutting[s] \in Ended
ServerFailed(s)   == listening[s] = "error" \/ shutting[s] = "error"
OutboxReturned    == \A w \in Worker : working[w] \in Ended
OutboxFailed      == \E w \in Worker : working[w] = "error"
AfcReturned       == \A c \in Consumer : consuming[c] \in Ended

(* A group's error reaches main's group when all its goroutines are done. *)
AnyRunnerFailed ==
    \/ \E s \in Server : ServerReturned(s) /\ ServerFailed(s)
    \/ OutboxReturned /\ OutboxFailed

CtxDone == signalled \/ AnyRunnerFailed
ServerCtxDone(s) == CtxDone \/ ServerFailed(s)
OutboxCtxDone    == CtxDone \/ OutboxFailed

-----------------------------------------------------------------------------
(* A server. *)

Accept(s) ==
    /\ listening[s] = "run" /\ shutting[s] = "run" /\ requests[s] < MaxRequests
    /\ requests' = [requests EXCEPT ![s] = @ + 1]
    /\ UNCHANGED <<setup, signalled, listening, shutting, graceLeft, working, consuming, faults>>

Respond(s) ==
    /\ requests[s] > 0 /\ stage # "exited"
    /\ requests' = [requests EXCEPT ![s] = @ - 1]
    /\ UNCHANGED <<setup, signalled, listening, shutting, graceLeft, working, consuming, faults>>

ListenFails(s) ==
    /\ listening[s] = "run" /\ shutting[s] = "run" /\ Fault
    /\ listening' = [listening EXCEPT ![s] = "error"]
    /\ UNCHANGED <<setup, signalled, shutting, graceLeft, requests, working, consuming>>

(* Shutdown closes the listener, upon which ListenAndServe returns         *)
(* ErrServerClosed, and waits for the requests.                            *)
BeginShutdown(s) ==
    /\ shutting[s] = "run" /\ ServerCtxDone(s)
    /\ shutting' = [shutting EXCEPT ![s] = "drain"]
    /\ UNCHANGED <<setup, signalled, listening, graceLeft, requests, working, consuming, faults>>

ServerClosed(s) ==
    /\ listening[s] = "run" /\ shutting[s] # "run"
    /\ listening' = [listening EXCEPT ![s] = "nil"]
    /\ UNCHANGED <<setup, signalled, shutting, graceLeft, requests, working, consuming, faults>>

Drained(s) ==
    /\ shutting[s] = "drain" /\ requests[s] = 0
    /\ shutting' = [shutting EXCEPT ![s] = "nil"]
    /\ UNCHANGED <<setup, signalled, listening, graceLeft, requests, working, consuming, faults>>

(* Mutant: Shutdown under context.Background, without the timeout. *)
NeverOver(s) == FALSE

GraceIsOver(s) == graceLeft[s] = 0

ShutdownTimesOut(s) ==
    /\ shutting[s] = "drain" /\ GraceIsOver(s)
    /\ shutting' = [shutting EXCEPT ![s] = "error"]
    /\ UNCHANGED <<setup, signalled, listening, graceLeft, requests, working, consuming, faults>>

Tick ==
    /\ \E s \in Server : shutting[s] = "drain" /\ graceLeft[s] > 0
    /\ graceLeft' = [s \in Server |-> IF shutting[s] = "drain" /\ graceLeft[s] > 0
                                      THEN graceLeft[s] - 1 ELSE graceLeft[s]]
    /\ UNCHANGED <<setup, signalled, listening, shutting, requests, working, consuming, faults>>

-----------------------------------------------------------------------------
(* The outbox and the verdict processor, as far as they end. *)

TakeJob(w) ==
    /\ working[w] = "run" /\ ~OutboxCtxDone
    /\ working' = [working EXCEPT ![w] = "busy"]
    /\ UNCHANGED <<setup, signalled, servers, consuming, faults>>

FinishJob(w) ==
    /\ working[w] = "busy"
    /\ working' = [working EXCEPT ![w] = "run"]
    /\ UNCHANGED <<setup, signalled, servers, consuming, faults>>

(* An error of the queries or of dlq ends the worker, and is passed on     *)
(* unless the context is done.                                             *)
WorkerFails(w) ==
    /\ working[w] \in {"run", "busy"} /\ Fault
    /\ working' = [working EXCEPT ![w] = IF OutboxCtxDone THEN "nil" ELSE "error"]
    /\ UNCHANGED <<setup, signalled, servers, consuming>>

WorkerStops(w) ==
    /\ working[w] = "run" /\ OutboxCtxDone
    /\ working' = [working EXCEPT ![w] = "nil"]
    /\ UNCHANGED <<setup, signalled, servers, consuming, faults>>

(* processMessages returns nil, also when FetchMessage has failed. *)
ConsumerStops(c) ==
    /\ consuming[c] = "run"
    /\ \/ CtxDone /\ UNCHANGED faults
       \/ Fault
    /\ consuming' = [consuming EXCEPT ![c] = "nil"]
    /\ UNCHANGED <<setup, signalled, servers, working>>

-----------------------------------------------------------------------------
(* The end of run. *)

(* Mutant: run goes on when the context is done. *)
SomebodyReturned == CtxDone

EverybodyReturned == OutboxReturned /\ AfcReturned /\ \A s \in Server : ServerReturned(s)

(* Mutant: after a signal run returns nil whatever the runners say. *)
NilAfterSignal == IF ~signalled /\ AnyRunnerFailed THEN "error" ELSE "nil"

(* eg.Wait: the first error.  None of them is context.Canceled. *)
WaitResult == IF AnyRunnerFailed THEN "error" ELSE "nil"

WaitReturns ==
    /\ stage = "run" /\ EverybodyReturned
    /\ stage' = "closing" /\ exit' = WaitResult
    /\ UNCHANGED <<db, stream, signalled, servers, working, consuming, faults>>

(* The deferred calls.  Close of the event stream waits for the handlers   *)
(* that publish.                                                           *)
CloseEventStream ==
    /\ stage = "closing" /\ stream = "open"
    /\ \A w \in Worker : working[w] # "busy"
    /\ stream' = "closed"
    /\ UNCHANGED <<stage, db, exit, signalled, servers, working, consuming, faults>>

CloseDb ==
    /\ stage = "closing" /\ stream # "open" /\ db = "open"
    /\ db' = "closed"
    /\ UNCHANGED <<stage, stream, exit, signalled, servers, working, consuming, faults>>

Exit ==
    /\ stage = "closing" /\ stream # "open" /\ db # "open"
    /\ stage' = "exited"
    /\ UNCHANGED <<db, stream, exit, signalled, servers, working, consuming, faults>>

Over == stage = "exited" /\ UNCHANGED processVars

-----------------------------------------------------------------------------
Run ==
    \/ \E i \in 1..Len(Steps) : Prepare(i) \/ PrepareFails(i)
    \/ WaitReturns \/ CloseEventStream \/ CloseDb \/ Exit

ListenStep(s) == ListenFails(s) \/ ServerClosed(s)
ShutdownStep(s) == BeginShutdown(s) \/ Drained(s) \/ ShutdownTimesOut(s)
WorkerStep(w) == TakeJob(w) \/ FinishJob(w) \/ WorkerFails(w) \/ WorkerStops(w)

ProcessNext ==
    \/ Signal \/ Run \/ Tick \/ Over
    \/ \E s \in Server : Accept(s) \/ Respond(s) \/ ListenStep(s) \/ ShutdownStep(s)
    \/ \E w \in Worker : WorkerStep(w)
    \/ \E c \in Consumer : ConsumerStops(c)

ProcessSpec == ProcessInit /\ [][ProcessNext]_processVars

(* Goroutines go on, a handler ends (its context has a deadline and        *)
(* Publish waits a second for a slow reader at most), a consumer that is   *)
(* told to ends, time passes.  A call of the database returns, also the    *)
(* DeleteJob after a handler, whose context.Background() never ends        *)
(* (service.go:161).  Requests owe nothing.                                *)
Fairness ==
    /\ WF_processVars(Run) /\ WF_processVars(Tick)
    /\ \A s \in Server : WF_processVars(ListenStep(s)) /\ WF_processVars(ShutdownStep(s))
    /\ \A w \in Worker : WF_processVars(WorkerStep(w))
    /\ \A c \in Consumer : WF_processVars(CtxDone /\ ConsumerStops(c))

ProcessLiveSpec == ProcessSpec /\ Fairness

-----------------------------------------------------------------------------
(* run closes nothing that is in use: neither the event stream nor the     *)
(* database under a worker or a consumer, and the database under a request *)
(* only after the server's Shutdown has run out of time, of which the      *)
(* result of run tells.                                                    *)
ClosedWhenUnused ==
    /\ stream = "closed" \/ db = "closed" =>
           /\ \A w \in Worker : working[w] \in {"off"} \cup Ended
           /\ \A c \in Consumer : consuming[c] \in {"off"} \cup Ended
    /\ db = "closed" =>
           \A s \in Server : requests[s] > 0 => shutting[s] = "error" /\ exit = "error"
    /\ stage = "exited" => db # "open" /\ stream # "open"

(* The result of run is an error exactly if a step of the preparation or   *)
(* one of the runners has failed, in whatever order signal, errors and     *)
(* timeouts came.                                                          *)
NotPrepared == \A s \in Server : listening[s] = "off"

ExitTellsTheTruth ==
    stage \in {"closing", "exited"} =>
        (exit = "error" <=>
            \/ NotPrepared
            \/ \E s \in Server : ServerFailed(s)
            \/ OutboxFailed)

(* Once told to stop, by a signal or by a runner's error, the process      *)
(* ends, though requests may never do.                                     *)
ProcessEnds ==
    signalled \/ AnyRunnerFailed \/ OutboxFailed \/ (\E s \in Server : ServerFailed(s))
        ~> stage = "exited"

(* What is running at each stage, and that a Shutdown that succeeded has   *)
(* waited for every request.                                               *)
AllOff ==
    /\ \A s \in Server : listening[s] = "off" /\ shutting[s] = "off" /\ requests[s] = 0
    /\ \A w \in Worker : working[w] = "off"
    /\ \A c \in Consumer : consuming[c] = "off"

AllStarted ==
    /\ \A s \in Server : listening[s] # "off" /\ shutting[s] # "off"
    /\ \A w \in Worker : working[w] # "off"
    /\ \A c \in Consumer : consuming[c] # "off"

Closing == stage \in {"closing", "exited"}

StagesInOrder ==
    /\ ~Closing => exit = "none" /\ db # "closed" /\ stream # "closed"
    /\ stage = "run" => AllStarted
    /\ ~Closing /\ stage # "run" => AllOff
    /\ Closing => \/ AllOff /\ exit = "error"
                  \/ AllStarted /\ EverybodyReturned /\ exit = WaitResult

Drainage == \A s \in Server : shutting[s] = "nil" => requests[s] = 0

(* What run opened is open while it prepares and runs, what it started has *)
(* returned before it closes anything, and nothing is closed in use.       *)
LifecycleInv == ProcessTypeOK /\ StagesInOrder /\ Drainage /\ ClosedWhenUnused
=============================================================================
