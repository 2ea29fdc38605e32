----------------------------- MODULE ChatSystem -----------------------------
(***************************************************************************)
(* The way of a client's messages through the whole service: the request   *)
(* (send-message), the outbox and the handlers of its three jobs, the      *)
(* topic of the anti-fraud service and its verdicts, the verdict           *)
(* processor, the events, the history, and the author's page              *)
(* (cmd/ui-client), which shows what it is told by all of them.            *)
(*                                                                         *)
(* The components appear by what their own modules show of them: the       *)
(* request is one transaction (SendMessage), a job is owed until handled   *)
(* or buried (Outbox, OutboxContract), a verdict is applied at least once  *)
(* or put into the dead letter topic (Verdicts), a session is a queue of   *)
(* events until it ends (EventStream, WebSocket).  The anti-fraud service  *)
(* is external.                                                            *)
(***************************************************************************)
EXTENDS Naturals, Sequences, FiniteSets

CONSTANTS
    Message,     \* messages of one author, identified by their ids
    Worker,      \* workers of the outbox
    MayBeJudged, \* the verdicts the anti-fraud service may give on a message
    MaxAttempts, \* Job.MaxAttempts
    MaxFaults,   \* bound on crashes, errors and lost messages
    MaxLoads     \* bound on how often the author opens the page

Verdict == {"ok", "suspicious"}
Kind    == {"send", "sent", "blocked"}

ASSUME ChatSystemAssumption ==
    /\ MayBeJudged \in [Message -> SUBSET Verdict]
    /\ MaxAttempts \in Nat \ {0} /\ MaxFaults \in Nat /\ MaxLoads \in Nat

(* A job is named by its kind, its message and which one of that kind for  *)
(* that message it is: a verdict that is applied again puts another one.   *)
Job    == [kind : Kind, msg : Message, nth : 1..(MaxFaults + 1)]
NoJob  == [kind |-> "none"]
Event  == [kind : {"new", "sent", "blocked"}, msg : Message]
Row    == [msg : Message, ticks : {1, 2}, alert : BOOLEAN]

VARIABLES
    messages,   \* rows of the table messages
    visible,    \* those with is_visible_for_manager
    blocked,    \* those with is_blocked
    accepted, owed, performed, buried, \* jobs, as in OutboxContract
    task,       \* the job a worker has reserved, or NoJob
    step,       \* the worker: idle, produce, publish, delete
    tries,      \* the column attempts of a job
    topic,      \* chat.messages: the messages produced
    verdict,    \* afc.msg-verdicts: the answer to each of them, or "none"
    settled,    \* the answers the verdict processor is done with
    givenUp,    \* those it could not apply: in the dead letter topic or,
                \* if that could not be written either, only in the log
    loads,      \* how often the author has opened the page
    online,     \* the page has a session that is subscribed
    stream,     \* the events on their way to it
    replies,    \* answers of sendMessage on their way to the page
    asked,      \* getHistory of the page: no, asked, answered, shown
    answer,     \* the answer on its way
    page,       \* the messages on the page
    faults

tables == <<messages, visible, blocked>>
jobs   == <<accepted, owed, performed, buried, tries>>
work   == <<task, step>>
afc    == <<topic, verdict, settled, givenUp>>
author == <<loads, online, stream, replies, asked, answer, page>>
vars   == <<tables, jobs, work, afc, author, faults>>

Offsets == 1..Len(topic)

TypeOK ==
    /\ messages \subseteq Message /\ visible \subseteq Message /\ blocked \subseteq Message
    /\ accepted \subseteq Job /\ owed \subseteq Job
    /\ performed \subseteq Job /\ buried \subseteq Job
    /\ task \in [Worker -> Job \cup {NoJob}]
    /\ step \in [Worker -> {"idle", "produce", "publish", "delete"}]
    /\ tries \in [Job -> Nat]
    /\ topic \in Seq(Message)
    /\ verdict \in [Offsets -> Verdict \cup {"none"}]
    /\ givenUp \subseteq settled /\ settled \subseteq Offsets
    /\ loads \in Nat /\ online \in BOOLEAN
    /\ stream \in Seq(Event) /\ replies \subseteq Message
    /\ asked \in {"no", "asked", "answered", "shown"}
    /\ answer \subseteq Row /\ page \subseteq Row
    /\ faults \in Nat

Init ==
    /\ messages = {} /\ visible = {} /\ blocked = {}
    /\ accepted = {} /\ owed = {} /\ performed = {} /\ buried = {}
    /\ task = [w \in Worker |-> NoJob] /\ step = [w \in Worker |-> "idle"]
    /\ tries = [j \in Job |-> 0]
    /\ topic = <<>> /\ verdict = <<>> /\ settled = {} /\ givenUp = {}
    /\ loads = 0 /\ online = FALSE /\ stream = <<>> /\ replies = {}
    /\ asked = "no" /\ answer = {} /\ page = {}
    /\ faults = 0

Fault == faults < MaxFaults /\ faults' = faults + 1

-----------------------------------------------------------------------------
(* The request.  Its transaction inserts the message, for the client only, *)
(* and puts the job; the answer may be lost.                               *)

Outbox == INSTANCE OutboxContract

PutJob(kind, m) ==
    \E n \in 1..(MaxFaults + 1) :
        /\ n = 1 + Cardinality({j \in accepted : j.kind = kind /\ j.msg = m})
        /\ Outbox!Accept([kind |-> kind, msg |-> m, nth |-> n])
        /\ UNCHANGED tries

SendMessage(m) ==
    /\ loads > 0 /\ m \notin messages
    /\ messages' = messages \cup {m}
    /\ PutJob("send", m)
    /\ \/ replies' = replies \cup {m} /\ UNCHANGED faults
       \/ Fault /\ UNCHANGED replies
    /\ UNCHANGED <<visible, blocked, work, afc, loads, online, stream, asked, answer, page>>

-----------------------------------------------------------------------------
(* The outbox and the handlers of its jobs. *)

Idle(w) ==
    /\ task' = [task EXCEPT ![w] = NoJob]
    /\ step' = [step EXCEPT ![w] = "idle"]

GoTo(w, s) == step' = [step EXCEPT ![w] = s] /\ UNCHANGED task

Held == {task[w] : w \in Worker}

(* Mutant: what has been tried is not tried again. *)
OnlyUntried == {j \in owed : tries[j] = 0}

Available == owed

(* A second worker gets a job when the reservation of the first ran out. *)
Reserve(w) ==
    /\ step[w] = "idle"
    /\ \E j \in Available :
           /\ \/ j \notin Held /\ UNCHANGED faults
              \/ j \in Held /\ Fault
           /\ task' = [task EXCEPT ![w] = j]
           /\ step' = [step EXCEPT ![w] = IF j.kind = "send" THEN "produce" ELSE "publish"]
           /\ tries' = [tries EXCEPT ![j] = @ + 1]
    /\ UNCHANGED <<tables, accepted, owed, performed, buried, afc, author>>

(* GetMessageByID, the first step of each handler: what it reads of the    *)
(* message never changes.                                                  *)
MessageIsStored(w) == task[w].msg \in messages

AppendTo(m) ==
    /\ topic' = Append(topic, m)
    /\ verdict' = Append(verdict, "none")
    /\ UNCHANGED <<settled, givenUp>>

(* send-client-message: ProduceMessage. *)
Produce(w) ==
    /\ step[w] = "produce" /\ MessageIsStored(w)
    /\ AppendTo(task[w].msg)
    /\ GoTo(w, "publish")
    /\ UNCHANGED <<tables, jobs, author, faults>>

EventOf(j) == [kind |-> IF j.kind = "send" THEN "new" ELSE j.kind, msg |-> j.msg]

(* The last step of each handler: Publish, to nobody if there is no        *)
(* session.  With it the handler has succeeded.                            *)
Publish(w) ==
    /\ step[w] = "publish" /\ MessageIsStored(w)
    /\ Outbox!Perform(task[w])
    /\ stream' = IF online THEN Append(stream, EventOf(task[w])) ELSE stream
    /\ GoTo(w, "delete")
    /\ UNCHANGED <<tables, tries, afc, loads, online, replies, asked, answer, page, faults>>

(* A handler fails, and the job is buried if that was its last attempt:    *)
(* unless another worker has settled it, then dlq finds no row.            *)
GiveUp(w) ==
    /\ IF tries[task[w]] >= MaxAttempts /\ task[w] \in owed
       THEN Outbox!BuryJob(task[w])
       ELSE UNCHANGED <<accepted, owed, performed, buried>>
    /\ Idle(w)
    /\ UNCHANGED tries

(* An error of the database, of Kafka, or of Kafka although the message    *)
(* was written.                                                            *)
HandlerFails(w) ==
    /\ step[w] \in {"produce", "publish"}
    /\ Fault
    /\ \/ UNCHANGED afc
       \/ step[w] = "produce" /\ MessageIsStored(w) /\ AppendTo(task[w].msg)
    /\ GiveUp(w)
    /\ UNCHANGED <<tables, author>>

(* DeleteJob finds the row or not. *)
Delete(w) ==
    /\ step[w] = "delete"
    /\ \/ task[w] \in owed /\ Outbox!Complete(task[w])
       \/ task[w] \notin owed /\ UNCHANGED <<accepted, owed, performed, buried>>
    /\ Idle(w)
    /\ UNCHANGED <<tables, tries, afc, author, faults>>

(* Its error is logged; the job stays and is reserved again. *)
DeleteFails(w) ==
    /\ step[w] = "delete" /\ Fault
    /\ Idle(w)
    /\ UNCHANGED <<tables, jobs, afc, author>>

-----------------------------------------------------------------------------
(* The anti-fraud service and the verdict processor. *)

Judge(o) ==
    /\ verdict[o] = "none"
    /\ \E v \in MayBeJudged[topic[o]] : verdict' = [verdict EXCEPT ![o] = v]
    /\ UNCHANGED <<tables, jobs, work, topic, settled, givenUp, author, faults>>

(* Mutant: the two jobs have one name. *)
AlwaysSent(v) == "sent"

(* processVerdict: the flag and the job, in one transaction. *)
ReportOf(v) == IF v = "ok" THEN "sent" ELSE "blocked"

(* Mutant: the flag alone. *)
FlagAlone(o) ==
    /\ verdict[o] # "none"
    /\ IF verdict[o] = "ok"
       THEN visible' = visible \cup {topic[o]} /\ UNCHANGED blocked
       ELSE blocked' = blocked \cup {topic[o]} /\ UNCHANGED visible
    /\ UNCHANGED <<messages, jobs, work, author>>

(* Mutant: an ok takes a suspicious back. *)
LastVerdictWins(o) ==
    LET m == topic[o] IN
    /\ verdict[o] # "none" /\ m \in messages
    /\ visible' = visible \cup {m}
    /\ blocked' = IF verdict[o] = "ok" THEN blocked \ {m} ELSE blocked \cup {m}
    /\ PutJob(ReportOf(verdict[o]), m)
    /\ UNCHANGED <<messages, work, author>>

ProcessVerdict(o) ==
    LET m == topic[o] IN
    /\ verdict[o] # "none" /\ m \in messages
    /\ IF verdict[o] = "ok"
       THEN visible' = visible \cup {m} /\ UNCHANGED blocked
       ELSE blocked' = blocked \cup {m} /\ UNCHANGED visible
    /\ PutJob(ReportOf(verdict[o]), m)
    /\ UNCHANGED <<messages, work, author>>

ApplyVerdict(o) ==
    /\ o \notin settled
    /\ ProcessVerdict(o)
    /\ settled' = settled \cup {o}
    /\ UNCHANGED <<topic, verdict, givenUp, faults>>

(* ... with the offset not committed: the verdict will be applied again. *)
ApplyUncommitted(o) ==
    /\ o \notin settled /\ Fault
    /\ ProcessVerdict(o)
    /\ UNCHANGED afc

(* Out of retries; the write to the dead letter topic may fail, too. *)
DeadLetter(o) ==
    /\ o \notin settled /\ verdict[o] # "none" /\ Fault
    /\ settled' = settled \cup {o}
    /\ givenUp' = givenUp \cup {o}
    /\ UNCHANGED <<tables, jobs, work, topic, verdict, author>>

-----------------------------------------------------------------------------
(* The author's page. *)

(* Mutant: what is not blocked counts as received. *)
ReceivedUnlessBlocked(m) == [msg |-> m, ticks |-> IF m \in blocked THEN 1 ELSE 2,
                             alert |-> m \in blocked]

(* get-history, and components.js: what a message looks like. *)
Render(m) == [msg |-> m,
              ticks |-> IF m \in visible /\ m \notin blocked THEN 2 ELSE 1,
              alert |-> m \in blocked]

Fresh(m) == [msg |-> m, ticks |-> 1, alert |-> FALSE]

Shown(m) == \E r \in page : r.msg = m

(* The page is opened or opened again: its session and its request for the *)
(* history are begun together and end in any order.                        *)
LoadPage ==
    /\ loads < MaxLoads
    /\ loads' = loads + 1
    /\ online' = FALSE /\ stream' = <<>> /\ replies' = {}
    /\ asked' = "asked" /\ answer' = {} /\ page' = {}
    /\ UNCHANGED <<tables, jobs, work, afc, faults>>

Subscribe ==
    /\ loads > 0 /\ ~online
    /\ online' = TRUE
    /\ UNCHANGED <<tables, jobs, work, afc, loads, stream, replies, asked, answer, page, faults>>

ReadHistory ==
    /\ asked = "asked"
    /\ asked' = "answered"
    /\ answer' = {Render(m) : m \in messages}
    /\ UNCHANGED <<tables, jobs, work, afc, loads, online, stream, replies, page, faults>>

ShowHistory ==
    /\ asked = "answered"
    /\ asked' = "shown"
    /\ page' = page \cup answer /\ answer' = {}
    /\ UNCHANGED <<tables, jobs, work, afc, loads, online, stream, replies, faults>>

(* The answer of sendMessage is shown, whether the message is or not. *)
ShowReply(m) ==
    /\ m \in replies
    /\ replies' = replies \ {m}
    /\ page' = page \cup {Fresh(m)}
    /\ UNCHANGED <<tables, jobs, work, afc, loads, online, stream, asked, answer, faults>>

(* stream.js, eventHandlers: an event on a message that is not shown is    *)
(* lost.                                                                   *)
Handled(e) ==
    CASE e.kind = "new"     -> page \cup (IF Shown(e.msg) THEN {} ELSE {Fresh(e.msg)})
      [] e.kind = "sent"    -> {IF r.msg = e.msg THEN [r EXCEPT !.ticks = 2] ELSE r : r \in page}
      [] e.kind = "blocked" -> {IF r.msg = e.msg THEN [r EXCEPT !.alert = TRUE] ELSE r : r \in page}

HandleEvent ==
    /\ stream # <<>>
    /\ page' = Handled(Head(stream))
    /\ stream' = Tail(stream)
    /\ UNCHANGED <<tables, jobs, work, afc, loads, online, replies, asked, answer, faults>>

(* A session ends: its connection broke, or the event stream has dropped a *)
(* slow reader.                                                            *)
LoseSession ==
    /\ online /\ Fault
    /\ online' = FALSE /\ stream' = <<>>
    /\ UNCHANGED <<tables, jobs, work, afc, loads, replies, asked, answer, page>>

(* The process dies and is started again: its workers, sessions and        *)
(* answers are gone, tables and topics are not.                            *)
Crash ==
    /\ Fault
    /\ task' = [w \in Worker |-> NoJob] /\ step' = [w \in Worker |-> "idle"]
    /\ online' = FALSE /\ stream' = <<>> /\ replies' = {}
    /\ UNCHANGED <<tables, jobs, afc, loads, asked, answer, page>>

-----------------------------------------------------------------------------
WorkerStep(w) ==
    Reserve(w) \/ Produce(w) \/ Publish(w) \/ HandlerFails(w) \/ Delete(w) \/ DeleteFails(w)

VerdictStep(o) == ApplyVerdict(o) \/ ApplyUncommitted(o) \/ DeadLetter(o)

PageStep ==
    \/ LoadPage \/ Subscribe \/ ReadHistory \/ ShowHistory \/ HandleEvent \/ LoseSession
    \/ \E m \in Message : ShowReply(m)

(* Everything is sent, handled, judged and shown; the system rests. *)
Rest ==
    /\ messages = Message /\ owed = {} /\ settled = Offsets
    /\ \A w \in Worker : step[w] = "idle"
    /\ loads = MaxLoads /\ online /\ stream = <<>> /\ replies = {} /\ asked = "shown"
    /\ UNCHANGED vars

Next ==
    \/ \E m \in Message : SendMessage(m)
    \/ \E w \in Worker : WorkerStep(w)
    \/ \E o \in Offsets : Judge(o) \/ VerdictStep(o)
    \/ PageStep
    \/ Crash
    \/ Rest

Spec == Init /\ [][Next]_vars

(* Workers go on, the anti-fraud service answers, answers are processed.   *)
(* Nothing is asked of the author and of the page.                         *)
Fairness ==
    /\ \A w \in Worker : WF_vars(WorkerStep(w))
    /\ WF_vars(\E o \in Offsets : Judge(o))
    /\ WF_vars(\E o \in Offsets : VerdictStep(o))

LiveSpec == Spec /\ Fairness

-----------------------------------------------------------------------------
JobsAbout(m) == {j \in accepted : j.msg = m}
Told(m) == {j \in performed : j.msg = m /\ j.kind # "send"}

(* Each effect has its cause, across all components: what a job is about,  *)
(* what was produced, what a flag, a report or a settled verdict goes      *)
(* back to.                                                                *)
CausesOfJobs ==
    /\ owed \subseteq accepted /\ performed \subseteq accepted /\ buried \subseteq accepted
    /\ accepted \subseteq owed \cup performed \cup buried
    /\ \A j \in accepted :
           /\ j.msg \in messages
           /\ j.kind = "sent" => j.msg \in visible
           /\ j.kind = "blocked" => j.msg \in blocked
    /\ \A j \in performed : j.kind = "send" => j.msg \in {topic[o] : o \in Offsets}

CausesOfWork ==
    \A w \in Worker :
        /\ step[w] # "idle" => task[w] \in accepted
        /\ step[w] = "produce" => task[w].kind = "send"
        /\ step[w] = "publish" /\ task[w].kind = "send" =>
               task[w].msg \in {topic[o] : o \in Offsets}
        /\ step[w] = "delete" => task[w] \in performed

CausesOfVerdicts ==
    /\ visible \subseteq messages /\ blocked \subseteq messages
    /\ \A o \in Offsets :
           /\ topic[o] \in messages
           /\ o \in settled => verdict[o] # "none"
           /\ o \in settled \ givenUp =>
                  \E j \in accepted : j.msg = topic[o] /\ j.kind = ReportOf(verdict[o])

ChatSystemInv ==
    /\ TypeOK /\ CausesOfJobs /\ CausesOfWork /\ CausesOfVerdicts
    /\ \A m \in messages : \E j \in accepted : j.msg = m /\ j.kind = "send"

(* Nobody is forgotten: as long as the author of a stored message has not  *)
(* been told what became of it, a job in the outbox, a record without a    *)
(* settled verdict, a buried job or a verdict given up stands for   *)
(* it -- through crashes, repeated jobs and repeated verdicts.             *)
NobodyForgotten ==
    \A m \in messages :
        \/ Told(m) # {}
        \/ \E j \in owed \cup buried : j.msg = m
        \/ \E o \in Offsets : topic[o] = m /\ (o \notin settled \/ o \in givenUp)

(* The page says nothing untrue: two ticks mean that the manager may see   *)
(* the message, an alert that it is blocked -- whether that came with the  *)
(* history, with an event or with both, late, repeated or out of order.    *)
RowIsTrue(r) ==
    /\ r.msg \in messages
    /\ r.ticks = 2 => r.msg \in visible
    /\ r.alert => r.msg \in blocked

PageIsTrue ==
    /\ \A r \in page \cup answer : RowIsTrue(r)
    /\ replies \subseteq messages
    /\ \A i \in 1..Len(stream) :
           /\ stream[i].msg \in messages
           /\ stream[i].kind = "sent" => stream[i].msg \in visible
           /\ stream[i].kind = "blocked" => stream[i].msg \in blocked

(* What the history says of a message never goes back, also when the       *)
(* anti-fraud service gives both verdicts on one message, in any order;    *)
(* and events announce nothing that is not so.                             *)
StatusOf(m) ==
    CASE m \notin messages -> "none"
      [] m \in messages /\ Render(m).alert -> "blocked"
      [] m \in messages /\ Render(m).ticks = 2 -> "received"
      [] OTHER -> "accepted"

OutcomeOf(j) == IF j.kind = "sent" THEN "received" ELSE "blocked"

Life == INSTANCE MessageLife
            WITH status <- [m \in Message |-> StatusOf(m)],
                 told <- [m \in Message |-> {OutcomeOf(j) : j \in Told(m)}]
ImplementsLife == Life!Spec

(* Each stored message is decided: its author is told, or one of its jobs  *)
(* is in failed_jobs, or a verdict on it was given up.                     *)
Decided(m) ==
    \/ Told(m) # {}
    \/ \E j \in buried : j.msg = m
    \/ \E o \in givenUp : topic[o] = m

EveryMessageDecided == \A m \in Message : m \in messages ~> Decided(m)
=============================================================================
