-------------------------- MODULE ChatSystemProofs --------------------------
(***************************************************************************)
(* The way of a message, for any number of messages, workers, attempts,    *)
(* faults and loads of the page.  Most of the proofs rest on one fact:     *)
(* rows, flags, jobs, records and answers are only ever added.             *)
(***************************************************************************)
EXTENDS ChatSystem, SequenceTheorems, TLAPS

(* What no step takes back. *)
NothingIsTakenBack ==
    /\ messages \subseteq messages' /\ visible \subseteq visible' /\ blocked \subseteq blocked'
    /\ accepted \subseteq accepted' /\ performed \subseteq performed' /\ buried \subseteq buried'
    /\ settled \subseteq settled' /\ givenUp \subseteq givenUp'
    /\ \A o \in Offsets :
           /\ o \in Offsets' /\ topic'[o] = topic[o]
           /\ verdict[o] # "none" => verdict'[o] = verdict[o]

-----------------------------------------------------------------------------
(* Types. *)

LEMMA AppendedTopic ==
    ASSUME TypeOK, NEW m \in Message, AppendTo(m)
    PROVE  /\ topic' \in Seq(Message) /\ Len(topic') = Len(topic) + 1
           /\ Offsets' = Offsets \cup {Len(topic) + 1}
           /\ topic'[Len(topic) + 1] = m /\ verdict'[Len(topic) + 1] = "none"
           /\ \A o \in Offsets : topic'[o] = topic[o] /\ verdict'[o] = verdict[o]
           /\ verdict' \in [Offsets' -> Verdict \cup {"none"}]
<1>1. topic \in Seq(Message) /\ topic' = Append(topic, m) /\ Len(topic) \in Nat
  BY DEF TypeOK, AppendTo
<1>2. verdict \in Seq(Verdict \cup {"none"}) /\ Len(verdict) = Len(topic)
  BY <1>1 DEF TypeOK, Offsets
<1>3. /\ topic' \in Seq(Message) /\ Len(topic') = Len(topic) + 1
      /\ topic'[Len(topic) + 1] = m /\ \A o \in Offsets : topic'[o] = topic[o]
  BY <1>1 DEF Offsets
<1>4. /\ verdict' \in Seq(Verdict \cup {"none"}) /\ Len(verdict') = Len(topic) + 1
      /\ verdict'[Len(topic) + 1] = "none" /\ \A o \in Offsets : verdict'[o] = verdict[o]
  BY <1>1, <1>2 DEF AppendTo, Offsets
<1>5. Offsets' = 1..(Len(topic) + 1)
  BY <1>3 DEF Offsets
<1> QED
  BY <1>1, <1>3, <1>4, <1>5 DEF Offsets

LEMMA NewJob ==
    ASSUME NEW kind \in Kind, NEW m \in Message, PutJob(kind, m)
    PROVE  \E j \in Job \ accepted :
             /\ j.kind = kind /\ j.msg = m
             /\ accepted' = accepted \cup {j} /\ owed' = owed \cup {j}
             /\ UNCHANGED <<performed, buried, tries>>
<1>1. PICK n \in 1..(MaxFaults + 1) :
             Outbox!Accept([kind |-> kind, msg |-> m, nth |-> n]) /\ UNCHANGED tries
  BY DEF PutJob
<1> DEFINE j == [kind |-> kind, msg |-> m, nth |-> n]
<1>2. j \in Job /\ j.kind = kind /\ j.msg = m
  BY DEF Job
<1> QED
  BY <1>1, <1>2 DEF Outbox!Accept

(* Which jobs a worker has in hand, and which variables are its own. *)
LEMMA TaskIsJob ==
    ASSUME TypeOK, CausesOfWork, CausesOfJobs, NEW w \in Worker, step[w] # "idle"
    PROVE  task[w] \in Job /\ task[w] \in accepted /\ task[w].msg \in Message
                           /\ task[w].kind \in Kind
BY DEF TypeOK, CausesOfWork, Job

LEMMA TypeInit == Init => TypeOK
<1> SUFFICES ASSUME Init PROVE TypeOK
  OBVIOUS
<1>1. online \in BOOLEAN
  BY Zenon DEF Init
<1>2. /\ task \in [Worker -> Job \cup {NoJob}]
      /\ step \in [Worker -> {"idle", "produce", "publish", "delete"}]
      /\ tries \in [Job -> Nat] /\ faults \in Nat /\ loads \in Nat
  BY DEF Init
<1>3. /\ topic \in Seq(Message) /\ Offsets = {} /\ stream \in Seq(Event)
  BY DEF Init, Offsets
<1>4. verdict \in [Offsets -> Verdict \cup {"none"}]
  BY <1>3 DEF Init
<1> QED
  BY <1>1, <1>2, <1>3, <1>4 DEF Init, TypeOK

(* The steps of the workers. *)
LEMMA WorkerTypes ==
    ASSUME TypeOK, CausesOfWork, CausesOfJobs, NEW w \in Worker, WorkerStep(w)
    PROVE  TypeOK' /\ NothingIsTakenBack
<1> USE ChatSystemAssumption DEF NothingIsTakenBack, jobs, work, afc, author, tables
<1>1. CASE Reserve(w)
  <2>1. PICK j \in owed :
               /\ task' = [task EXCEPT ![w] = j]
               /\ step' = [step EXCEPT ![w] = IF j.kind = "send" THEN "produce" ELSE "publish"]
               /\ tries' = [tries EXCEPT ![j] = @ + 1]
               /\ faults' = faults \/ faults' = faults + 1
    BY <1>1 DEF Reserve, Available, Fault
  <2>2. task' \in [Worker -> Job \cup {NoJob}] /\ tries' \in [Job -> Nat] /\ faults' \in Nat
    BY <2>1 DEF TypeOK
  <2>3. step' \in [Worker -> {"idle", "produce", "publish", "delete"}]
    BY <2>1 DEF TypeOK
  <2> QED
    BY <1>1, <2>2, <2>3 DEF Reserve, TypeOK, Offsets
<1>2. ASSUME step' = [step EXCEPT ![w] = "publish"] \/ step' = [step EXCEPT ![w] = "delete"]
             \/ step' = [step EXCEPT ![w] = "idle"],
             task' = task \/ task' = [task EXCEPT ![w] = NoJob]
      PROVE  /\ task' \in [Worker -> Job \cup {NoJob}]
             /\ step' \in [Worker -> {"idle", "produce", "publish", "delete"}]
  BY <1>2 DEF TypeOK
<1>3. CASE Produce(w)
  <2>1. AppendTo(task[w].msg) /\ task[w].msg \in Message /\ GoTo(w, "publish")
        /\ UNCHANGED <<tables, jobs, author, faults>>
    BY <1>3, TaskIsJob DEF Produce
  <2> QED
    BY <1>2, <2>1, AppendedTopic DEF GoTo, AppendTo, TypeOK
<1>4. CASE Publish(w)
  <2>1. task[w] \in Job /\ task[w].msg \in Message /\ task[w].kind \in Kind
    BY <1>4, TaskIsJob DEF Publish
  <2>2. EventOf(task[w]) \in Event
    BY <2>1 DEF EventOf, Event, Kind
  <2>3. stream' \in Seq(Event)
    BY <1>4, <2>2 DEF Publish, TypeOK
  <2> QED
    BY <1>2, <1>4, <2>1, <2>3 DEF Publish, GoTo, TypeOK, Outbox!Perform, Offsets
<1>5. CASE HandlerFails(w)
  <2>1. /\ faults' \in Nat /\ UNCHANGED <<tables, author, accepted, performed, tries>>
        /\ owed' \subseteq owed /\ buried \subseteq buried' /\ buried' \subseteq buried \cup owed
        /\ task' = [task EXCEPT ![w] = NoJob] /\ step' = [step EXCEPT ![w] = "idle"]
    BY <1>5 DEF HandlerFails, GiveUp, Fault, Idle, Outbox!BuryJob, TypeOK
  <2>2. CASE UNCHANGED afc
    BY <1>2, <2>1, <2>2 DEF TypeOK, Offsets
  <2>3. CASE step[w] = "produce" /\ AppendTo(task[w].msg)
    <3>1. task[w].msg \in Message
      BY <2>3, TaskIsJob
    <3> QED
      BY <1>2, <2>1, <2>3, <3>1, AppendedTopic DEF AppendTo, TypeOK
  <2> QED
    BY <1>5, <2>2, <2>3 DEF HandlerFails
<1>6. CASE Delete(w) \/ DeleteFails(w)
  <2>1. /\ faults' \in Nat /\ UNCHANGED <<tables, author, afc, accepted, performed, buried, tries>>
        /\ owed' \subseteq owed
        /\ task' = [task EXCEPT ![w] = NoJob] /\ step' = [step EXCEPT ![w] = "idle"]
    BY <1>6 DEF Delete, DeleteFails, Idle, Fault, Outbox!Complete, TypeOK
  <2> QED
    BY <1>2, <2>1 DEF TypeOK, Offsets
<1> QED
  BY <1>1, <1>3, <1>4, <1>5, <1>6 DEF WorkerStep

(* The request and the verdicts. *)
LEMMA RequestTypes ==
    ASSUME TypeOK, NEW m \in Message, SendMessage(m)
    PROVE  TypeOK' /\ NothingIsTakenBack
<1>1. PICK j \in Job \ accepted :
             /\ accepted' = accepted \cup {j} /\ owed' = owed \cup {j}
             /\ UNCHANGED <<performed, buried, tries>>
  BY NewJob DEF SendMessage, Kind
<1>2. replies' \subseteq Message /\ faults' \in Nat
  BY DEF SendMessage, TypeOK, Fault
<1> QED
  BY <1>1, <1>2 DEF SendMessage, TypeOK, NothingIsTakenBack, Offsets, work, afc

LEMMA JudgeTypes ==
    ASSUME TypeOK, NEW o \in Offsets, Judge(o)
    PROVE  TypeOK' /\ NothingIsTakenBack
<1>1. topic[o] \in Message
  BY DEF TypeOK, Offsets
<1>2. PICK v \in Verdict : verdict' = [verdict EXCEPT ![o] = v]
  BY <1>1, ChatSystemAssumption DEF Judge
<1>3. Offsets' = Offsets /\ verdict' \in [Offsets -> Verdict \cup {"none"}]
  BY <1>2 DEF Judge, TypeOK, Offsets
<1> QED
  BY <1>2, <1>3 DEF Judge, TypeOK, NothingIsTakenBack, tables, jobs, work, author

LEMMA VerdictTypes ==
    ASSUME TypeOK, NEW o \in Offsets, VerdictStep(o)
    PROVE  TypeOK' /\ NothingIsTakenBack
<1>1. CASE ApplyVerdict(o) \/ ApplyUncommitted(o)
  <2>1. ProcessVerdict(o) /\ UNCHANGED <<topic, verdict, givenUp>>
        /\ (settled' = settled \/ settled' = settled \cup {o}) /\ faults' \in Nat
    BY <1>1 DEF ApplyVerdict, ApplyUncommitted, afc, Fault, TypeOK
  <2>2. topic[o] \in Message /\ ReportOf(verdict[o]) \in Kind
    BY DEF TypeOK, Offsets, ReportOf, Kind
  <2>3. PICK j \in Job \ accepted :
               /\ accepted' = accepted \cup {j} /\ owed' = owed \cup {j}
               /\ UNCHANGED <<performed, buried, tries>>
    BY <2>1, <2>2, NewJob DEF ProcessVerdict
  <2>4. /\ visible \subseteq visible' /\ visible' \subseteq Message
        /\ blocked \subseteq blocked' /\ blocked' \subseteq Message
        /\ UNCHANGED <<messages, work, author>>
    BY <2>1, <2>2 DEF ProcessVerdict, TypeOK
  <2> QED
    BY <2>1, <2>3, <2>4 DEF TypeOK, NothingIsTakenBack, Offsets, work, author
<1>2. CASE DeadLetter(o)
  BY <1>2 DEF DeadLetter, Fault, TypeOK, NothingIsTakenBack, Offsets, tables, jobs, work, author
<1> QED
  BY <1>1, <1>2 DEF VerdictStep

(* The page. *)
LEMMA RowsOfMessages ==
    ASSUME NEW m \in Message
    PROVE  Render(m) \in Row /\ Fresh(m) \in Row
BY DEF Render, Fresh, Row

LEMMA HandledTypes ==
    ASSUME TypeOK, stream # <<>>
    PROVE  Handled(Head(stream)) \subseteq Row
<1> DEFINE e == Head(stream)
<1>1. e \in Event
  BY DEF TypeOK
<1>2. e.msg \in Message /\ e.kind \in {"new", "sent", "blocked"}
  BY <1>1 DEF Event
<1>3. CASE e.kind = "new"
  BY <1>2, <1>3, RowsOfMessages DEF Handled, TypeOK
<1>4. ASSUME NEW r \in Row PROVE [r EXCEPT !.ticks = 2] \in Row /\ [r EXCEPT !.alert = TRUE] \in Row
  BY <1>4 DEF Row
<1>5. CASE e.kind = "sent"
  <2>1. Handled(e) = {IF r.msg = e.msg THEN [r EXCEPT !.ticks = 2] ELSE r : r \in page}
    BY <1>5 DEF Handled
  <2> QED
    BY <1>4, <2>1 DEF TypeOK
<1>6. CASE e.kind = "blocked"
  <2>1. Handled(e) = {IF r.msg = e.msg THEN [r EXCEPT !.alert = TRUE] ELSE r : r \in page}
    BY <1>6 DEF Handled
  <2> QED
    BY <1>4, <2>1 DEF TypeOK
<1> QED
  BY <1>2, <1>3, <1>5, <1>6

LEMMA PageTypes ==
    ASSUME TypeOK, PageStep \/ Crash
    PROVE  TypeOK' /\ NothingIsTakenBack
<1>1. /\ UNCHANGED <<tables, jobs, afc>> /\ faults' \in Nat /\ loads' \in Nat
      /\ task' \in [Worker -> Job \cup {NoJob}]
      /\ step' \in [Worker -> {"idle", "produce", "publish", "delete"}]
  BY DEF PageStep, LoadPage, Subscribe, ReadHistory, ShowHistory, ShowReply, HandleEvent,
     LoseSession, Crash, Fault, TypeOK, work
<1>2. online' \in BOOLEAN
  <2>1. CASE LoadPage \/ LoseSession \/ Crash
    BY Zenon, <2>1 DEF LoadPage, LoseSession, Crash
  <2>2. CASE Subscribe
    BY Zenon, <2>2 DEF Subscribe
  <2>3. CASE ReadHistory \/ ShowHistory \/ HandleEvent \/ \E m \in Message : ShowReply(m)
    <3>1. online' = online
      BY <2>3 DEF ReadHistory, ShowHistory, HandleEvent, ShowReply
    <3> QED
      BY Zenon, <3>1 DEF TypeOK
  <2> QED
    BY <2>1, <2>2, <2>3 DEF PageStep
<1>3. stream' \in Seq(Event)
  <2>1. stream' = stream \/ stream' = <<>> \/ (stream # <<>> /\ stream' = Tail(stream))
    BY DEF PageStep, LoadPage, Subscribe, ReadHistory, ShowHistory, ShowReply, HandleEvent,
       LoseSession, Crash
  <2>2. stream \in Seq(Event)
    BY DEF TypeOK
  <2>3. stream # <<>> => Tail(stream) \in Seq(Event)
    BY <2>2, HeadTailProperties
  <2>4. <<>> \in Seq(Event)
    OBVIOUS
  <2> QED
    BY <2>1, <2>2, <2>3, <2>4, Zenon
<1>4. replies' \subseteq Message /\ asked' \in {"no", "asked", "answered", "shown"}
  BY DEF PageStep, LoadPage, Subscribe, ReadHistory, ShowHistory, ShowReply, HandleEvent,
     LoseSession, Crash, TypeOK
<1>5. answer' \subseteq Row
  BY RowsOfMessages DEF PageStep, LoadPage, Subscribe, ReadHistory, ShowHistory, ShowReply,
     HandleEvent, LoseSession, Crash, TypeOK
<1>6. page' \subseteq Row
  BY RowsOfMessages, HandledTypes DEF PageStep, LoadPage, Subscribe, ReadHistory, ShowHistory,
     ShowReply, HandleEvent, LoseSession, Crash, TypeOK
<1> QED
  BY <1>1, <1>2, <1>3, <1>4, <1>5, <1>6 DEF TypeOK, NothingIsTakenBack, Offsets, tables, jobs, afc

LEMMA TypeStep ==
    ASSUME TypeOK, CausesOfWork, CausesOfJobs, [Next]_vars
    PROVE  TypeOK' /\ NothingIsTakenBack
<1>1. CASE Rest \/ UNCHANGED vars
  BY <1>1 DEF Rest, vars, tables, jobs, work, afc, author, TypeOK, NothingIsTakenBack, Offsets
<1> QED
  BY <1>1, RequestTypes, WorkerTypes, JudgeTypes, VerdictTypes, PageTypes DEF Next

-----------------------------------------------------------------------------
(* What a step does to the jobs, to a worker and to the records. *)

Produced == {topic[o] : o \in Offsets}

(* A job that comes is about something that is already so. *)
Founded(j) ==
    /\ j.msg \in messages
    /\ j.kind = "sent" => j.msg \in visible
    /\ j.kind = "blocked" => j.msg \in blocked

HasSendJob(m) == \E j \in accepted : j.msg = m /\ j.kind = "send"

JobsStep ==
    \/ UNCHANGED <<accepted, owed, performed, buried>>
    \/ \E j \in Job : /\ accepted' = accepted \cup {j} /\ owed' = owed \cup {j}
                      /\ Founded(j)' /\ UNCHANGED <<performed, buried>>
    \/ \E j \in accepted : /\ performed' = performed \cup {j} /\ UNCHANGED <<accepted, owed, buried>>
                           /\ j.kind = "send" => j.msg \in Produced
    \/ \E j \in owed : /\ j \in performed /\ owed' = owed \ {j}
                       /\ UNCHANGED <<accepted, performed, buried>>
    \/ \E j \in owed : /\ owed' = owed \ {j} /\ buried' = buried \cup {j}
                       /\ UNCHANGED <<accepted, performed>>

WorkStep(v) ==
    \/ task'[v] = task[v] /\ step'[v] = step[v]
    \/ step'[v] = "idle"
    \/ /\ task'[v] \in owed
       /\ step'[v] = IF task'[v].kind = "send" THEN "produce" ELSE "publish"
    \/ /\ step[v] = "produce" /\ task'[v] = task[v] /\ step'[v] = "publish"
       /\ task[v].msg \in Produced'
    \/ step'[v] = "delete" /\ task'[v] = task[v] /\ task[v] \in performed' /\ step[v] = "publish"

RecordsStep ==
    \/ UNCHANGED <<topic, settled, givenUp>>
    \/ \E m \in messages : AppendTo(m)
    \/ \E o \in Offsets : /\ settled' = settled \cup {o} /\ verdict[o] # "none"
                          /\ UNCHANGED <<topic, verdict>>
                          /\ \/ o \in givenUp'
                             \/ \E j \in accepted' : /\ j.msg = topic[o]
                                                     /\ j.kind = ReportOf(verdict[o])

(* A worker's step. *)
LEMMA WorkerSteps ==
    ASSUME ChatSystemInv, NEW w \in Worker, WorkerStep(w)
    PROVE  /\ JobsStep /\ RecordsStep /\ \A v \in Worker : WorkStep(v)
           /\ UNCHANGED tables /\ UNCHANGED <<replies, page, answer>>
<1> USE DEF ChatSystemInv
<1>0. NothingIsTakenBack
  BY WorkerTypes
<1>1. CASE Reserve(w)
  <2>1. PICK j \in owed :
               /\ task' = [task EXCEPT ![w] = j]
               /\ step' = [step EXCEPT ![w] = IF j.kind = "send" THEN "produce" ELSE "publish"]
    BY <1>1 DEF Reserve, Available
  <2>2. \A v \in Worker : WorkStep(v)
    BY <2>1 DEF WorkStep, TypeOK
  <2> QED
    BY <1>1, <2>2 DEF Reserve, JobsStep, RecordsStep, afc, author
<1>2. CASE Produce(w)
  <2>1. task[w].msg \in Message /\ task[w].msg \in messages /\ AppendTo(task[w].msg)
    BY <1>2, TaskIsJob DEF Produce, MessageIsStored
  <2>2. task[w].msg \in Produced'
    BY <2>1, AppendedTopic DEF Produced, TypeOK
  <2>3. \A v \in Worker : WorkStep(v)
    BY <1>2, <2>2 DEF WorkStep, Produce, GoTo, TypeOK
  <2> QED
    BY <1>2, <2>1, <2>3 DEF Produce, JobsStep, RecordsStep, jobs, author
<1>3. CASE Publish(w)
  <2>1. /\ task[w] \in accepted /\ performed' = performed \cup {task[w]}
        /\ UNCHANGED <<accepted, owed, buried>>
        /\ step' = [step EXCEPT ![w] = "delete"] /\ task' = task
        /\ step[w] = "publish"
    BY <1>3 DEF Publish, Outbox!Perform, GoTo
  <2>2. task[w].kind = "send" => task[w].msg \in Produced
    BY <2>1 DEF CausesOfWork, Produced
  <2>3. \A v \in Worker : WorkStep(v)
    BY <2>1 DEF WorkStep, TypeOK
  <2>4. JobsStep
    BY <2>1, <2>2 DEF JobsStep
  <2> QED
    BY <1>3, <2>3, <2>4 DEF Publish, RecordsStep, afc
<1>4. CASE HandlerFails(w)
  <2>1. JobsStep
    BY <1>4 DEF HandlerFails, GiveUp, Outbox!BuryJob, JobsStep
  <2>2. \A v \in Worker : WorkStep(v)
    BY <1>4 DEF HandlerFails, GiveUp, Idle, WorkStep, TypeOK
  <2>3. RecordsStep
    BY <1>4 DEF HandlerFails, MessageIsStored, RecordsStep, afc
  <2> QED
    BY <1>4, <2>1, <2>2, <2>3 DEF HandlerFails, author
<1>5. CASE Delete(w) \/ DeleteFails(w)
  <2>1. JobsStep
    BY <1>5 DEF Delete, DeleteFails, Outbox!Complete, JobsStep, jobs
  <2>2. \A v \in Worker : WorkStep(v)
    BY <1>5 DEF Delete, DeleteFails, Idle, WorkStep, TypeOK
  <2> QED
    BY <1>5, <2>1, <2>2 DEF Delete, DeleteFails, RecordsStep, afc, author
<1> QED
  BY <1>1, <1>2, <1>3, <1>4, <1>5 DEF WorkerStep

LEMMA RequestSteps ==
    ASSUME ChatSystemInv, NEW m \in Message, SendMessage(m)
    PROVE  /\ JobsStep /\ RecordsStep /\ \A v \in Worker : WorkStep(v)
           /\ \E j \in accepted' : j.msg = m /\ j.kind = "send"
           /\ messages' = messages \cup {m} /\ UNCHANGED <<visible, blocked>>
<1>1. PICK j \in Job \ accepted :
             /\ j.kind = "send" /\ j.msg = m
             /\ accepted' = accepted \cup {j} /\ owed' = owed \cup {j}
             /\ UNCHANGED <<performed, buried, tries>>
  BY NewJob DEF SendMessage, Kind
<1>2. Founded(j)'
  BY <1>1 DEF Founded, SendMessage
<1>3. JobsStep
  BY <1>1, <1>2 DEF JobsStep
<1> QED
  BY <1>1, <1>3 DEF SendMessage, RecordsStep, WorkStep, work, afc

LEMMA VerdictSteps ==
    ASSUME ChatSystemInv, NEW o \in Offsets, VerdictStep(o)
    PROVE  /\ JobsStep /\ RecordsStep /\ \A v \in Worker : WorkStep(v)
           /\ messages' = messages /\ UNCHANGED <<performed, replies, page, answer, stream>>
           /\ \/ UNCHANGED <<visible, blocked>>
              \/ visible' = visible \cup {topic[o]} /\ UNCHANGED blocked
              \/ blocked' = blocked \cup {topic[o]} /\ UNCHANGED visible
<1>1. CASE ApplyVerdict(o) \/ ApplyUncommitted(o)
  <2>1. ProcessVerdict(o) /\ UNCHANGED <<topic, verdict, givenUp>>
        /\ (settled' = settled \/ settled' = settled \cup {o})
    BY <1>1 DEF ApplyVerdict, ApplyUncommitted, afc
  <2>2. topic[o] \in Message /\ ReportOf(verdict[o]) \in Kind
    BY DEF ChatSystemInv, TypeOK, Offsets, ReportOf, Kind
  <2>3. PICK j \in Job \ accepted :
               /\ j.kind = ReportOf(verdict[o]) /\ j.msg = topic[o]
               /\ accepted' = accepted \cup {j} /\ owed' = owed \cup {j}
               /\ UNCHANGED <<performed, buried, tries>>
    BY <2>1, <2>2, NewJob DEF ProcessVerdict
  <2>4. /\ IF verdict[o] = "ok"
           THEN visible' = visible \cup {topic[o]} /\ UNCHANGED blocked
           ELSE blocked' = blocked \cup {topic[o]} /\ UNCHANGED visible
        /\ verdict[o] # "none" /\ topic[o] \in messages
        /\ UNCHANGED <<messages, work, author>>
    BY <2>1 DEF ProcessVerdict
  <2>5. Founded(j)'
    BY <2>3, <2>4 DEF Founded, ReportOf
  <2>6. JobsStep
    BY <2>3, <2>5 DEF JobsStep
  <2>7. RecordsStep
    BY <2>1, <2>3, <2>4 DEF RecordsStep
  <2> QED
    BY <2>3, <2>4, <2>6, <2>7 DEF WorkStep, work, author
<1>2. CASE DeadLetter(o)
  BY <1>2 DEF DeadLetter, tables, jobs, work, author, JobsStep, RecordsStep, WorkStep
<1> QED
  BY <1>1, <1>2 DEF VerdictStep

LEMMA OtherSteps ==
    ASSUME ChatSystemInv,
           (\E o \in Offsets : Judge(o)) \/ PageStep \/ Crash \/ Rest \/ UNCHANGED vars
    PROVE  /\ JobsStep /\ RecordsStep /\ \A v \in Worker : WorkStep(v)
           /\ UNCHANGED tables /\ UNCHANGED performed
<1>1. CASE \E o \in Offsets : Judge(o)
  BY <1>1 DEF Judge, tables, jobs, work, JobsStep, RecordsStep, WorkStep
<1>2. CASE PageStep
  BY <1>2 DEF PageStep, LoadPage, Subscribe, ReadHistory, ShowHistory, ShowReply, HandleEvent,
     LoseSession, tables, jobs, work, afc, JobsStep, RecordsStep, WorkStep
<1>3. CASE Crash
  BY <1>3 DEF Crash, tables, jobs, afc, JobsStep, RecordsStep, WorkStep
<1>4. CASE Rest \/ UNCHANGED vars
  BY <1>4 DEF Rest, vars, tables, jobs, work, afc, JobsStep, RecordsStep, WorkStep
<1> QED
  BY <1>1, <1>2, <1>3, <1>4

LEMMA EveryStep ==
    ASSUME ChatSystemInv, [Next]_vars
    PROVE  /\ TypeOK' /\ NothingIsTakenBack
           /\ JobsStep /\ RecordsStep /\ \A v \in Worker : WorkStep(v)
           /\ \/ UNCHANGED tables
              \/ \E o \in Offsets : VerdictStep(o)
              \/ \E m \in Message : SendMessage(m)
<1>1. TypeOK' /\ NothingIsTakenBack
  BY TypeStep DEF ChatSystemInv
<1> QED
  BY <1>1, WorkerSteps, RequestSteps, VerdictSteps, OtherSteps DEF Next

-----------------------------------------------------------------------------
(* The invariant. *)

LEMMA JobsKeepTheirCauses ==
    ASSUME ChatSystemInv, JobsStep, NothingIsTakenBack
    PROVE  CausesOfJobs'
<1>1. Produced \subseteq Produced'
  BY DEF Produced, NothingIsTakenBack
<1>2. \A j \in accepted : Founded(j)'
  BY DEF ChatSystemInv, CausesOfJobs, Founded, NothingIsTakenBack
<1> DEFINE InOrder ==
             /\ owed \subseteq accepted /\ performed \subseteq accepted /\ buried \subseteq accepted
             /\ accepted \subseteq owed \cup performed \cup buried
             /\ \A j \in accepted : Founded(j)
             /\ \A j \in performed : j.kind = "send" => j.msg \in Produced
<1>3. InOrder
  BY DEF ChatSystemInv, CausesOfJobs, Founded, Produced
<1>4. InOrder'
  <2>1. CASE UNCHANGED <<accepted, owed, performed, buried>>
    BY <1>1, <1>2, <1>3, <2>1
  <2>2. ASSUME NEW j \in Job, accepted' = accepted \cup {j}, owed' = owed \cup {j},
               Founded(j)', UNCHANGED <<performed, buried>>
        PROVE  InOrder'
    BY <1>1, <1>2, <1>3, <2>2
  <2>3. ASSUME NEW j \in accepted, performed' = performed \cup {j},
               UNCHANGED <<accepted, owed, buried>>, j.kind = "send" => j.msg \in Produced
        PROVE  InOrder'
    BY <1>1, <1>2, <1>3, <2>3
  <2>4. ASSUME NEW j \in owed, owed' = owed \ {j}, UNCHANGED <<accepted, performed>>,
               (j \in performed /\ buried' = buried) \/ buried' = buried \cup {j}
        PROVE  InOrder'
    BY <1>1, <1>2, <1>3, <2>4
  <2> QED
    BY <2>1, <2>2, <2>3, <2>4 DEF JobsStep
<1> QED
  BY <1>4 DEF CausesOfJobs, Founded, Produced

LEMMA WorkKeepsItsCauses ==
    ASSUME ChatSystemInv, \A v \in Worker : WorkStep(v), NothingIsTakenBack, TypeOK'
    PROVE  CausesOfWork'
<1>1. Produced \subseteq Produced'
  BY DEF Produced, NothingIsTakenBack
<1>2. owed \subseteq accepted /\ accepted \subseteq accepted' /\ performed \subseteq performed'
  BY DEF ChatSystemInv, CausesOfJobs, NothingIsTakenBack
<1>3. ASSUME NEW v \in Worker
      PROVE  /\ step'[v] # "idle" => task'[v] \in accepted'
             /\ step'[v] = "produce" => task'[v].kind = "send"
             /\ step'[v] = "publish" /\ task'[v].kind = "send" => task'[v].msg \in Produced'
             /\ step'[v] = "delete" => task'[v] \in performed'
  <2>1. /\ step[v] # "idle" => task[v] \in accepted
        /\ step[v] = "produce" => task[v].kind = "send"
        /\ step[v] = "publish" /\ task[v].kind = "send" => task[v].msg \in Produced
        /\ step[v] = "delete" => task[v] \in performed
    BY DEF ChatSystemInv, CausesOfWork, Produced
  <2> QED
    BY <1>1, <1>2, <2>1 DEF WorkStep
<1> QED
  BY <1>3 DEF CausesOfWork, Produced

LEMMA VerdictsKeepTheirCauses ==
    ASSUME ChatSystemInv, RecordsStep, NothingIsTakenBack, TypeOK',
           visible' \subseteq messages', blocked' \subseteq messages'
    PROVE  CausesOfVerdicts'
<1> DEFINE Answered(o) == \E j \in accepted : j.msg = topic[o] /\ j.kind = ReportOf(verdict[o])
           Caused(o) == /\ topic[o] \in messages
                        /\ o \in settled => verdict[o] # "none"
                        /\ o \in settled \ givenUp => Answered(o)
<1>1. \A o \in Offsets : Caused(o)
  BY DEF ChatSystemInv, CausesOfVerdicts
<1>2. ASSUME NEW o \in Offsets, o \in settled' => o \in settled PROVE Caused(o)'
  BY <1>1, <1>2 DEF NothingIsTakenBack
<1>3. CASE UNCHANGED <<topic, settled, givenUp>>
  <2>1. Offsets' = Offsets
    BY <1>3 DEF Offsets
  <2> QED
    BY <1>2, <1>3, <2>1 DEF CausesOfVerdicts
<1>4. ASSUME NEW m \in messages, AppendTo(m) PROVE CausesOfVerdicts'
  <2>1. PICK n : n = Len(topic) + 1
    OBVIOUS
  <2>2. /\ Offsets' = Offsets \cup {n} /\ topic'[n] = m
        /\ m \in messages' /\ settled' = settled /\ n \notin settled
    BY <1>4, <2>1, AppendedTopic DEF ChatSystemInv, TypeOK, AppendTo, Offsets, NothingIsTakenBack
  <2>3. Caused(n)'
    BY <2>2
  <2> QED
    BY <1>2, <2>2, <2>3 DEF CausesOfVerdicts
<1>5. ASSUME NEW o \in Offsets, settled' = settled \cup {o}, verdict[o] # "none",
             UNCHANGED <<topic, verdict>>,
             \/ o \in givenUp'
             \/ \E j \in accepted' : j.msg = topic[o] /\ j.kind = ReportOf(verdict[o])
      PROVE  CausesOfVerdicts'
  <2>1. Offsets' = Offsets
    BY <1>5 DEF Offsets
  <2>2. Caused(o)'
    BY <1>1, <1>5 DEF NothingIsTakenBack
  <2> QED
    BY <1>2, <1>5, <2>1, <2>2 DEF CausesOfVerdicts
<1> QED
  BY <1>3, <1>4, <1>5 DEF RecordsStep

LEMMA InvariantInit == Init => ChatSystemInv
<1> SUFFICES ASSUME Init PROVE ChatSystemInv
  OBVIOUS
<1>1. TypeOK
  BY TypeInit
<1>2. /\ messages = {} /\ visible = {} /\ blocked = {} /\ Offsets = {}
      /\ accepted = {} /\ owed = {} /\ performed = {} /\ buried = {}
      /\ \A w \in Worker : step[w] = "idle"
  BY DEF Init, Offsets
<1> QED
  BY <1>1, <1>2 DEF ChatSystemInv, CausesOfJobs, CausesOfWork, CausesOfVerdicts

LEMMA InvariantStep ==
    ASSUME ChatSystemInv, [Next]_vars
    PROVE  ChatSystemInv'
<1>1. /\ TypeOK' /\ NothingIsTakenBack
      /\ JobsStep /\ RecordsStep /\ \A v \in Worker : WorkStep(v)
  BY EveryStep
<1>2. visible \subseteq messages /\ blocked \subseteq messages /\ \A o \in Offsets : topic[o] \in messages
  BY DEF ChatSystemInv, CausesOfVerdicts
<1>3. visible' \subseteq messages' /\ blocked' \subseteq messages'
  BY <1>2, EveryStep, RequestSteps, VerdictSteps DEF tables
<1>4. \A m \in messages : HasSendJob(m)
  BY DEF ChatSystemInv, HasSendJob
<1>5. \A m \in messages' : HasSendJob(m)'
  <2>1. \A m \in messages : HasSendJob(m)'
    BY <1>1, <1>4 DEF HasSendJob, NothingIsTakenBack
  <2>2. ASSUME NEW m \in Message, SendMessage(m) PROVE messages' = messages \cup {m} /\ HasSendJob(m)'
    BY <2>2, RequestSteps DEF HasSendJob
  <2>3. ASSUME NEW o \in Offsets, VerdictStep(o) PROVE messages' = messages
    BY <2>3, VerdictSteps
  <2> QED
    BY <2>1, <2>2, <2>3, EveryStep DEF tables
<1> QED
  BY <1>1, <1>3, <1>5, JobsKeepTheirCauses, WorkKeepsItsCauses, VerdictsKeepTheirCauses
     DEF ChatSystemInv, HasSendJob

(* Every effect has its cause, across the request, the outbox, the topics  *)
(* and the verdict processor: jobs are about stored messages and say what  *)
(* is so, what is produced was stored, a verdict that was settled and not  *)
(* given up has left its job.                                              *)
THEOREM ChatSystemInvariant == Spec => []ChatSystemInv
<1> QED
  BY InvariantInit, InvariantStep, PTL DEF Spec

(* Nobody is forgotten follows from it: the first job of a message leads   *)
(* to a record, the record to a verdict, the verdict to a second job.      *)
THEOREM NobodyIsForgotten == Spec => []NobodyForgotten
<1>1. ChatSystemInv => NobodyForgotten
  <2> SUFFICES ASSUME ChatSystemInv, NEW m \in messages
               PROVE  \/ Told(m) # {}
                      \/ \E j \in owed \cup buried : j.msg = m
                      \/ \E o \in Offsets : topic[o] = m /\ (o \notin settled \/ o \in givenUp)
    BY DEF NobodyForgotten
  <2>1. /\ accepted \subseteq owed \cup performed \cup buried
        /\ \A j \in performed : j.kind = "send" => j.msg \in {topic[o] : o \in Offsets}
    BY DEF ChatSystemInv, CausesOfJobs
  <2>2. PICK j \in accepted : j.msg = m /\ j.kind = "send"
    BY DEF ChatSystemInv
  <2>3. CASE j \in performed
    <3>1. PICK o \in Offsets : topic[o] = m
      BY <2>1, <2>2, <2>3
    <3>2. CASE o \in settled \ givenUp
      <4>1. PICK r \in accepted : r.msg = m /\ r.kind = ReportOf(verdict[o])
        BY <3>1, <3>2 DEF ChatSystemInv, CausesOfVerdicts
      <4>2. r.kind # "send"
        BY <4>1 DEF ReportOf
      <4> QED
        BY <2>1, <4>1, <4>2 DEF Told
    <3> QED
      BY <3>1, <3>2
  <2> QED
    BY <2>1, <2>2, <2>3
<1> QED
  BY <1>1, ChatSystemInvariant, PTL

-----------------------------------------------------------------------------
(* The page. *)

(* What is true of a row or of an event stays true. *)
EventIsTrue(e) ==
    /\ e.msg \in messages
    /\ e.kind = "sent" => e.msg \in visible
    /\ e.kind = "blocked" => e.msg \in blocked

LEMMA TruthStays ==
    ASSUME NothingIsTakenBack
    PROVE  /\ \A r : RowIsTrue(r) => RowIsTrue(r)'
           /\ \A e : EventIsTrue(e) => EventIsTrue(e)'
BY DEF NothingIsTakenBack, RowIsTrue, EventIsTrue

LEMMA HandledIsTrue ==
    ASSUME TypeOK, stream # <<>>, EventIsTrue(Head(stream)), \A r \in page : RowIsTrue(r)
    PROVE  \A r \in Handled(Head(stream)) : RowIsTrue(r)
<1> DEFINE e == Head(stream)
<1>1. e \in Event
  BY DEF TypeOK
<1>2. e.kind \in {"new", "sent", "blocked"}
  BY <1>1 DEF Event
<1>3. CASE e.kind = "new"
  BY <1>3 DEF Handled, EventIsTrue, RowIsTrue, Fresh
<1>4. CASE e.kind = "sent"
  <2>1. Handled(e) = {IF r.msg = e.msg THEN [r EXCEPT !.ticks = 2] ELSE r : r \in page}
    BY <1>4 DEF Handled
  <2>2. ASSUME NEW r \in page, r.msg = e.msg PROVE RowIsTrue([r EXCEPT !.ticks = 2])
    <3>1. r \in Row /\ RowIsTrue(r)
      BY DEF TypeOK
    <3>2. [r EXCEPT !.ticks = 2].msg = r.msg /\ [r EXCEPT !.ticks = 2].alert = r.alert
      BY <3>1 DEF Row
    <3>3. e.msg \in visible
      BY <1>4 DEF EventIsTrue
    <3> QED
      BY <2>2, <3>1, <3>2, <3>3, Zenon DEF RowIsTrue
  <2> QED
    BY <2>1, <2>2, Zenon
<1>5. CASE e.kind = "blocked"
  <2>1. Handled(e) = {IF r.msg = e.msg THEN [r EXCEPT !.alert = TRUE] ELSE r : r \in page}
    BY <1>5 DEF Handled
  <2>2. ASSUME NEW r \in page, r.msg = e.msg PROVE RowIsTrue([r EXCEPT !.alert = TRUE])
    <3>1. r \in Row /\ RowIsTrue(r)
      BY DEF TypeOK
    <3>2. [r EXCEPT !.alert = TRUE].msg = r.msg /\ [r EXCEPT !.alert = TRUE].ticks = r.ticks
      BY <3>1 DEF Row
    <3>3. e.msg \in blocked
      BY <1>5 DEF EventIsTrue
    <3> QED
      BY <2>2, <3>1, <3>2, <3>3, Zenon DEF RowIsTrue
  <2> QED
    BY <2>1, <2>2, Zenon
<1> QED
  BY <1>2, <1>3, <1>4, <1>5

StreamIsTrue == \A i \in 1..Len(stream) : EventIsTrue(stream[i])
RowsAreTrue  == \A r \in page \cup answer : RowIsTrue(r)

LEMMA StreamStaysTrue ==
    ASSUME ChatSystemInv, StreamIsTrue, [Next]_vars
    PROVE  StreamIsTrue'
<1>0. stream \in Seq(Event) /\ NothingIsTakenBack
  BY EveryStep DEF ChatSystemInv, TypeOK
<1>1. CASE stream' = stream \/ stream' = <<>>
  BY <1>0, <1>1, TruthStays DEF StreamIsTrue
<1>2. CASE stream # <<>> /\ stream' = Tail(stream)
  <2>1. /\ Len(Tail(stream)) = Len(stream) - 1 /\ Len(stream) \in Nat
        /\ \A i \in 1..Len(Tail(stream)) : Tail(stream)[i] = stream[i + 1]
    BY <1>0, <1>2, HeadTailProperties
  <2> QED
    BY <1>0, <1>2, <2>1, TruthStays DEF StreamIsTrue
<1>3. ASSUME NEW w \in Worker, Publish(w), stream' = Append(stream, EventOf(task[w]))
      PROVE  StreamIsTrue'
  <2>1. task[w] \in accepted /\ task[w] \in Job
    BY <1>3, TaskIsJob DEF ChatSystemInv, Publish
  <2>2. EventIsTrue(EventOf(task[w]))
    BY <2>1 DEF ChatSystemInv, CausesOfJobs, EventOf, EventIsTrue
  <2>3. EventOf(task[w]) \in Event
    BY <2>1 DEF EventOf, Event, Job, Kind
  <2>4. PICK e \in Event : e = EventOf(task[w]) /\ EventIsTrue(e) /\ stream' = Append(stream, e)
    BY <1>3, <2>2, <2>3
  <2>5. /\ Len(stream') = Len(stream) + 1 /\ stream'[Len(stream) + 1] = e
        /\ \A i \in 1..Len(stream) : stream'[i] = stream[i] /\ Len(stream) \in Nat
    BY <1>0, <2>4
  <2>6. ASSUME NEW i \in 1..Len(stream'), NEW x, x = stream'[i] PROVE EventIsTrue(x)'
    <3>1. i \in 1..Len(stream) \/ i = Len(stream) + 1
      BY <1>0, <2>5
    <3>2. EventIsTrue(x)
      BY <2>4, <2>5, <2>6, <3>1 DEF StreamIsTrue
    <3> QED
      BY <1>0, <3>2, TruthStays
  <2> QED
    BY <2>6 DEF StreamIsTrue
<1>4. ASSUME NEW w \in Worker, WorkerStep(w) PROVE StreamIsTrue'
  <2>1. stream' = stream \/ (Publish(w) /\ stream' = Append(stream, EventOf(task[w])))
    BY <1>4 DEF WorkerStep, Reserve, Produce, Publish, HandlerFails, Delete, DeleteFails, author
  <2> QED
    BY <1>1, <1>3, <2>1
<1>5. ASSUME (\E m \in Message : SendMessage(m)) \/ (\E o \in Offsets : Judge(o)) \/ Rest
             \/ UNCHANGED vars
      PROVE  stream' = stream
  BY <1>5 DEF SendMessage, Judge, Rest, vars, author
<1>6. ASSUME PageStep \/ Crash
      PROVE  stream' = stream \/ stream' = <<>> \/ (stream # <<>> /\ stream' = Tail(stream))
  BY <1>6 DEF PageStep, LoadPage, Subscribe, ReadHistory, ShowHistory, ShowReply, HandleEvent,
     LoseSession, Crash
<1> QED
  BY <1>1, <1>2, <1>4, <1>5, <1>6, VerdictSteps DEF Next

LEMMA RowsStayTrue ==
    ASSUME ChatSystemInv, StreamIsTrue, RowsAreTrue, replies \subseteq messages, [Next]_vars
    PROVE  RowsAreTrue' /\ replies' \subseteq messages'
<1>0. NothingIsTakenBack /\ messages \subseteq messages'
  BY EveryStep DEF NothingIsTakenBack
<1>1. ASSUME page' \subseteq page \cup answer, answer' \subseteq answer
      PROVE  RowsAreTrue'
  BY <1>0, <1>1, TruthStays DEF RowsAreTrue
<1>2. ASSUME UNCHANGED <<page, answer>>, replies' \subseteq messages'
      PROVE  RowsAreTrue' /\ replies' \subseteq messages'
  BY <1>1, <1>2
<1>3. CASE \E m \in Message : SendMessage(m)
  BY <1>0, <1>2, <1>3 DEF SendMessage
<1>4. CASE \E w \in Worker : WorkerStep(w)
  BY <1>0, <1>2, <1>4, WorkerSteps
<1>5. CASE \E o \in Offsets : VerdictStep(o)
  BY <1>0, <1>2, <1>5, VerdictSteps
<1>6. CASE (\E o \in Offsets : Judge(o)) \/ Rest \/ UNCHANGED vars
  BY <1>0, <1>2, <1>6 DEF Judge, Rest, vars, author
<1>7. CASE LoadPage \/ Subscribe \/ LoseSession \/ ShowHistory \/ Crash
  <2>1. page' \subseteq page \cup answer /\ answer' \subseteq answer /\ replies' \subseteq replies
    BY <1>7 DEF LoadPage, Subscribe, LoseSession, ShowHistory, Crash
  <2> QED
    BY <1>0, <1>1, <2>1
<1>8. CASE ReadHistory
  <2>1. ASSUME NEW m \in messages PROVE RowIsTrue(Render(m))
    <3>1. Render(m).msg = m /\ (Render(m).ticks = 2 => m \in visible)
      BY DEF Render
    <3>2. Render(m).alert => m \in blocked
      BY Zenon DEF Render
    <3> QED
      BY <3>1, <3>2, Zenon DEF RowIsTrue
  <2>2. /\ page' = page /\ answer' = {Render(m) : m \in messages} /\ replies' = replies
    BY <1>8 DEF ReadHistory
  <2>3. \A r \in page' \cup answer' : RowIsTrue(r)
    BY <2>1, <2>2, Zenon DEF RowsAreTrue
  <2> QED
    BY <1>0, <2>2, <2>3, TruthStays DEF RowsAreTrue
<1>9. ASSUME NEW m \in Message, ShowReply(m) PROVE RowsAreTrue' /\ replies' \subseteq messages'
  <2>1. RowIsTrue(Fresh(m))
    BY <1>9 DEF ShowReply, Fresh, RowIsTrue
  <2>2. page' = page \cup {Fresh(m)} /\ answer' = answer /\ replies' \subseteq replies
    BY <1>9 DEF ShowReply
  <2>3. \A r \in page' \cup answer' : RowIsTrue(r)
    BY <2>1, <2>2, Zenon DEF RowsAreTrue
  <2> QED
    BY <1>0, <2>2, <2>3, TruthStays DEF RowsAreTrue
<1>10. CASE HandleEvent
  <2>1. stream # <<>> /\ page' = Handled(Head(stream)) /\ UNCHANGED <<answer, replies>>
    BY <1>10 DEF HandleEvent
  <2>2. EventIsTrue(Head(stream)) /\ TypeOK
    BY <2>1 DEF StreamIsTrue, ChatSystemInv, TypeOK
  <2>3. \A r \in Handled(Head(stream)) : RowIsTrue(r)
    BY <2>1, <2>2, HandledIsTrue DEF RowsAreTrue
  <2>4. \A r \in page' \cup answer' : RowIsTrue(r)
    BY <2>1, <2>3 DEF RowsAreTrue
  <2> QED
    BY <1>0, <2>1, <2>4, TruthStays DEF RowsAreTrue
<1> QED
  BY <1>3, <1>4, <1>5, <1>6, <1>7, <1>8, <1>9, <1>10 DEF Next, PageStep

(* The page says nothing untrue, because what it was told was true then    *)
(* and nothing is taken back.                                              *)
THEOREM PageTellsTheTruth == Spec => []PageIsTrue
<1> DEFINE Truth == StreamIsTrue /\ RowsAreTrue /\ replies \subseteq messages
<1>1. Init => Truth
  BY DEF Init, StreamIsTrue, RowsAreTrue
<1>2. ChatSystemInv /\ Truth /\ [Next]_vars => Truth'
  BY StreamStaysTrue, RowsStayTrue
<1>3. Truth => PageIsTrue
  BY DEF StreamIsTrue, RowsAreTrue, EventIsTrue, PageIsTrue
<1> QED
  BY <1>1, <1>2, <1>3, ChatSystemInvariant, PTL DEF Spec

-----------------------------------------------------------------------------
(* The life of a message. *)

FlagsGiveStatus ==
    visible \subseteq messages /\ blocked \subseteq messages =>
        \A m : /\ m \notin messages => StatusOf(m) = "none"
               /\ m \in blocked => StatusOf(m) = "blocked"
               /\ m \in visible \ blocked => StatusOf(m) = "received"
               /\ m \in messages \ (visible \cup blocked) => StatusOf(m) = "accepted"

LEMMA StatusByFlags == FlagsGiveStatus /\ FlagsGiveStatus'
<1>1. FlagsGiveStatus
  <2> SUFFICES ASSUME visible \subseteq messages, blocked \subseteq messages, NEW m
               PROVE  /\ m \notin messages => StatusOf(m) = "none"
                      /\ m \in blocked => StatusOf(m) = "blocked"
                      /\ m \in visible \ blocked => StatusOf(m) = "received"
                      /\ m \in messages \ (visible \cup blocked) => StatusOf(m) = "accepted"
    BY DEF FlagsGiveStatus
  <2>1. Render(m).alert <=> m \in blocked
    BY Zenon DEF Render
  <2>2. Render(m).ticks = 2 <=> m \in visible \ blocked
    BY DEF Render
  <2>3. m \notin messages => StatusOf(m) = "none"
    BY DEF StatusOf
  <2>4. m \in blocked => StatusOf(m) = "blocked"
    BY <2>1, <2>2 DEF StatusOf
  <2>5. m \in visible \ blocked => StatusOf(m) = "received"
    BY <2>1, <2>2 DEF StatusOf
  <2>6. m \in messages \ (visible \cup blocked) => StatusOf(m) = "accepted"
    BY <2>1, <2>2 DEF StatusOf
  <2> QED
    BY <2>3, <2>4, <2>5, <2>6
<1> QED
  BY <1>1, PTL

Statuses == [m \in Message |-> StatusOf(m)]
Announced == [m \in Message |-> {OutcomeOf(j) : j \in Told(m)}]

(* A flag or a row that comes changes one status at most. *)
LEMMA FlagsMoveOneStatus ==
    ASSUME ChatSystemInv, ChatSystemInv', NEW m \in Message, m \in messages,
           messages' = messages, performed' = performed,
           \/ visible' = visible \cup {m} /\ UNCHANGED blocked
           \/ blocked' = blocked \cup {m} /\ UNCHANGED visible
    PROVE  [Life!Next]_<<Statuses, Announced>>
<1>1. /\ visible \subseteq messages /\ blocked \subseteq messages
      /\ visible' \subseteq messages' /\ blocked' \subseteq messages'
  BY DEF ChatSystemInv, CausesOfVerdicts
<1>2. Announced' = Announced
  BY DEF Announced, Told, OutcomeOf
<1>3. \A n \in Message : n # m => StatusOf(n)' = StatusOf(n)
  BY DEF StatusOf, Render
<1>4. Statuses' = [Statuses EXCEPT ![m] = StatusOf(m)'] /\ Statuses[m] = StatusOf(m)
  BY <1>3 DEF Statuses
<1>5. CASE StatusOf(m)' = StatusOf(m)
  BY <1>2, <1>4, <1>5 DEF Statuses
<1>6. CASE StatusOf(m)' # StatusOf(m)
  <2>1. \/ StatusOf(m) = "accepted" /\ StatusOf(m)' = "received"
        \/ StatusOf(m) \in {"accepted", "received"} /\ StatusOf(m)' = "blocked"
    BY <1>1, <1>6, StatusByFlags DEF FlagsGiveStatus
  <2> QED
    BY <1>2, <1>4, <2>1 DEF Life!Next, Life!Become, Statuses, Announced
<1> QED
  BY <1>5, <1>6

(* The events told are about what has come to be. *)
LEMMA EventsTellOneOutcome ==
    ASSUME ChatSystemInv, NEW w \in Worker, Publish(w)
    PROVE  [Life!Next]_<<Statuses, Announced>>
<1> DEFINE j == task[w]
<1>1. /\ j \in accepted /\ j \in Job /\ j.msg \in Message /\ j.kind \in Kind
      /\ performed' = performed \cup {j} /\ UNCHANGED <<messages, visible, blocked, task>>
  BY TaskIsJob DEF ChatSystemInv, Publish, Outbox!Perform, tables, GoTo
<1>2. Statuses' = Statuses
  BY <1>1 DEF Statuses, StatusOf, Render
<1>3. CASE j.kind = "send"
  <2>1. Announced' = Announced
    BY <1>1, <1>3 DEF Announced, Told, OutcomeOf
  <2> QED
    BY <1>2, <2>1
<1>4. CASE j.kind # "send"
  <2>1. PICK m \in Message, s \in {OutcomeOf(j)} : m = j.msg
    BY <1>1
  <2>2. \A n \in Message : Told(n)' = IF n = m THEN Told(n) \cup {j} ELSE Told(n)
    BY <1>1, <1>4, <2>1 DEF Told
  <2>3. \A n \in Message : {OutcomeOf(i) : i \in Told(n)}' =
            IF n = m THEN {OutcomeOf(i) : i \in Told(n)} \cup {s} ELSE {OutcomeOf(i) : i \in Told(n)}
    BY <2>1, <2>2 DEF OutcomeOf
  <2>4. Announced' = [Announced EXCEPT ![m] = @ \cup {s}]
    BY <2>3 DEF Announced
  <2>5. visible \subseteq messages /\ blocked \subseteq messages
    BY DEF ChatSystemInv, CausesOfVerdicts
  <2>6. (j.kind = "sent" => m \in visible) /\ (j.kind = "blocked" => m \in blocked)
    BY <1>1, <2>1 DEF ChatSystemInv, CausesOfJobs
  <2>7. s \in {"received", "blocked"} /\ StatusOf(m) \in {"received", "blocked"}
        /\ (s = "blocked" => StatusOf(m) = "blocked")
    BY <1>1, <1>4, <2>1, <2>5, <2>6, StatusByFlags DEF FlagsGiveStatus, OutcomeOf, Kind
  <2> QED
    BY <1>2, <2>4, <2>7 DEF Life!Next, Life!Tell, Life!Outcome, Statuses, Announced
<1> QED
  BY <1>3, <1>4

LEMMA LifeInit == Init => Life!Init
<1> SUFFICES ASSUME Init PROVE Life!Init
  OBVIOUS
<1>1. messages = {} /\ visible = {} /\ blocked = {} /\ performed = {}
  BY DEF Init
<1>2. \A m \in Message : StatusOf(m) = "none" /\ Told(m) = {}
  BY <1>1, StatusByFlags DEF FlagsGiveStatus, Told
<1> QED
  BY <1>2 DEF Life!Init

LEMMA LifeStep ==
    ASSUME ChatSystemInv, [Next]_vars
    PROVE  [Life!Next]_<<Statuses, Announced>>
<1>1. ChatSystemInv'
  BY InvariantStep
<1>2. ASSUME UNCHANGED <<messages, visible, blocked, performed>>
      PROVE  UNCHANGED <<Statuses, Announced>>
  BY <1>2 DEF Statuses, StatusOf, Render, Announced, Told, OutcomeOf
<1>3. ASSUME NEW m \in Message, SendMessage(m) PROVE Life!Next
  <2>1. /\ m \notin messages /\ messages' = messages \cup {m}
        /\ UNCHANGED <<visible, blocked, performed>>
    BY <1>3, NewJob DEF SendMessage, Kind
  <2>2. visible \subseteq messages /\ blocked \subseteq messages
    BY DEF ChatSystemInv, CausesOfVerdicts
  <2>3. StatusOf(m) = "none" /\ StatusOf(m)' = "accepted"
    BY <2>1, <2>2, StatusByFlags DEF FlagsGiveStatus
  <2>4. \A n \in Message : n # m => StatusOf(n)' = StatusOf(n)
    BY <2>1 DEF StatusOf, Render
  <2>5. Statuses' = [Statuses EXCEPT ![m] = "accepted"] /\ Announced' = Announced
    BY <2>1, <2>3, <2>4 DEF Statuses, Announced, Told, OutcomeOf
  <2> QED
    BY <2>3, <2>5 DEF Life!Next, Life!Become, Statuses, Announced
<1>4. ASSUME NEW o \in Offsets, VerdictStep(o) PROVE [Life!Next]_<<Statuses, Announced>>
  <2>1. topic[o] \in Message /\ topic[o] \in messages
    BY DEF ChatSystemInv, TypeOK, CausesOfVerdicts, Offsets
  <2> QED
    BY <1>1, <1>2, <1>4, <2>1, VerdictSteps, FlagsMoveOneStatus
<1>5. ASSUME NEW w \in Worker, WorkerStep(w) PROVE [Life!Next]_<<Statuses, Announced>>
  <2>1. UNCHANGED tables
    BY <1>5, WorkerSteps
  <2>2. UNCHANGED performed \/ Publish(w)
    BY <1>5 DEF WorkerStep, Reserve, Produce, HandlerFails, GiveUp, Delete, DeleteFails, jobs,
       Outbox!BuryJob, Outbox!Complete
  <2> QED
    BY <1>2, <2>1, <2>2, EventsTellOneOutcome DEF tables
<1> QED
  BY <1>2, <1>3, <1>4, <1>5, OtherSteps DEF Next, tables

(* What the author may know of a message follows the life of a message:    *)
(* accepted, received, blocked, never back, and told only when true.       *)
THEOREM ChatSystemImplementsLife == Spec => ImplementsLife
<1>1. ChatSystemInv /\ [Next]_vars => [Life!Next]_(Life!lifeVars)
  BY LifeStep DEF Life!lifeVars, Statuses, Announced
<1> QED
  BY <1>1, LifeInit, ChatSystemInvariant, PTL DEF Spec, ImplementsLife, Life!Spec
=============================================================================
