----------------------------- MODULE SendMessage -----------------------------
(***************************************************************************)
(* The use case that accepts a client's message                            *)
(* (internal/usecases/client/send-message) on the repositories and tables  *)
(* it uses, one action per SQL statement.  Concurrent attempts, retries    *)
(* with the same request id included, run one transaction each at          *)
(* PostgreSQL's default isolation, READ COMMITTED: a statement sees what   *)
(* is committed when it starts and what its own transaction has written.   *)
(*                                                                         *)
(* A transaction creates one row of a table at most, so rows are named     *)
(* after the attempt that creates them: a \in messages is the message row  *)
(* inserted by attempt a.  Uncommitted rows are known from pc.             *)
(***************************************************************************)
EXTENDS Naturals, FiniteSets

CONSTANTS
    Attempt,      \* calls of UseCase.Handle
    Request,      \* request ids (X-Request-ID)
    Client,       \* client ids; a client has one chat, which is named after it
    ReqOf,        \* the request id of an attempt
    ClientOf,     \* the client that makes a request
    None          \* no row

ASSUME SendMessageAssumption ==
    /\ ReqOf \in [Attempt -> Request]
    /\ ClientOf \in [Request -> Client]
    /\ None \notin Attempt

VARIABLES
    chats,      \* committed rows of chats
    problems,   \* committed rows of problems
    resolved,   \* the problems with resolved_at set
    messages,   \* committed rows of messages
    problemOf,  \* column problem_id of a committed message
    jobs,       \* messages a committed send-client-message job was put for
    lock,       \* who holds the row lock of a chat, created by its upsert
    pc,         \* the next statement of an attempt
    problem,    \* problemID in Handle
    outcome,    \* what Handle has returned
    answer      \* the message named in the response

db   == <<chats, problems, resolved, messages, problemOf, jobs>>
vars == <<db, lock, pc, problem, outcome, answer>>

ChatOf(a) == ClientOf[ReqOf[a]]
SameRequest(a, b) == ReqOf[a] = ReqOf[b]

PC == {"idle", "lookup", "chat", "findProblem", "createProblem", "message",
       "put", "commit", "ended"}

TypeOK ==
    /\ chats \subseteq Client
    /\ problems \subseteq Attempt
    /\ resolved \subseteq problems
    /\ messages \subseteq Attempt
    /\ problemOf \in [Attempt -> Attempt \cup {None}]
    /\ jobs \subseteq Attempt
    /\ lock \in [Client -> Attempt \cup {None}]
    /\ pc \in [Attempt -> PC]
    /\ problem \in [Attempt -> Attempt \cup {None}]
    /\ outcome \in [Attempt -> {"none", "ok", "error"}]
    /\ answer \in [Attempt -> Attempt \cup {None}]

Init ==
    /\ chats = {} /\ problems = {} /\ resolved = {} /\ messages = {} /\ jobs = {}
    /\ problemOf = [a \in Attempt |-> None]
    /\ lock = [c \in Client |-> None]
    /\ pc = [a \in Attempt |-> "idle"]
    /\ problem = [a \in Attempt |-> None]
    /\ outcome = [a \in Attempt |-> "none"]
    /\ answer = [a \in Attempt |-> None]

GoTo(a, l) == pc' = [pc EXCEPT ![a] = l]

(* Mutant: the transaction is left open. *)
ReleaseNothing(a) == UNCHANGED lock

(* The row locks of a transaction are released when it ends. *)
Release(a) == lock' = [c \in Client |-> IF lock[c] = a THEN None ELSE lock[c]]

End(a, o, m) ==
    /\ GoTo(a, "ended")
    /\ Release(a)
    /\ outcome' = [outcome EXCEPT ![a] = o]
    /\ answer' = [answer EXCEPT ![a] = m]
    /\ UNCHANGED problem

-----------------------------------------------------------------------------
(* RunInTx begins a transaction. *)
Begin(a) ==
    /\ pc[a] = "idle"
    /\ GoTo(a, "lookup")
    /\ UNCHANGED <<db, lock, problem, outcome, answer>>

(* GetMessageByRequestID: a message of this request ends the call, and      *)
(* nothing was written.                                                    *)
GetMessageByRequestID(a) ==
    /\ pc[a] = "lookup"
    /\ UNCHANGED db
    /\ \/ \E m \in messages : SameRequest(a, m) /\ End(a, "ok", m)
       \/ /\ ~\E m \in messages : SameRequest(a, m)
          /\ GoTo(a, "chat")
          /\ UNCHANGED <<lock, problem, outcome, answer>>

(* Mutant: ON CONFLICT DO NOTHING, which takes no lock on an existing row. *)
UpsertUnlocked(a) ==
    IF ChatOf(a) \in chats THEN UNCHANGED lock
    ELSE lock[ChatOf(a)] = None /\ lock' = [lock EXCEPT ![ChatOf(a)] = a]

(* INSERT ... ON CONFLICT (client_id) DO UPDATE SET client_id = client_id:  *)
(* waits for a transaction that has upserted the same chat, and leaves the *)
(* row, new or old, locked.                                                *)
Upsert(a) ==
    /\ lock[ChatOf(a)] = None
    /\ lock' = [lock EXCEPT ![ChatOf(a)] = a]

(* chatRepo.CreateIfNotExists *)
CreateChatIfNotExists(a) ==
    /\ pc[a] = "chat"
    /\ Upsert(a)
    /\ GoTo(a, "findProblem")
    /\ UNCHANGED <<db, problem, outcome, answer>>

(* Mutant: the filter on chat_id is forgotten. *)
OpenProblemsOfAnyChat(c) == problems \ resolved

ProblemsOfChat(c) == {p \in problems : ChatOf(p) = c}
OpenProblems(c) == ProblemsOfChat(c) \ resolved

(* problemRepo.CreateIfNotExists, the query ...                            *)
FindOpenProblem(a) ==
    /\ pc[a] = "findProblem"
    /\ \/ \E p \in OpenProblems(ChatOf(a)) :
            problem' = [problem EXCEPT ![a] = p] /\ GoTo(a, "message")
       \/ /\ OpenProblems(ChatOf(a)) = {}
          /\ UNCHANGED problem /\ GoTo(a, "createProblem")
    /\ UNCHANGED <<db, lock, outcome, answer>>

(* Mutant: the repository does not use the transaction of its context. *)
StoreProblemAtOnce(a) ==
    problems' = problems \cup {a} /\ UNCHANGED <<chats, resolved, messages, problemOf, jobs>>

StoreProblem(a) == UNCHANGED db

(* ... and the insert, seen by others when the transaction commits.        *)
CreateProblem(a) ==
    /\ pc[a] = "createProblem"
    /\ problem' = [problem EXCEPT ![a] = a]
    /\ StoreProblem(a)
    /\ GoTo(a, "message")
    /\ UNCHANGED <<lock, outcome, answer>>

(* A transaction that has inserted its message and has not ended. *)
Inserted(b) == pc[b] \in {"put", "commit"}

(* Mutant: no unique index on initial_request_id. *)
NeverTaken(a) == FALSE

RequestTaken(a) == \E m \in messages : SameRequest(a, m)

(* msgRepo.CreateClientVisible: the unique index on initial_request_id     *)
(* makes the insert wait for an uncommitted one and fail after a committed *)
(* one, which rolls the transaction back.                                  *)
CreateClientVisible(a) ==
    /\ pc[a] = "message"
    /\ ~\E b \in Attempt : Inserted(b) /\ SameRequest(a, b)
    /\ UNCHANGED db
    /\ IF RequestTaken(a)
       THEN End(a, "error", None)
       ELSE GoTo(a, "put") /\ UNCHANGED <<lock, problem, outcome, answer>>

(* outboxService.Put, in the same transaction. *)
PutJob(a) ==
    /\ pc[a] = "put"
    /\ GoTo(a, "commit")
    /\ UNCHANGED <<db, lock, problem, outcome, answer>>

(* Everything the transaction has written becomes visible at once. *)
CommitRows(a) ==
    /\ chats' = chats \cup {ChatOf(a)}
    /\ problems' = problems \cup ({a} \cap {problem[a]})
    /\ messages' = messages \cup {a}
    /\ problemOf' = [problemOf EXCEPT ![a] = problem[a]]
    /\ jobs' = jobs \cup {a}
    /\ UNCHANGED resolved

(* Commit; the connection may break before its result arrives. *)
Commit(a) ==
    /\ pc[a] = "commit"
    /\ CommitRows(a)
    /\ End(a, "ok", a) \/ End(a, "error", None)

(* A statement or the commit fails, the context is done or the process     *)
(* dies: the transaction is rolled back.                                   *)
Rollback(a) ==
    /\ pc[a] \notin {"idle", "ended"}
    /\ End(a, "error", None)
    /\ UNCHANGED db

(* A manager resolves a problem. *)
Resolve(p) ==
    /\ p \in problems \ resolved
    /\ resolved' = resolved \cup {p}
    /\ UNCHANGED <<chats, problems, messages, problemOf, jobs, lock, pc, problem,
                   outcome, answer>>

Handle(a) ==
    \/ Begin(a) \/ GetMessageByRequestID(a) \/ CreateChatIfNotExists(a)
    \/ FindOpenProblem(a) \/ CreateProblem(a) \/ CreateClientVisible(a)
    \/ PutJob(a) \/ Commit(a)

Ended == \A a \in Attempt : pc[a] = "ended"

Next ==
    \/ \E a \in Attempt : Handle(a) \/ Rollback(a)
    \/ \E p \in Attempt : Resolve(p)
    \/ Ended /\ UNCHANGED vars

Spec == Init /\ [][Next]_vars

-----------------------------------------------------------------------------
(* Properties.                                                             *)

(* problems/api_test.go:145: "1 chat can have only 1 open problem".  The query *)
(* and the insert of CreateIfNotExists are two statements without a unique *)
(* index; the chat's row lock, taken before, is what keeps them together.  *)
OneOpenProblem ==
    \A p, q \in problems \ resolved : ChatOf(p) = ChatOf(q) => p = q

(* A request id makes one message, however many attempts race or are       *)
(* repeated after a lost reply, and every answer names that message.       *)
OneMessagePerRequest ==
    /\ \A m, n \in messages : SameRequest(m, n) => m = n
    /\ \A a \in Attempt : outcome[a] = "ok" =>
            answer[a] \in messages /\ SameRequest(a, answer[a])

(* Chat, problem, message and job are committed together or not at all:    *)
(* no message without a job to send it, no problem without a message, and  *)
(* no message of a problem of another chat.                                *)
AllOrNothing ==
    /\ jobs = messages
    /\ chats = {ChatOf(m) : m \in messages}
    /\ problems = {problemOf[m] : m \in messages}
    /\ \A m \in messages : ChatOf(problemOf[m]) = ChatOf(m)

(* The inductive invariant.  From the upsert to its end, and only then, a   *)
(* transaction holds the lock of its chat ...                              *)
Locking(a) == pc[a] \in {"findProblem", "createProblem", "message", "put", "commit"}
LocksHeld ==
    \A a \in Attempt, c \in Client : lock[c] = a <=> Locking(a) /\ ChatOf(a) = c

(* ... under which what it has read about the chat's problems stays true,  *)
(* except that they may be resolved ...                                    *)
ProblemStable ==
    \A a \in Attempt :
        /\ pc[a] = "createProblem" => OpenProblems(ChatOf(a)) = {}
        /\ pc[a] \in {"message", "put", "commit"} =>
              /\ OpenProblems(ChatOf(a)) \subseteq {problem[a]}
              /\ problem[a] = a \/ problem[a] \in ProblemsOfChat(ChatOf(a))

(* ... and a transaction that is running has left nothing behind.          *)
RunningIsInvisible ==
    \A a \in Attempt :
        /\ pc[a] # "ended" => a \notin messages \cup problems
        /\ Inserted(a) => ~RequestTaken(a)

SendMessageInv ==
    /\ TypeOK /\ LocksHeld /\ ProblemStable /\ RunningIsInvisible
    /\ OneOpenProblem /\ OneMessagePerRequest /\ AllOrNothing

(* What an attempt waits for: the transaction that has the chat's row       *)
(* locked, or one that has inserted a message of the same request.         *)
WaitsFor(a) ==
    {b \in Attempt : \/ pc[a] = "chat" /\ lock[ChatOf(a)] = b
                     \/ pc[a] = "message" /\ Inserted(b) /\ SameRequest(a, b)}

(* Attempts do not wait for each other in a ring, nor for one that is gone: *)
(* chat row and unique index are two resources, taken in this order, and   *)
(* whoever holds what another one needs waits for nobody.                  *)
HoldersNeverWait ==
    \A a, b \in Attempt : b \in WaitsFor(a) => Locking(b) /\ WaitsFor(b) = {}

(* A problem that was open when a transaction took its chat's lock is the  *)
(* one its message goes to, unless it is resolved meanwhile.               *)
MessagesJoinTheOpenProblem ==
    [][\A a \in Attempt : a \in messages' \ messages =>
         \A p \in problems \ resolved : ChatOf(p) = ChatOf(a) => problemOf'[a] = p]_vars
=============================================================================
