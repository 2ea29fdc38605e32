-------------------------- MODULE SendMessageProofs --------------------------
(***************************************************************************)
(* One open problem per chat, one message per request and all-or-nothing   *)
(* sends, for any number of concurrent attempts, requests and clients.     *)
(* The inductive invariant is SendMessageInv: the lock of the chat's row   *)
(* makes the query and the insert of problemRepo.CreateIfNotExists atomic. *)
(***************************************************************************)
EXTENDS SendMessage, History, FiniteSetTheorems, TLAPS

USE SendMessageAssumption DEF PC, ChatOf, SameRequest

(* The empty tables satisfy the invariant. *)
LEMMA InitSendMessageInv == Init => SendMessageInv
BY DEF Init, SendMessageInv, TypeOK, LocksHeld, Locking, ProblemStable,
       RunningIsInvisible, Inserted, RequestTaken, OneOpenProblem,
       OneMessagePerRequest, AllOrNothing

(* Every action keeps the types. *)
LEMMA TypeStep == TypeOK /\ [Next]_vars => TypeOK'
<1> SUFFICES ASSUME TypeOK, [Next]_vars PROVE TypeOK'
    OBVIOUS
<1> USE DEF TypeOK, GoTo, End, Release, db
<1>1. ASSUME NEW a \in Attempt, Handle(a) PROVE TypeOK'
  <2>1. CASE Begin(a)
    BY <2>1 DEF Begin
  <2>2. CASE GetMessageByRequestID(a)
    BY <2>2 DEF GetMessageByRequestID
  <2>3. CASE CreateChatIfNotExists(a)
    BY <2>3 DEF CreateChatIfNotExists, Upsert
  <2>4. CASE FindOpenProblem(a)
    BY <2>4 DEF FindOpenProblem, OpenProblems, ProblemsOfChat
  <2>5. CASE CreateProblem(a)
    BY <2>5 DEF CreateProblem, StoreProblem
  <2>6. CASE CreateClientVisible(a)
    BY <2>6 DEF CreateClientVisible
  <2>7. CASE PutJob(a)
    BY <2>7 DEF PutJob
  <2>8. CASE Commit(a)
    BY <2>8 DEF Commit, CommitRows
  <2> QED
    BY <1>1, <2>1, <2>2, <2>3, <2>4, <2>5, <2>6, <2>7, <2>8 DEF Handle
<1>2. ASSUME NEW a \in Attempt, Rollback(a) PROVE TypeOK'
    BY <1>2 DEF Rollback
<1>3. ASSUME NEW p \in Attempt, Resolve(p) PROVE TypeOK'
    BY <1>3 DEF Resolve
<1>4. CASE UNCHANGED vars
    BY <1>4 DEF vars
<1> QED
    BY <1>1, <1>2, <1>3, <1>4 DEF Next

(* The lock of a chat is taken by the upsert when it is free and given     *)
(* back by the end of the transaction.                                     *)
LEMMA LockStep == TypeOK /\ LocksHeld /\ [Next]_vars => LocksHeld'
<1> SUFFICES ASSUME TypeOK, LocksHeld, [Next]_vars PROVE LocksHeld'
    OBVIOUS
<1> USE DEF TypeOK, LocksHeld, Locking, GoTo
<1>1. ASSUME NEW a \in Attempt, GoTo(a, "ended"), Release(a) PROVE LocksHeld'
    BY <1>1 DEF Release
<1>2. ASSUME NEW a \in Attempt, Handle(a) PROVE LocksHeld'
  <2>1. CASE Begin(a)
    BY <2>1 DEF Begin
  <2>2. CASE GetMessageByRequestID(a)
    BY <1>1, <2>2 DEF GetMessageByRequestID, End
  <2>3. CASE CreateChatIfNotExists(a)
    <3>1. /\ lock' = [lock EXCEPT ![ChatOf(a)] = a] /\ lock[ChatOf(a)] = None
          /\ pc[a] = "chat" /\ pc' = [pc EXCEPT ![a] = "findProblem"]
        BY <2>3 DEF CreateChatIfNotExists, Upsert
    <3>2. ChatOf(a) \in Client
        OBVIOUS
    <3> QED
        BY <3>1, <3>2
  <2>4. CASE FindOpenProblem(a)
    BY <2>4 DEF FindOpenProblem
  <2>5. CASE CreateProblem(a) \/ PutJob(a)
    BY <2>5 DEF CreateProblem, PutJob
  <2>6. CASE CreateClientVisible(a)
    BY <1>1, <2>6 DEF CreateClientVisible, End
  <2>7. CASE Commit(a)
    BY <1>1, <2>7 DEF Commit, End
  <2> QED
    BY <1>2, <2>1, <2>2, <2>3, <2>4, <2>5, <2>6, <2>7 DEF Handle
<1>3. ASSUME NEW a \in Attempt, Rollback(a) PROVE LocksHeld'
    BY <1>1, <1>3 DEF Rollback, End
<1>4. ASSUME NEW p \in Attempt, Resolve(p) PROVE LocksHeld'
    BY <1>4 DEF Resolve
<1>5. CASE UNCHANGED vars
    BY <1>5 DEF vars
<1> QED
    BY <1>2, <1>3, <1>4, <1>5 DEF Next

(* Two transactions never hold the lock of one chat. *)
LEMMA LockIsExclusive ==
    ASSUME LocksHeld, NEW a \in Attempt, NEW b \in Attempt,
           Locking(a), Locking(b), ChatOf(a) = ChatOf(b)
    PROVE  a = b
BY DEF LocksHeld

(* The steps that write no row: what they leave of pc and problem. *)
LEMMA QuietStep ==
    ASSUME TypeOK, NEW a \in Attempt, Handle(a) \/ Rollback(a), ~Commit(a)
    PROVE  /\ UNCHANGED db
           /\ \A b \in Attempt \ {a} : pc'[b] = pc[b] /\ problem'[b] = problem[b]
BY DEF TypeOK, Handle, Begin, GetMessageByRequestID, CreateChatIfNotExists,
       FindOpenProblem, CreateProblem, StoreProblem, CreateClientVisible,
       PutJob, Rollback, End, GoTo

(* ... and their own problem. *)
LEMMA QuietOwnStep ==
    ASSUME TypeOK, NEW a \in Attempt, Handle(a) \/ Rollback(a), ~Commit(a)
    PROVE  \/ pc'[a] \in {"lookup", "chat", "findProblem", "ended"}
           \/ /\ pc[a] = "findProblem" /\ pc'[a] = "createProblem"
              /\ OpenProblems(ChatOf(a)) = {}
           \/ /\ pc[a] = "findProblem" /\ pc'[a] = "message"
              /\ problem'[a] \in OpenProblems(ChatOf(a))
           \/ pc[a] = "createProblem" /\ pc'[a] = "message" /\ problem'[a] = a
           \/ /\ pc[a] = "message" /\ pc'[a] = "put" /\ problem'[a] = problem[a]
              /\ ~RequestTaken(a) /\ ~\E b \in Attempt : Inserted(b) /\ SameRequest(a, b)
           \/ pc[a] = "put" /\ pc'[a] = "commit" /\ problem'[a] = problem[a]
BY DEF TypeOK, Handle, Begin, GetMessageByRequestID, CreateChatIfNotExists,
       FindOpenProblem, CreateProblem, StoreProblem, CreateClientVisible,
       PutJob, Rollback, End, GoTo

(* What a transaction knows of its chat's problems survives the steps of    *)
(* the others, because only the holder of the lock adds a problem.          *)
LEMMA ProblemStep ==
    TypeOK /\ LocksHeld /\ ProblemStable /\ RunningIsInvisible /\ OneOpenProblem
        /\ [Next]_vars => ProblemStable'
<1> SUFFICES ASSUME TypeOK, LocksHeld, ProblemStable, RunningIsInvisible,
                    OneOpenProblem, [Next]_vars
             PROVE  ProblemStable'
    OBVIOUS
<1> USE DEF ProblemStable, OpenProblems, ProblemsOfChat
<1>1. ASSUME NEW a \in Attempt, Handle(a) \/ Rollback(a), ~Commit(a)
      PROVE  ProblemStable'
  <2>1. UNCHANGED <<problems, resolved>>
      BY <1>1, QuietStep DEF db
  <2>2. ASSUME NEW b \in Attempt \ {a}
        PROVE  pc'[b] = pc[b] /\ problem'[b] = problem[b]
      BY <1>1, QuietStep
  <2>3. /\ pc'[a] = "createProblem" => OpenProblems(ChatOf(a))' = {}
        /\ pc'[a] \in {"message", "put", "commit"} =>
              /\ OpenProblems(ChatOf(a))' \subseteq {problem'[a]}
              /\ problem'[a] = a \/ problem'[a] \in ProblemsOfChat(ChatOf(a))'
      BY <1>1, <2>1, QuietOwnStep DEF OneOpenProblem
  <2> QED
      BY <2>1, <2>2, <2>3
<1>2. ASSUME NEW a \in Attempt, Commit(a) PROVE ProblemStable'
  <2>1. /\ pc[a] = "commit" /\ pc' = [pc EXCEPT ![a] = "ended"]
        /\ resolved' = resolved /\ problem' = problem
        /\ problems' = problems \cup ({a} \cap {problem[a]})
      BY <1>2 DEF Commit, CommitRows, End, GoTo
  <2>2. ASSUME NEW b \in Attempt, Locking(b), b # a PROVE ChatOf(b) # ChatOf(a)
      BY <2>1, <2>2, LockIsExclusive DEF Locking
  <2> QED
      BY <2>1, <2>2 DEF Locking, TypeOK
<1>3. ASSUME NEW p \in Attempt, Resolve(p) PROVE ProblemStable'
    BY <1>3 DEF Resolve
<1>4. CASE UNCHANGED vars
    BY <1>4 DEF vars, db
<1> QED
    BY <1>1, <1>2, <1>3, <1>4 DEF Next

(* A transaction's rows appear with its commit only, and while it has an    *)
(* uncommitted message no other commits one for the same request.           *)
LEMMA InvisibleStep ==
    TypeOK /\ LocksHeld /\ RunningIsInvisible /\ [Next]_vars => RunningIsInvisible'
<1> SUFFICES ASSUME TypeOK, LocksHeld, RunningIsInvisible, [Next]_vars
             PROVE  RunningIsInvisible'
    OBVIOUS
<1> USE DEF RunningIsInvisible, Inserted, RequestTaken
<1>1. ASSUME NEW a \in Attempt, Handle(a) \/ Rollback(a), ~Commit(a)
      PROVE  RunningIsInvisible'
  <2>1. UNCHANGED <<messages, problems>>
      BY <1>1, QuietStep DEF db
  <2>2. \A b \in Attempt \ {a} : pc'[b] = pc[b]
      BY <1>1, QuietStep
  <2>3. /\ pc[a] # "ended"
        /\ Inserted(a)' => ~RequestTaken(a)
      BY <1>1, QuietOwnStep
      DEF Handle, Begin, GetMessageByRequestID, CreateChatIfNotExists,
          FindOpenProblem, CreateProblem, CreateClientVisible, PutJob, Rollback
  <2> QED
      BY <2>1, <2>2, <2>3
<1>2. ASSUME NEW a \in Attempt, Commit(a) PROVE RunningIsInvisible'
  <2>1. /\ pc[a] = "commit" /\ pc' = [pc EXCEPT ![a] = "ended"]
        /\ messages' = messages \cup {a}
        /\ problems' = problems \cup ({a} \cap {problem[a]})
      BY <1>2 DEF Commit, CommitRows, End, GoTo
  <2>2. ASSUME NEW b \in Attempt, Inserted(b), b # a PROVE ReqOf[b] # ReqOf[a]
      BY <2>1, <2>2, LockIsExclusive DEF Locking
  <2> QED
      BY <2>1, <2>2 DEF TypeOK
<1>3. ASSUME NEW p \in Attempt, Resolve(p) PROVE RunningIsInvisible'
    BY <1>3 DEF Resolve
<1>4. CASE UNCHANGED vars
    BY <1>4 DEF vars, db
<1> QED
    BY <1>1, <1>2, <1>3, <1>4 DEF Next

(* A commit adds an open problem only where there was none. *)
LEMMA OneOpenProblemStep ==
    TypeOK /\ ProblemStable /\ OneOpenProblem /\ [Next]_vars => OneOpenProblem'
<1> SUFFICES ASSUME TypeOK, ProblemStable, OneOpenProblem, [Next]_vars
             PROVE  OneOpenProblem'
    OBVIOUS
<1> USE DEF OneOpenProblem
<1>1. ASSUME NEW a \in Attempt, Handle(a) \/ Rollback(a), ~Commit(a)
      PROVE  OneOpenProblem'
    BY <1>1, QuietStep DEF db
<1>2. ASSUME NEW a \in Attempt, Commit(a) PROVE OneOpenProblem'
  <2>1. /\ pc[a] = "commit" /\ resolved' = resolved
        /\ problems' = problems \cup ({a} \cap {problem[a]})
      BY <1>2 DEF Commit, CommitRows
  <2> QED
      BY <2>1 DEF ProblemStable, OpenProblems, ProblemsOfChat
<1>3. ASSUME NEW p \in Attempt, Resolve(p) PROVE OneOpenProblem'
    BY <1>3 DEF Resolve
<1>4. CASE UNCHANGED vars
    BY <1>4 DEF vars, db
<1> QED
    BY <1>1, <1>2, <1>3, <1>4 DEF Next

(* An answer names a message found by the lookup or just committed. *)
LEMMA OneMessageStep ==
    TypeOK /\ RunningIsInvisible /\ OneMessagePerRequest /\ [Next]_vars
        => OneMessagePerRequest'
<1> SUFFICES ASSUME TypeOK, RunningIsInvisible, OneMessagePerRequest, [Next]_vars
             PROVE  OneMessagePerRequest'
    OBVIOUS
<1> USE DEF TypeOK, OneMessagePerRequest
<1>1. ASSUME NEW a \in Attempt, Handle(a) \/ Rollback(a), ~Commit(a)
      PROVE  OneMessagePerRequest'
  <2>1. messages' = messages
      BY <1>1, QuietStep DEF db
  <2>2. CASE GetMessageByRequestID(a)
      BY <2>1, <2>2 DEF GetMessageByRequestID, End
  <2>3. CASE CreateClientVisible(a) \/ Rollback(a)
      BY <2>1, <2>3 DEF CreateClientVisible, Rollback, End
  <2>4. CASE UNCHANGED <<outcome, answer>>
      BY <2>1, <2>4
  <2> QED
      BY <1>1, <2>2, <2>3, <2>4
      DEF Handle, Begin, CreateChatIfNotExists, FindOpenProblem, CreateProblem, PutJob
<1>2. ASSUME NEW a \in Attempt, Commit(a) PROVE OneMessagePerRequest'
  <2>1. /\ messages' = messages \cup {a}
        /\ \E o \in {"ok", "error"} : \E m \in {a, None} :
              /\ o = "ok" => m = a
              /\ outcome' = [outcome EXCEPT ![a] = o]
              /\ answer' = [answer EXCEPT ![a] = m]
      BY <1>2 DEF Commit, CommitRows, End
  <2>2. \A m \in messages : ~SameRequest(a, m)
      BY <1>2 DEF Commit, RunningIsInvisible, Inserted, RequestTaken
  <2> QED
      BY <2>1, <2>2
<1>3. ASSUME NEW p \in Attempt, Resolve(p) PROVE OneMessagePerRequest'
    BY <1>3 DEF Resolve
<1>4. CASE UNCHANGED vars
    BY <1>4 DEF vars, db
<1> QED
    BY <1>1, <1>2, <1>3, <1>4 DEF Next

(* A commit adds the four rows of one send together. *)
LEMMA AllOrNothingStep ==
    TypeOK /\ ProblemStable /\ RunningIsInvisible /\ AllOrNothing /\ [Next]_vars
        => AllOrNothing'
<1> SUFFICES ASSUME TypeOK, ProblemStable, RunningIsInvisible, AllOrNothing,
                    [Next]_vars
             PROVE  AllOrNothing'
    OBVIOUS
<1> USE DEF TypeOK, AllOrNothing
<1>1. ASSUME NEW a \in Attempt, Handle(a) \/ Rollback(a), ~Commit(a)
      PROVE  AllOrNothing'
    BY <1>1, QuietStep DEF db
<1>2. ASSUME NEW a \in Attempt, Commit(a) PROVE AllOrNothing'
  <2>1. /\ jobs' = jobs \cup {a} /\ messages' = messages \cup {a}
        /\ chats' = chats \cup {ChatOf(a)}
        /\ problems' = problems \cup ({a} \cap {problem[a]})
        /\ problemOf' = [problemOf EXCEPT ![a] = problem[a]]
      BY <1>2 DEF Commit, CommitRows
  <2>2. /\ a \notin messages
        /\ problem[a] = a \/ problem[a] \in problems
        /\ ChatOf(problem[a]) = ChatOf(a)
      BY <1>2 DEF Commit, RunningIsInvisible, ProblemStable, ProblemsOfChat
  <2>3. /\ \A m \in messages : problemOf'[m] = problemOf[m]
        /\ problemOf'[a] = problem[a]
      BY <2>1, <2>2
  <2>4. problems' = {problemOf'[m] : m \in messages'}
    <3>1. problems' = problems \cup {problem[a]}
        BY <2>1, <2>2
    <3>2. {problemOf'[m] : m \in messages'} = {problemOf'[m] : m \in messages} \cup {problemOf'[a]}
        BY <2>1
    <3>3. {problemOf'[m] : m \in messages} = {problemOf[m] : m \in messages}
        BY <2>3
    <3> QED
        BY <2>3, <3>1, <3>2, <3>3
  <2>5. chats' = {ChatOf(m) : m \in messages'}
      BY <2>1
  <2> QED
      BY <2>1, <2>2, <2>3, <2>4, <2>5
<1>3. ASSUME NEW p \in Attempt, Resolve(p) PROVE AllOrNothing'
    BY <1>3 DEF Resolve
<1>4. CASE UNCHANGED vars
    BY <1>4 DEF vars, db
<1> QED
    BY <1>1, <1>2, <1>3, <1>4 DEF Next

(* The conjunction of all parts is preserved by every step. *)
LEMMA SendMessageInvStep == SendMessageInv /\ [Next]_vars => SendMessageInv'
BY TypeStep, LockStep, ProblemStep, InvisibleStep, OneOpenProblemStep,
   OneMessageStep, AllOrNothingStep DEF SendMessageInv

(* The inductive invariant holds in every reachable state. *)
THEOREM SendMessageInvariant == Spec => []SendMessageInv
BY InitSendMessageInv, SendMessageInvStep, PTL DEF Spec

(* A chat has at most one open problem, although the repository checks and  *)
(* inserts in two statements.                                               *)
THEOREM ChatHasOneOpenProblem == Spec => []OneOpenProblem
<1>1. SendMessageInv => OneOpenProblem
    BY DEF SendMessageInv
<1> QED
    BY <1>1, SendMessageInvariant, PTL

(* Retries and races of one request make one message and agree on it. *)
THEOREM SendIsIdempotent == Spec => []OneMessagePerRequest
<1>1. SendMessageInv => OneMessagePerRequest
    BY DEF SendMessageInv
<1> QED
    BY <1>1, SendMessageInvariant, PTL

(* A send commits its chat, problem, message and job together. *)
THEOREM SendIsAtomic == Spec => []AllOrNothing
<1>1. SendMessageInv => AllOrNothing
    BY DEF SendMessageInv
<1> QED
    BY <1>1, SendMessageInvariant, PTL

(* A new message goes to the open problem of its chat, if there is one. *)
THEOREM NewMessagesJoinTheOpenProblem == Spec => MessagesJoinTheOpenProblem
<1>1. ASSUME SendMessageInv, [Next]_vars, NEW a \in Attempt,
             a \in messages' \ messages, NEW p \in problems \ resolved,
             ChatOf(p) = ChatOf(a)
      PROVE  problemOf'[a] = p
  <2>1. Commit(a)
    <3>1. ASSUME NEW b \in Attempt, Handle(b) \/ Rollback(b) PROVE Commit(a)
      <4>1. Commit(b)
          BY <1>1, <3>1, QuietStep DEF db, SendMessageInv
      <4> QED
          BY <1>1, <4>1 DEF Commit, CommitRows
    <3> QED
        BY <1>1, <3>1 DEF Next, Resolve, vars, db
  <2>2. OpenProblems(ChatOf(a)) \subseteq {problem[a]} /\ problemOf'[a] = problem[a]
      BY <1>1, <2>1 DEF Commit, CommitRows, SendMessageInv, ProblemStable, TypeOK
  <2> QED
      BY <1>1, <2>2 DEF OpenProblems, ProblemsOfChat, SendMessageInv, TypeOK
<1>2. SendMessageInv /\ [Next]_vars =>
        [\A a \in Attempt : a \in messages' \ messages =>
           \A p \in problems \ resolved :
              ChatOf(p) = ChatOf(a) => problemOf'[a] = p]_vars
    BY <1>1
<1> QED
    BY <1>2, SendMessageInvariant, PTL DEF Spec, MessagesJoinTheOpenProblem

(* No ring of waiting transactions, and none that waits for a lock left     *)
(* behind: who holds the chat's lock is past the upsert, and no other       *)
(* transaction of the chat can have inserted a message.                     *)
THEOREM SendNeverDeadlocks == Spec => []HoldersNeverWait
<1>1. SendMessageInv => HoldersNeverWait
  <2> SUFFICES ASSUME SendMessageInv, NEW a \in Attempt, NEW b \in Attempt,
                      b \in WaitsFor(a)
               PROVE  Locking(b) /\ WaitsFor(b) = {}
      BY DEF HoldersNeverWait
  <2>1. Locking(b)
      BY SendMessageAssumption
      DEF WaitsFor, SendMessageInv, TypeOK, LocksHeld, Locking, Inserted, ChatOf
  <2>2. ASSUME NEW c \in Attempt, c \in WaitsFor(b) PROVE FALSE
    <3>1. pc[b] = "message" /\ Inserted(c) /\ SameRequest(b, c)
        BY <2>1, <2>2 DEF WaitsFor, Locking
    <3>2. Locking(c) /\ ChatOf(b) = ChatOf(c)
        BY <3>1 DEF Inserted, Locking, SameRequest, ChatOf
    <3>3. b = c
        BY <2>1, <3>2, LockIsExclusive DEF SendMessageInv
    <3> QED
        BY <3>1, <3>3 DEF Inserted
  <2> QED
      BY <2>1, <2>2 DEF WaitsFor
<1> QED
    BY <1>1, SendMessageInvariant, PTL

-----------------------------------------------------------------------------
(***************************************************************************)
(* Paging through the history of a chat of any length, with pages of any   *)
(* size: rows go backwards in time, and only ties with the end of a page   *)
(* are skipped.                                                            *)
(***************************************************************************)

(* A short page holds all the rows there are. *)
LEMMA ShortPageIsAll ==
    ASSUME HistoryTypeOK, NEW T \in Youngest(Older, PageSize + 1),
           Cardinality(T) <= PageSize
    PROVE  T = Older
<1>1. IsFiniteSet(Messages) /\ PageSize \in Nat
  BY HistoryAssumption
<1>2. Older \subseteq Messages
  BY DEF HistoryTypeOK, Older
<1>3. IsFiniteSet(Older)
  BY <1>1, <1>2, FS_Subset
<1>4. T \in SUBSET Older
  BY DEF Youngest
<1>5. IsFiniteSet(T) /\ Cardinality(T) \in Nat /\ Cardinality(Older) \in Nat
  BY <1>3, <1>4, FS_Subset, FS_CardinalityType
<1>6. Cardinality(T) = Cardinality(Older)
  BY <1>1, <1>5 DEF Youngest
<1> QED
  BY <1>3, <1>4, <1>6, FS_Subset

(* What a read does to the client, in both cases: the page is older than    *)
(* the cursor, and a row that was older and is not on it lies at or behind *)
(* the new cursor, and not before its last row.                            *)
LEMMA PageFacts ==
    ASSUME HistoryTypeOK, RowsInOrder, ReadPage
    PROVE  /\ page' \subseteq Older
           /\ \/ done' = TRUE /\ page' = Older /\ cursor' = cursor
              \/ /\ done' = done
                 /\ cursor' \in 0..MaxTime /\ cursor' < cursor
                 /\ \E t \in page' : created[t] = cursor'
                 /\ \A s \in page' : created[s] >= cursor'
                 /\ \A m \in Older \ page' : created[m] <= cursor'
<1>1. PICK T \in Youngest(Older, PageSize + 1) : LastPage(T) \/ FullPage(T)
  BY DEF ReadPage
<1>2. T \subseteq Older /\ \A t \in T, s \in Older \ T : created[s] <= created[t]
  BY DEF Youngest
<1>3. \A m \in table : created[m] \in 0..MaxTime
  BY HistoryAssumption DEF HistoryTypeOK, RowsInOrder, Unborn
<1>4. CASE LastPage(T)
  BY <1>2, <1>4, ShortPageIsAll DEF LastPage
<1>5. CASE FullPage(T)
  <2>1. PICK extra \in LastOf(T) : \E last \in LastOf(T \ {extra}) :
               page' = T \ {extra} /\ cursor' = created[last]
    BY <1>5 DEF FullPage
  <2>2. PICK last \in LastOf(T \ {extra}) :
               page' = T \ {extra} /\ cursor' = created[last]
    BY <2>1
  <2>3. last \in T /\ extra \in T /\ T \subseteq table /\ created[last] < cursor
    BY <1>2, <2>1, <2>2 DEF LastOf, Older
  <2>4. \A s \in page' : created[last] <= created[s]
    BY <2>2 DEF LastOf
  <2>5. \A m \in Older \ page' : created[m] <= created[last]
    BY <1>2, <2>1, <2>2, <2>3 DEF LastOf
  <2>6. \A s \in page' : created[s] >= cursor'
    BY <1>3, <2>2, <2>3, <2>4
  <2>7. last \in page'
    BY <2>2 DEF LastOf
  <2> QED
    BY <1>2, <1>3, <1>5, <2>2, <2>3, <2>5, <2>6, <2>7 DEF FullPage
<1> QED
  BY <1>1, <1>4, <1>5

LEMMA HistoryInitOK == HistoryInit => HistoryInv
<1> SUFFICES ASSUME HistoryInit PROVE HistoryInv
  OBVIOUS
<1>1. done \in BOOLEAN
  BY Zenon DEF HistoryInit, NewClient
<1>2. /\ now = 0 /\ created = [m \in Messages |-> Unborn] /\ table = {}
      /\ page = {} /\ seen = {} /\ cursor = First
  BY Zenon DEF HistoryInit, NewClient
<1>3. HistoryTypeOK
  BY <1>1, <1>2, HistoryAssumption DEF HistoryTypeOK, Unborn, First
<1>4. RowsInOrder
  BY <1>2 DEF RowsInOrder, Pending
<1> QED
  BY <1>2, <1>3, <1>4 DEF HistoryInv, SeenIsYounger, SkipsOnlyTies

LEMMA HistoryStepTypeOK ==
    ASSUME HistoryTypeOK, RowsInOrder, [HistoryNext]_historyVars
    PROVE  HistoryTypeOK'
<1> USE HistoryAssumption DEF Unborn, First, rows, client
<1>1. ASSUME NEW m \in Messages, CreateRow(m) \/ CommitRow(m) \/ RollBack(m)
      PROVE  HistoryTypeOK'
  <2>1. created' \in [Messages -> 0..Unborn] /\ table' \subseteq Messages
    BY <1>1 DEF CreateRow, CommitRow, RollBack, HistoryTypeOK
  <2> QED
    BY <1>1, <2>1 DEF CreateRow, CommitRow, RollBack, HistoryTypeOK
<1>2. CASE Tick
  BY <1>2 DEF Tick, HistoryTypeOK
<1>3. CASE ReadPage
  <2>1. page' \subseteq Messages /\ seen' \subseteq Messages
    BY <1>3, PageFacts DEF ReadPage, Older, HistoryTypeOK
  <2>2. done' \in BOOLEAN
    <3>1. done' = TRUE \/ done' = done
      BY <1>3, PageFacts, Zenon
    <3>2. done \in BOOLEAN
      BY Zenon DEF HistoryTypeOK
    <3> QED
      BY <3>1, <3>2, Zenon
  <2>3. cursor' \in 0..First
    <3>1. cursor' = cursor \/ cursor' \in 0..MaxTime
      BY <1>3, PageFacts, Zenon
    <3>2. cursor \in 0..First
      BY Zenon DEF HistoryTypeOK
    <3> QED
      BY <3>1, <3>2
  <2> QED
    BY <1>3, <2>1, <2>2, <2>3 DEF ReadPage, HistoryTypeOK
<1>4. CASE Reload
  <2>1. done' \in BOOLEAN
    BY <1>4, Zenon DEF Reload
  <2> QED
    BY <1>4, <2>1 DEF Reload, HistoryTypeOK
<1>5. CASE UNCHANGED historyVars
  BY <1>5 DEF historyVars, HistoryTypeOK
<1> QED
  BY <1>1, <1>2, <1>3, <1>4, <1>5 DEF HistoryNext

LEMMA StepRows ==
    ASSUME HistoryTypeOK, RowsInOrder, [HistoryNext]_historyVars
    PROVE  RowsInOrder'
<1> USE HistoryAssumption DEF HistoryTypeOK, RowsInOrder, Pending, Unborn, rows, client
<1>1. ASSUME NEW m \in Messages, CreateRow(m)
      PROVE  RowsInOrder'
  BY <1>1 DEF CreateRow
<1>2. ASSUME NEW m \in Messages, CommitRow(m)
      PROVE  RowsInOrder'
  BY <1>2 DEF CommitRow
<1>3. ASSUME NEW m \in Messages, RollBack(m)
      PROVE  RowsInOrder'
  BY <1>3 DEF RollBack
<1>4. CASE Tick
  BY <1>4 DEF Tick
<1>5. CASE ReadPage \/ Reload \/ UNCHANGED historyVars
  BY <1>5 DEF ReadPage, Reload, historyVars
<1> QED
  BY <1>1, <1>2, <1>3, <1>4, <1>5 DEF HistoryNext

LEMMA StepSeen ==
    ASSUME HistoryInv, [HistoryNext]_historyVars
    PROVE  SeenIsYounger' /\ SkipsOnlyTies'
<1> USE HistoryAssumption
<1> USE DEF HistoryInv, SeenIsYounger, SkipsOnlyTies
<1>1. \A m \in table : created[m] \in 0..MaxTime /\ m \in Messages
  BY DEF HistoryTypeOK, RowsInOrder, Unborn
<1>2. ASSUME NEW m \in Messages, CreateRow(m) \/ RollBack(m)
      PROVE  SeenIsYounger' /\ SkipsOnlyTies'
  <2>1. table' = table /\ \A k \in table : created'[k] = created[k]
    BY <1>2 DEF CreateRow, RollBack, Pending, HistoryTypeOK, RowsInOrder, Unborn
  <2> QED
    BY <1>2, <2>1 DEF CreateRow, RollBack, client
<1>3. ASSUME NEW m \in Messages, CommitRow(m)
      PROVE  SeenIsYounger' /\ SkipsOnlyTies'
  <2>1. \A s \in table : created[s] <= created[m] /\ created[m] \in 0..MaxTime
    BY <1>3 DEF CommitRow, Pending, HistoryTypeOK, RowsInOrder, Unborn
  <2>2. \A s \in seen : ~(created[m] < created[s])
    BY <1>1, <2>1
  <2> QED
    BY <1>3, <2>2 DEF CommitRow, client
<1>4. CASE ReadPage
  <2>1. seen' = seen \cup page' /\ table' = table /\ created' = created /\ ~done
    BY <1>4 DEF ReadPage, rows
  <2>2. page' \subseteq table /\ \A s \in page' : created[s] < cursor
    BY <1>4, PageFacts DEF Older
  <2>3. \A m \in table, s \in seen' :
            created[m] >= cursor /\ created[m] < created[s]
              => \E t \in seen : created[t] = created[m]
    BY <1>1, <2>1, <2>2 DEF HistoryTypeOK, First
  <2>4. CASE done' = TRUE /\ page' = Older
    <3>1. \A m \in table : created[m] >= cursor \/ m \in page'
      BY <1>1, <2>4 DEF Older, HistoryTypeOK, First
    <3> QED
      BY <2>1, <2>2, <2>3, <2>4, <3>1
  <2>5. CASE /\ done' = done
             /\ cursor' \in 0..MaxTime /\ cursor' < cursor
             /\ \E t \in page' : created[t] = cursor'
             /\ \A s \in page' : created[s] >= cursor'
             /\ \A m \in Older \ page' : created[m] <= cursor'
    <3>1. \A m \in table : created[m] >= cursor' =>
            created[m] >= cursor \/ m \in page' \/ created[m] = cursor'
      BY <1>1, <2>5 DEF Older, HistoryTypeOK, First
    <3>2. SkipsOnlyTies'
      BY <2>1, <2>3, <2>5, <3>1
    <3>3. ASSUME NEW s \in seen' PROVE created[s] >= cursor'
      <4>1. CASE s \in page'
        BY <2>5, <4>1
      <4>2. CASE s \in seen
        <5>1. created[s] >= cursor /\ created[s] \in Nat
          BY <1>1, <2>1, <4>2
        <5>2. cursor \in Nat /\ cursor' \in Nat /\ cursor' < cursor
          BY <2>5 DEF HistoryTypeOK, First
        <5> QED
          BY <5>1, <5>2
      <4> QED
        BY <2>1, <4>1, <4>2
    <3>4. \A s \in seen' : created'[s] >= cursor'
      BY <2>1, <3>3
    <3>5. SeenIsYounger'
      BY <2>1, <2>2, <3>4
    <3> QED
      BY <3>2, <3>5
  <2> QED
    BY <1>4, <2>4, <2>5, PageFacts
<1>5. CASE Reload
  BY <1>5 DEF Reload, rows
<1>6. CASE Tick \/ UNCHANGED historyVars
  BY <1>6 DEF Tick, historyVars, rows, client
<1> QED
  BY <1>2, <1>3, <1>4, <1>5, <1>6 DEF HistoryNext

(* The conjunction of what holds of the rows and of what the client has     *)
(* been shown is an invariant.                                             *)
THEOREM HistoryInvariant == HistorySpec => []HistoryInv
<1>1. HistoryInit => HistoryInv
  BY HistoryInitOK
<1>2. HistoryInv /\ [HistoryNext]_historyVars => HistoryInv'
  BY HistoryStepTypeOK, StepRows, StepSeen DEF HistoryInv
<1> QED
  BY <1>1, <1>2, PTL DEF HistorySpec

(* A committed message is left out by ties with the end of a page only,     *)
(* for every number of messages and every page size.                       *)
THEOREM HistorySkipsOnlyTies == HistorySpec => []SkipsOnlyTies
<1>1. HistoryInv => SkipsOnlyTies
  BY DEF HistoryInv
<1> QED
  BY <1>1, HistoryInvariant, PTL

(* Every page is strictly older than all the client has seen.               *)
THEOREM HistoryPagesDescend == HistorySpec => PagesDescend
<1>1. HistoryInv /\ [HistoryNext]_historyVars =>
        [ReadPage => \A m \in page', s \in seen : created[m] < created[s]]_historyVars
  <2> SUFFICES ASSUME HistoryInv, ReadPage, NEW m \in page', NEW s \in seen
               PROVE  created[m] < created[s]
    OBVIOUS
  <2>1. m \in table /\ created[m] < cursor
    BY PageFacts DEF HistoryInv, Older
  <2>2. s \in table /\ created[s] >= cursor
    BY DEF HistoryInv, SeenIsYounger, ReadPage
  <2>3. created[m] \in Nat /\ created[s] \in Nat /\ cursor \in Nat
    BY <2>1, <2>2, HistoryAssumption DEF HistoryInv, HistoryTypeOK, Unborn, First
  <2> QED
    BY <2>1, <2>2, <2>3
<1> QED
  BY <1>1, HistoryInvariant, PTL DEF HistorySpec, PagesDescend
=============================================================================
