------------------------------ MODULE History ------------------------------
(***************************************************************************)
(* The history of a chat, read page by page while messages arrive          *)
(* (messagesrepo.Repo.getChatMessages behind the get-history use case).     *)
(*                                                                         *)
(* A message gets its created_at when its row is built and is visible from *)
(* the commit of its transaction on.  The transactions of one chat exclude *)
(* each other, for each begins with the upsert of the chat's row (module   *)
(* SendMessage).  Rows with one created_at have no order: the database     *)
(* returns any of them first.  The cursor the client is given encodes its  *)
(* time exactly, so it is that time here.                                  *)
(***************************************************************************)
EXTENDS Naturals, FiniteSets

CONSTANTS
    Messages,   \* the messages of one chat that its client may see
    PageSize,
    MaxTime     \* bound on the clock

ASSUME HistoryAssumption ==
    IsFiniteSet(Messages) /\ PageSize \in Nat \ {0} /\ MaxTime \in Nat

VARIABLES
    now,
    created,    \* created_at, Unborn before the row is built
    table,      \* the committed messages
    page,       \* the page the client was given last
    seen,       \* the messages on all pages
    cursor,     \* Cursor.LastCreatedAt, First before the first page
    done        \* the last page came without a cursor

rows        == <<now, created, table>>
client      == <<page, seen, cursor, done>>
historyVars == <<rows, client>>

Unborn == MaxTime + 1
First == MaxTime + 1    \* "a hundred years from now"

HistoryTypeOK ==
    /\ now \in 0..MaxTime
    /\ created \in [Messages -> 0..Unborn]
    /\ table \subseteq Messages
    /\ page \subseteq Messages /\ seen \subseteq Messages
    /\ cursor \in 0..First
    /\ done \in BOOLEAN

NewClient ==
    page = {} /\ seen = {} /\ cursor = First /\ done = FALSE

HistoryInit ==
    /\ now = 0 /\ created = [m \in Messages |-> Unborn] /\ table = {}
    /\ NewClient

-----------------------------------------------------------------------------
(* The chat's row is locked by a transaction that has built this row. *)
Pending(m) == created[m] # Unborn /\ m \notin table

(* A row is built with time.Now() ... *)
(* Mutant: without the lock of the chat. *)
CreateRowUnlocked(m) ==
    /\ created[m] = Unborn
    /\ created' = [created EXCEPT ![m] = now]
    /\ UNCHANGED <<now, table, client>>
CreateRow(m) ==
    /\ created[m] = Unborn /\ \A k \in Messages : ~Pending(k)
    /\ created' = [created EXCEPT ![m] = now]
    /\ UNCHANGED <<now, table, client>>

(* ... and its transaction commits or is rolled back. *)
CommitRow(m) ==
    /\ Pending(m)
    /\ table' = table \cup {m}
    /\ UNCHANGED <<now, created, client>>

RollBack(m) ==
    /\ Pending(m)
    /\ created' = [created EXCEPT ![m] = Unborn]
    /\ UNCHANGED <<now, table, client>>

Tick ==
    /\ now < MaxTime /\ now' = now + 1
    /\ UNCHANGED <<created, table, client>>

-----------------------------------------------------------------------------
(* WHERE created_at < cursor *)
(* Mutant: the rows of the cursor's time again. *)
NotYounger == {m \in table : created[m] <= cursor}
Older == {m \in table : created[m] < cursor}

(* ORDER BY created_at DESC LIMIT n, as a set *)
Youngest(S, n) ==
    {T \in SUBSET S :
        /\ Cardinality(T) = IF Cardinality(S) < n THEN Cardinality(S) ELSE n
        /\ \A t \in T, s \in S \ T : created[s] <= created[t]}

(* The rows that may come last. *)
LastOf(T) == {t \in T : \A s \in T : created[t] <= created[s]}

(* No more rows than the page takes: there is no cursor. *)
LastPage(T) ==
    /\ Cardinality(T) <= PageSize
    /\ page' = T
    /\ done' = TRUE
    /\ UNCHANGED cursor

(* The row beyond the page is dropped, and the cursor is the time of the     *)
(* last one left.                                                          *)
(* Mutant: the client is not given the cursor. *)
CursorLost(T) ==
    /\ Cardinality(T) > PageSize
    /\ \E extra \in LastOf(T) : page' = T \ {extra}
    /\ UNCHANGED <<cursor, done>>
FullPage(T) ==
    /\ Cardinality(T) > PageSize
    /\ \E extra \in LastOf(T) : \E last \in LastOf(T \ {extra}) :
         page' = T \ {extra} /\ cursor' = created[last]
    /\ UNCHANGED done

(* getChatMessages, once. *)
ReadPage ==
    /\ ~done
    /\ \E T \in Youngest(Older, PageSize + 1) : LastPage(T) \/ FullPage(T)
    /\ seen' = seen \cup page'
    /\ UNCHANGED rows

(* The client begins again, without a cursor. *)
Reload ==
    /\ seen # {} \/ done
    /\ page' = {} /\ seen' = {} /\ cursor' = First /\ done' = FALSE
    /\ UNCHANGED rows

HistoryNext ==
    \/ \E m \in Messages : CreateRow(m) \/ CommitRow(m) \/ RollBack(m)
    \/ Tick \/ ReadPage \/ Reload

HistorySpec == HistoryInit /\ [][HistoryNext]_historyVars

(* A client that has begun to read goes on to the end. *)
HistoryLiveSpec == HistorySpec /\ WF_historyVars(ReadPage)

-----------------------------------------------------------------------------
(* Every row of a page is strictly older than all the client has seen, so    *)
(* that nothing is shown twice whatever arrives between two pages          *)
(* (api_history.go:80).                                                    *)
PagesDescend ==
    [][ReadPage => \A m \in page', s \in seen : created[m] < created[s]]_historyVars

(* A committed message older than one the client has seen is not left out    *)
(* of the pages that cover its time, unless it shares its created_at with  *)
(* a message on them: the rest of a tie that the end of a page divides is  *)
(* skipped by the strict comparison.  It takes the chat's lock, too: a     *)
(* message that could commit behind a younger one would be missed.         *)
SkipsOnlyTies ==
    \A m \in table, s \in seen :
        created[m] < created[s] /\ (done \/ created[m] >= cursor)
            => \E t \in seen : created[t] = created[m]

(* Rows of a chat are committed in the order in which they were built.      *)
RowsInOrder ==
    /\ \A m \in Messages : created[m] = Unborn \/ created[m] <= now
    /\ \A m \in table : created[m] # Unborn
    /\ \A m, k \in Messages : Pending(m) /\ Pending(k) => m = k
    /\ \A m \in Messages, k \in table : Pending(m) => created[k] <= created[m]

(* The client is as far back as its cursor says. *)
SeenIsYounger ==
    /\ seen \subseteq table
    /\ ~done => \A s \in seen : created[s] >= cursor

(* The inductive invariant: the order of the rows, which takes the lock of    *)
(* the chat, how far back the client is (api_history.go:80 and 98), and    *)
(* what it has not missed.                                                 *)
HistoryInv == HistoryTypeOK /\ RowsInOrder /\ SeenIsYounger /\ SkipsOnlyTies

(* Paging comes to an end, or the client begins again, although messages    *)
(* keep arriving: the cursor goes back in time with each page.             *)
PagingEnds == (seen # {}) ~> (done \/ seen = {})
=============================================================================
