------------------------------ MODULE StoreChat ------------------------------
(***************************************************************************)
(* The chats: the generated package internal/store/chat and the builders   *)
(* of a chat, which has many messages and many problems.                   *)
(***************************************************************************)
EXTENDS EntBuilder

Columns == {"id", "client_id", "created_at"}
Table == [unique |-> {"id", "client_id"}, nullable |-> {}, references |-> None]
Immutable == Columns

Valid(c, v) == c \in {"id", "client_id"} => v # 0
AllValid(b, C) == \A c \in C \cap DOMAIN b.set : Valid(c, b.set[c])

Node(r) == [c \in Columns |-> IF r[c] = Null THEN 0 ELSE r[c]]

-----------------------------------------------------------------------------
MutationCalls == Calls(Columns, {}, {}, {"messages", "problems"}, {})
Fields(b) == DOMAIN b.set \cap (Columns \ {"id"})
AddedFields(b) == {}
ClearedFields(b) == {}
ReportedEdges(b) ==
    {e \in {"messages", "problems"} : Ids(b.link, e) # {} \/ Ids(b.unlink, e) # {}}
        \cup (b.unlinked \cap {"messages", "problems"})

-----------------------------------------------------------------------------
CreateCalls == Calls(Columns, {}, {}, {"messages", "problems"}, {})

Defaults(b, fresh, now) == WithDefaults(b, [id |-> fresh, created_at |-> now])

CreateCheck(b) == Requires(b, {"client_id", "created_at"}) /\ AllValid(b, {"client_id", "id"})

CreateRow(b) == [c \in Columns |-> IF Given(b.set, c) THEN b.set[c] ELSE Null]

UpsertCalls    == Calls({}, {}, {}, {}, {})
UpsertOneCalls == Calls({}, {}, {}, {}, {})

KeptByNewValues(b) == DOMAIN b.set \cap {"id", "client_id", "created_at"}
BulkUpsertCalls == Calls({}, {}, {}, {}, {})
KeptByBulk(bs) == {c \in {"id", "client_id", "created_at"} : \E b \in bs : Given(b.set, c)}

-----------------------------------------------------------------------------
UpdateCalls == Calls({}, {}, {}, {"messages", "problems"}, {})
UpdateCheck(b) == TRUE
UpdateChanges(b) == Changes(None, {}, None)
UpdateOneCalls == Calls({}, {}, {}, {"messages", "problems"}, {})
UpdateOneChanges(b) == Changes(None, {}, None)

-----------------------------------------------------------------------------
(* Four ways from a chat to its messages and its problems. *)
Steps       == [messages |-> ToMany("message", "chat_id"), problems |-> ToMany("problem", "chat_id")]
ClientSteps == [messages |-> ToMany("message", "chat_id"), problems |-> ToMany("problem", "chat_id")]
Loads       == [messages |-> ToMany("message", "chat_id"), problems |-> ToMany("problem", "chat_id")]
Haves       == [messages |-> ToMany("message", "chat_id"), problems |-> ToMany("problem", "chat_id")]

Comparisons == [c \in Columns |-> Ordering]
=============================================================================
