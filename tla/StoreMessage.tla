---------------------------- MODULE StoreMessage ----------------------------
(***************************************************************************)
(* The messages: the generated package internal/store/message and the      *)
(* builders of a message, which has one chat and one problem.              *)
(***************************************************************************)
EXTENDS EntBuilder

Columns == {"id", "chat_id", "problem_id", "author_id", "is_visible_for_client",
            "is_visible_for_manager", "body", "checked_at", "is_blocked", "is_service",
            "initial_request_id", "created_at"}
Table == [unique |-> {"id", "initial_request_id"}, nullable |-> {"author_id", "checked_at"},
          references |-> [chat_id |-> "chat", problem_id |-> "problem"]]
Immutable == {"id", "author_id", "body", "is_service", "initial_request_id", "created_at"}

Keys == {"id", "chat_id", "problem_id", "author_id", "initial_request_id"}
Valid(c, v) == c \in Keys \cup {"body"} => v # 0
AllValid(b, C) == \A c \in C \cap DOMAIN b.set : Valid(c, b.set[c])

Node(r) == [c \in Columns |-> IF r[c] = Null THEN 0 ELSE r[c]]

-----------------------------------------------------------------------------
MutationCalls == Calls(Columns, {"author_id", "checked_at"}, {}, {}, {"chat", "problem"})
Fields(b) == DOMAIN b.set \cap (Columns \ {"id"})
AddedFields(b) == {}
ClearedFields(b) == b.clear \cap {"author_id", "checked_at"}
ReportedEdges(b) == b.unlinked \cap {"chat", "problem"}

-----------------------------------------------------------------------------
CreateCalls == Calls(Columns, {}, {}, {}, {})

Defaults(b, fresh, now) ==
    WithDefaults(b, [is_visible_for_client |-> 0, is_visible_for_manager |-> 0,
                     is_blocked |-> 0, is_service |-> 0, created_at |-> now, id |-> fresh])

CreateCheck(b) ==
    /\ Requires(b, {"chat_id", "problem_id", "is_visible_for_client", "is_visible_for_manager",
                    "body", "is_blocked", "is_service", "initial_request_id", "created_at"})
    /\ AllValid(b, {"chat_id", "problem_id", "author_id", "body", "initial_request_id", "id"})

CreateRow(b) == [c \in Columns |-> IF Given(b.set, c) THEN b.set[c] ELSE Null]

Settable == {"chat_id", "problem_id", "is_visible_for_client", "is_visible_for_manager",
             "checked_at", "is_blocked"}
UpsertCalls    == Calls(Settable, {"checked_at"}, {}, {}, {})
UpsertOneCalls == Calls(Settable, {"checked_at"}, {}, {}, {})

(* Mutant: the time of creation is taken over. *)
KeptButCreatedAt(b) == DOMAIN b.set \cap (Immutable \ {"created_at"})

KeptByNewValues(b) == DOMAIN b.set \cap
    {"id", "author_id", "body", "is_service", "initial_request_id", "created_at"}
BulkUpsertCalls == Calls(Settable, {"checked_at"}, {}, {}, {})
KeptByBulk(bs) ==
    {c \in {"id", "author_id", "body", "is_service", "initial_request_id", "created_at"} :
        \E b \in bs : Given(b.set, c)}

-----------------------------------------------------------------------------
UpdateCalls == Calls(Settable, {"checked_at"}, {}, {}, {"chat", "problem"})

(* A required edge is cleared only to be set. *)
UpdateCheck(b) ==
    /\ AllValid(b, {"chat_id", "problem_id"})
    /\ "chat" \in b.unlinked => Given(b.set, "chat_id")
    /\ "problem" \in b.unlinked => Given(b.set, "problem_id")

UpdateChanges(b) ==
    Changes(Within(b.set, Settable), b.clear \cap {"author_id", "checked_at"}, None)

UpdateOneCalls == Calls(Settable, {"checked_at"}, {}, {}, {"chat", "problem"})
UpdateOneChanges(b) ==
    Changes(Within(b.set, Settable), b.clear \cap {"author_id", "checked_at"}, None)

-----------------------------------------------------------------------------
(* Four ways from a message to its chat and its problem: QueryChat of a    *)
(* query, QueryChat of the client, WithChat, and the predicate HasChat.    *)
Steps       == [chat |-> ToOne("chat", "chat_id"), problem |-> ToOne("problem", "problem_id")]
ClientSteps == [chat |-> ToOne("chat", "chat_id"), problem |-> ToOne("problem", "problem_id")]
Loads       == [chat |-> ToOne("chat", "chat_id"), problem |-> ToOne("problem", "problem_id")]
Haves       == [chat |-> ToOne("chat", "chat_id"), problem |-> ToOne("problem", "problem_id")]

Comparisons == [c \in Columns |->
    CASE c \in {"chat_id", "problem_id"} -> OneOf
      [] c \in {"is_visible_for_client", "is_visible_for_manager", "is_blocked", "is_service"} -> Equality
      [] c \in {"author_id", "checked_at"} -> Ordering \cup Nil
      [] OTHER -> Ordering]
=============================================================================
