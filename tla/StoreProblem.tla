---------------------------- MODULE StoreProblem ----------------------------
(***************************************************************************)
(* The problems: the generated package internal/store/problem and the      *)
(* builders of a problem, which has one chat and many messages.            *)
(***************************************************************************)
EXTENDS EntBuilder

Columns == {"id", "chat_id", "manager_id", "resolved_at", "created_at"}
Table == [unique |-> {"id"}, nullable |-> {"manager_id", "resolved_at"},
          references |-> [chat_id |-> "chat"]]
Immutable == {"id", "created_at"}

Valid(c, v) == c \in {"id", "chat_id", "manager_id"} => v # 0
AllValid(b, C) == \A c \in C \cap DOMAIN b.set : Valid(c, b.set[c])

Node(r) == [c \in Columns |-> IF r[c] = Null THEN 0 ELSE r[c]]

-----------------------------------------------------------------------------
MutationCalls == Calls(Columns, {"manager_id", "resolved_at"}, {}, {"messages"}, {"chat"})
Fields(b) == DOMAIN b.set \cap (Columns \ {"id"})
AddedFields(b) == {}
ClearedFields(b) == b.clear \cap {"manager_id", "resolved_at"}
ReportedEdges(b) ==
    {e \in {"messages"} : Ids(b.link, e) # {} \/ Ids(b.unlink, e) # {}}
        \cup (b.unlinked \cap {"chat", "messages"})

-----------------------------------------------------------------------------
CreateCalls == Calls(Columns, {}, {}, {"messages"}, {})

Defaults(b, fresh, now) == WithDefaults(b, [id |-> fresh, created_at |-> now])

CreateCheck(b) ==
    /\ Requires(b, {"chat_id", "created_at"})
    /\ AllValid(b, {"chat_id", "manager_id", "id"})

CreateRow(b) == [c \in Columns |-> IF Given(b.set, c) THEN b.set[c] ELSE Null]

UpsertCalls ==
    Calls({"chat_id", "manager_id", "resolved_at"}, {"manager_id", "resolved_at"}, {}, {}, {})
UpsertOneCalls ==
    Calls({"chat_id", "manager_id", "resolved_at"}, {"manager_id", "resolved_at"}, {}, {}, {})

KeptByNewValues(b) == DOMAIN b.set \cap {"id", "created_at"}
BulkUpsertCalls ==
    Calls({"chat_id", "manager_id", "resolved_at"}, {"manager_id", "resolved_at"}, {}, {}, {})
KeptByBulk(bs) == {c \in {"id", "created_at"} : \E b \in bs : Given(b.set, c)}

-----------------------------------------------------------------------------
UpdateCalls ==
    Calls({"chat_id", "manager_id", "resolved_at"}, {"manager_id", "resolved_at"}, {},
          {"messages"}, {"chat"})

(* Mutant: the validator of one optional field is forgotten. *)
CheckWithoutManager(b) ==
    /\ AllValid(b, {"chat_id"})
    /\ "chat" \in b.unlinked => Given(b.set, "chat_id")

UpdateCheck(b) ==
    /\ AllValid(b, {"chat_id", "manager_id"})
    /\ "chat" \in b.unlinked => Given(b.set, "chat_id")

UpdateChanges(b) ==
    Changes(Within(b.set, {"chat_id", "manager_id", "resolved_at"}),
            b.clear \cap {"manager_id", "resolved_at"}, None)

UpdateOneCalls ==
    Calls({"chat_id", "manager_id", "resolved_at"}, {"manager_id", "resolved_at"}, {},
          {"messages"}, {"chat"})
UpdateOneChanges(b) ==
    Changes(Within(b.set, {"chat_id", "manager_id", "resolved_at"}),
            b.clear \cap {"manager_id", "resolved_at"}, None)

-----------------------------------------------------------------------------
(* Four ways from a problem to its chat and its messages. *)
Steps       == [chat |-> ToOne("chat", "chat_id"), messages |-> ToMany("message", "problem_id")]
ClientSteps == [chat |-> ToOne("chat", "chat_id"), messages |-> ToMany("message", "problem_id")]
Loads       == [chat |-> ToOne("chat", "chat_id"), messages |-> ToMany("message", "problem_id")]
Haves       == [chat |-> ToOne("chat", "chat_id"), messages |-> ToMany("message", "problem_id")]

Comparisons == [c \in Columns |->
    CASE c = "chat_id" -> OneOf
      [] c \in {"manager_id", "resolved_at"} -> Ordering \cup Nil
      [] OTHER -> Ordering]
=============================================================================
