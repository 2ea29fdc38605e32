--------------------------- MODULE StoreFailedJob ---------------------------
(***************************************************************************)
(* The dead letters of the outbox: the generated package                   *)
(* internal/store/failedjob and the builders of a failed job.  Nothing of  *)
(* one can be changed.                                                     *)
(***************************************************************************)
EXTENDS EntBuilder

Columns == {"id", "name", "payload", "reason", "created_at"}
Table == [unique |-> {"id"}, nullable |-> {}, references |-> None]
Immutable == Columns

Valid(c, v) == c \in {"id", "name", "payload", "reason"} => v # 0
AllValid(b, C) == \A c \in C \cap DOMAIN b.set : Valid(c, b.set[c])

Node(r) == [c \in Columns |-> IF r[c] = Null THEN 0 ELSE r[c]]

-----------------------------------------------------------------------------
MutationCalls == Calls(Columns, {}, {}, {}, {})
Fields(b) == DOMAIN b.set \cap (Columns \ {"id"})
AddedFields(b) == {}
ClearedFields(b) == {}
ReportedEdges(b) == {}

-----------------------------------------------------------------------------
CreateCalls == Calls(Columns, {}, {}, {}, {})

Defaults(b, fresh, now) == WithDefaults(b, [id |-> fresh, created_at |-> now])

CreateCheck(b) ==
    /\ Requires(b, {"name", "payload", "reason", "created_at"})
    /\ AllValid(b, {"name", "payload", "reason", "id"})

CreateRow(b) == [c \in Columns |-> IF Given(b.set, c) THEN b.set[c] ELSE Null]

UpsertCalls    == Calls({}, {}, {}, {}, {})
UpsertOneCalls == Calls({}, {}, {}, {}, {})

KeptByNewValues(b) == DOMAIN b.set \cap {"id", "name", "payload", "reason", "created_at"}
BulkUpsertCalls == Calls({}, {}, {}, {}, {})
KeptByBulk(bs) ==
    {c \in {"id", "name", "payload", "reason", "created_at"} : \E b \in bs : Given(b.set, c)}

-----------------------------------------------------------------------------
UpdateCalls == Calls({}, {}, {}, {}, {})
UpdateCheck(b) == TRUE
UpdateChanges(b) == Changes(None, {}, None)
UpdateOneCalls == Calls({}, {}, {}, {}, {})
UpdateOneChanges(b) == Changes(None, {}, None)

-----------------------------------------------------------------------------
(* A failed job has no edges. *)
Steps       == None
ClientSteps == None
Loads       == None
Haves       == None

Comparisons == [c \in Columns |-> Ordering]
=============================================================================
