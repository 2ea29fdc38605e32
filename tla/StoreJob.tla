------------------------------ MODULE StoreJob ------------------------------
(***************************************************************************)
(* The jobs of the outbox: the generated package internal/store/job and    *)
(* the builders of a job.                                                  *)
(***************************************************************************)
EXTENDS EntBuilder

CONSTANT JobMaxAttempts \* jobMaxAttempts of the schema

Columns == {"id", "name", "payload", "attempts", "available_at", "reserved_until", "created_at"}
Table == [unique |-> {"id"}, nullable |-> {}, references |-> None]
Immutable == {"id", "name", "payload", "available_at", "created_at"}

Valid(c, v) ==
    CASE c \in {"id", "name", "payload"} -> v # 0
      [] c = "attempts" -> v \in 0..JobMaxAttempts
      [] OTHER -> TRUE
AllValid(b, C) == \A c \in C \cap DOMAIN b.set : Valid(c, b.set[c])

Node(r) == [c \in Columns |-> IF r[c] = Null THEN 0 ELSE r[c]]

-----------------------------------------------------------------------------
(* The mutation: what may be asked of it, and what it reports. *)
MutationCalls == Calls(Columns, {}, {"attempts"}, {}, {})
Fields(b) == DOMAIN b.set \cap (Columns \ {"id"})
AddedFields(b) == DOMAIN b.add \cap {"attempts"}
ClearedFields(b) == {}
ReportedEdges(b) == {}

-----------------------------------------------------------------------------
CreateCalls == Calls(Columns, {}, {}, {}, {})

Defaults(b, fresh, now) ==
    WithDefaults(b, [id |-> fresh, attempts |-> 0, available_at |-> now,
                     reserved_until |-> now, created_at |-> now])

CreateCheck(b) ==
    /\ Requires(b, {"name", "payload", "attempts", "available_at", "reserved_until", "created_at"})
    /\ AllValid(b, {"name", "payload", "attempts", "id"})

CreateRow(b) == [c \in Columns |-> IF Given(b.set, c) THEN b.set[c] ELSE Null]

UpsertCalls    == Calls({"attempts", "reserved_until"}, {}, {"attempts"}, {}, {})
UpsertOneCalls == Calls({"attempts", "reserved_until"}, {}, {"attempts"}, {}, {})

(* What UpdateNewValues leaves as it is. *)
KeptByNewValues(b) == DOMAIN b.set \cap {"id", "name", "payload", "available_at", "created_at"}
BulkUpsertCalls == Calls({"attempts", "reserved_until"}, {}, {"attempts"}, {}, {})
KeptByBulk(bs) ==
    {c \in {"id", "name", "payload", "available_at", "created_at"} : \E b \in bs : Given(b.set, c)}

-----------------------------------------------------------------------------
UpdateCalls == Calls({"attempts", "reserved_until"}, {}, {"attempts"}, {}, {})
UpdateCheck(b) == AllValid(b, {"attempts"})

(* Mutant: what is added replaces what was set. *)
ChangesOnceSet(b) ==
    Changes(Within(b.set, {"reserved_until"}), {}, Within(b.add, {"attempts"}))

UpdateChanges(b) ==
    Changes(Within(b.set, {"attempts", "reserved_until"}), {}, Within(b.add, {"attempts"}))

UpdateOneCalls == Calls({"attempts", "reserved_until"}, {}, {"attempts"}, {}, {})
UpdateOneChanges(b) ==
    Changes(Within(b.set, {"attempts", "reserved_until"}), {}, Within(b.add, {"attempts"}))

-----------------------------------------------------------------------------
(* A job has no edges. *)
Steps       == None
ClientSteps == None
Loads       == None
Haves       == None

Comparisons == [c \in Columns |-> Ordering]
=============================================================================
