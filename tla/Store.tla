------------------------------- MODULE Store -------------------------------
(***************************************************************************)
(* The row store (internal/store): the client of the five entities, their  *)
(* builders, the transactions of Database.RunInTx, and what Save leaves in *)
(* the tables.  What an entity has and what its builders do are in         *)
(* StoreChat, StoreProblem, StoreMessage, StoreJob and StoreFailedJob; the *)
(* statements, which ent's sqlgraph makes of a builder and PostgreSQL      *)
(* carries out, are external.                                              *)
(*                                                                         *)
(* The caller is any caller of the package, one goroutine.  Hooks and      *)
(* interceptors are not registered anywhere and left out.                  *)
(***************************************************************************)
EXTENDS EntBuilder, Sequences

CONSTANTS
    JobMaxAttempts,
    Tables0,   \* the tables at the beginning
    Inputs,    \* for each entity the fields that a new create builder is given
    Values,    \* values of a later call
    Conflicts, \* for each entity the options of OnConflictColumns
    Filters,   \* for each entity the comparisons in Where
    MaxCalls,  \* bound on later calls on builders, each Save counted as one
    MaxSaves   \* bound on Save

Entity == {"chat", "problem", "message", "job", "failed_job"}

ASSUME StoreAssumption ==
    /\ JobMaxAttempts \in Nat /\ MaxCalls \in Nat /\ MaxSaves \in Nat
    /\ DOMAIN Inputs = Entity /\ DOMAIN Conflicts = Entity /\ DOMAIN Filters = Entity

Chat      == INSTANCE StoreChat
Problem   == INSTANCE StoreProblem
Message   == INSTANCE StoreMessage
Job       == INSTANCE StoreJob
FailedJob == INSTANCE StoreFailedJob

(* One of five, by the entity. *)
Of(e, c, p, m, j, f) ==
    CASE e = "chat" -> c [] e = "problem" -> p [] e = "message" -> m
      [] e = "job" -> j [] e = "failed_job" -> f

Columns(e)   == Of(e, Chat!Columns, Problem!Columns, Message!Columns, Job!Columns, FailedJob!Columns)
Table(e)     == Of(e, Chat!Table, Problem!Table, Message!Table, Job!Table, FailedJob!Table)
Immutable(e) == Of(e, Chat!Immutable, Problem!Immutable, Message!Immutable, Job!Immutable,
                   FailedJob!Immutable)
Valid(e, c, v) == Of(e, Chat!Valid(c, v), Problem!Valid(c, v), Message!Valid(c, v),
                     Job!Valid(c, v), FailedJob!Valid(c, v))
Node(e, r)   == Of(e, Chat!Node(r), Problem!Node(r), Message!Node(r), Job!Node(r), FailedJob!Node(r))

MutationCalls(e) == Of(e, Chat!MutationCalls, Problem!MutationCalls, Message!MutationCalls,
                       Job!MutationCalls, FailedJob!MutationCalls)
CreateCalls(e) == Of(e, Chat!CreateCalls, Problem!CreateCalls, Message!CreateCalls,
                     Job!CreateCalls, FailedJob!CreateCalls)
UpdateCalls(e) == Of(e, Chat!UpdateCalls, Problem!UpdateCalls, Message!UpdateCalls,
                     Job!UpdateCalls, FailedJob!UpdateCalls)
UpdateOneCalls(e) == Of(e, Chat!UpdateOneCalls, Problem!UpdateOneCalls, Message!UpdateOneCalls,
                        Job!UpdateOneCalls, FailedJob!UpdateOneCalls)
UpsertCalls(e) == Of(e, Chat!UpsertCalls, Problem!UpsertCalls, Message!UpsertCalls,
                     Job!UpsertCalls, FailedJob!UpsertCalls)
UpsertOneCalls(e) == Of(e, Chat!UpsertOneCalls, Problem!UpsertOneCalls, Message!UpsertOneCalls,
                        Job!UpsertOneCalls, FailedJob!UpsertOneCalls)
BulkUpsertCalls(e) == Of(e, Chat!BulkUpsertCalls, Problem!BulkUpsertCalls, Message!BulkUpsertCalls,
                         Job!BulkUpsertCalls, FailedJob!BulkUpsertCalls)

Defaults(e, b, fresh, now) ==
    Of(e, Chat!Defaults(b, fresh, now), Problem!Defaults(b, fresh, now),
       Message!Defaults(b, fresh, now), Job!Defaults(b, fresh, now), FailedJob!Defaults(b, fresh, now))
CreateCheck(e, b) == Of(e, Chat!CreateCheck(b), Problem!CreateCheck(b), Message!CreateCheck(b),
                        Job!CreateCheck(b), FailedJob!CreateCheck(b))
CreateRow(e, b) == Of(e, Chat!CreateRow(b), Problem!CreateRow(b), Message!CreateRow(b),
                      Job!CreateRow(b), FailedJob!CreateRow(b))
KeptByNewValues(e, b) ==
    Of(e, Chat!KeptByNewValues(b), Problem!KeptByNewValues(b), Message!KeptByNewValues(b),
       Job!KeptByNewValues(b), FailedJob!KeptByNewValues(b))
KeptByBulk(e, bs) == Of(e, Chat!KeptByBulk(bs), Problem!KeptByBulk(bs), Message!KeptByBulk(bs),
                        Job!KeptByBulk(bs), FailedJob!KeptByBulk(bs))
UpdateCheck(e, b) == Of(e, Chat!UpdateCheck(b), Problem!UpdateCheck(b), Message!UpdateCheck(b),
                        Job!UpdateCheck(b), FailedJob!UpdateCheck(b))
UpdateChanges(e, b) == Of(e, Chat!UpdateChanges(b), Problem!UpdateChanges(b),
                          Message!UpdateChanges(b), Job!UpdateChanges(b), FailedJob!UpdateChanges(b))
UpdateOneChanges(e, b) ==
    Of(e, Chat!UpdateOneChanges(b), Problem!UpdateOneChanges(b), Message!UpdateOneChanges(b),
       Job!UpdateOneChanges(b), FailedJob!UpdateOneChanges(b))

Fields(e, b) == Of(e, Chat!Fields(b), Problem!Fields(b), Message!Fields(b), Job!Fields(b),
                   FailedJob!Fields(b))
AddedFields(e, b) == Of(e, Chat!AddedFields(b), Problem!AddedFields(b), Message!AddedFields(b),
                        Job!AddedFields(b), FailedJob!AddedFields(b))
ClearedFields(e, b) == Of(e, Chat!ClearedFields(b), Problem!ClearedFields(b),
                          Message!ClearedFields(b), Job!ClearedFields(b), FailedJob!ClearedFields(b))
ReportedEdges(e, b) == Of(e, Chat!ReportedEdges(b), Problem!ReportedEdges(b),
                          Message!ReportedEdges(b), Job!ReportedEdges(b), FailedJob!ReportedEdges(b))

Steps(e) == Of(e, Chat!Steps, Problem!Steps, Message!Steps, Job!Steps, FailedJob!Steps)
ClientSteps(e) == Of(e, Chat!ClientSteps, Problem!ClientSteps, Message!ClientSteps,
                     Job!ClientSteps, FailedJob!ClientSteps)
Loads(e) == Of(e, Chat!Loads, Problem!Loads, Message!Loads, Job!Loads, FailedJob!Loads)
Haves(e) == Of(e, Chat!Haves, Problem!Haves, Message!Haves, Job!Haves, FailedJob!Haves)
Comparisons(e) == Of(e, Chat!Comparisons, Problem!Comparisons, Message!Comparisons,
                     Job!Comparisons, FailedJob!Comparisons)

-----------------------------------------------------------------------------
VARIABLES
    db,    \* the committed tables
    tx,    \* the transaction in the context: its view of the tables
    hand,  \* the builder in the caller's hand, or the builders of a bulk
    calls, \* calls made on builders
    saves, \* calls of Save
    last   \* what the last Save returned

vars == <<db, tx, hand, calls, saves, last>>

NoTx == [depth |-> 0, view |-> None, aborted |-> FALSE]
EveryRow == [on |-> "id", cmp |-> "True", value |-> 0]
NoConflict == [how |-> "none"]
Hand(bs, p, o) == [builders |-> bs, where |-> p, conflict |-> o]
NoHand == Hand(<<>>, EveryRow, NoConflict)
Nothing == [out |-> "none", ids |-> {}]

View == IF tx.depth = 0 THEN db ELSE tx.view

Init ==
    /\ db = Tables0
    /\ tx = NoTx
    /\ hand = NoHand
    /\ calls = 0
    /\ saves = 0
    /\ last = Nothing

-----------------------------------------------------------------------------
(* Edges and predicates. *)
Neighbours(view, edge, r) ==
    {s \in view[edge.to] : IF edge.many THEN s[edge.column] = r.id ELSE s.id = r[edge.column]}

(* WithX: the other end is read once for all nodes and shared out by key. *)
Loaded(view, edge, R) ==
    LET keys  == {IF edge.many THEN r.id ELSE r[edge.column] : r \in R}
        found == {s \in view[edge.to] : (IF edge.many THEN s[edge.column] ELSE s.id) \in keys}
    IN  [r \in R |-> {s \in found : IF edge.many THEN s[edge.column] = r.id
                                                 ELSE s.id = r[edge.column]}]

Compares(cmp, v, to) ==
    CASE cmp = "EQ"    -> v = to
      [] cmp = "NEQ"   -> v # to
      [] cmp = "In"    -> v \in to
      [] cmp = "NotIn" -> v \notin to
      [] cmp = "GT"    -> v > to
      [] cmp = "GTE"   -> v >= to
      [] cmp = "LT"    -> v < to
      [] cmp = "LTE"   -> v <= to

(* A comparison with NULL is not true. *)
Holds(view, e, p, r) ==
    CASE p.cmp = "True"   -> TRUE
      [] p.cmp = "Has"    -> Neighbours(view, Haves(e)[p.on], r) # {}
      [] p.cmp = "IsNil"  -> r[p.on] = Null
      [] p.cmp = "NotNil" -> r[p.on] # Null
      [] OTHER            -> r[p.on] # Null /\ Compares(p.cmp, r[p.on], p.value)

(* A query: what All reads, and what the others make of it.  Only a read   *)
(* that finds exactly one node returns it.                                 *)
All(view, e, p)   == {Node(e, r) : r \in {r \in view[e] : Holds(view, e, p, r)}}
IDs(view, e, p)   == {n.id : n \in All(view, e, p)}
Exist(view, e, p) == IDs(view, e, p) # {}
Only(view, e, p) ==
    LET found == All(view, e, p)
    IN  CASE found = {}             -> [err |-> "not found", node |-> None]
          [] Cardinality(found) = 1 -> [err |-> "nil", node |-> CHOOSE n \in found : TRUE]
          [] OTHER                  -> [err |-> "not singular", node |-> None]

IDIs(id) == [on |-> "id", cmp |-> "EQ", value |-> id]
Get(view, e, id) == Only(view, e, IDIs(id))

Matched(view, b, p) ==
    {r \in view[b.entity] : Holds(view, b.entity, p, r) /\ b.id \in {0, r.id}}

-----------------------------------------------------------------------------
(* Statements.  The constraints of the tables hold after each of them. *)
Intact(view) ==
    \A e \in Entity :
        LET t == Table(e) IN
        /\ \A r \in view[e], c \in Columns(e) \ t.nullable : r[c] # Null
        /\ \A r \in view[e], c \in DOMAIN t.references :
              \E s \in view[t.references[c]] : s.id = r[c]
        /\ \A r, s \in view[e] : (\E c \in t.unique : r[c] = s[c]) => r = s

(* Tables: for each entity a set of rows with its columns. *)
AreTables(view) ==
    /\ view = [e \in Entity |-> view[e]]
    /\ \A e \in Entity : \A r \in view[e] : r = [c \in Columns(e) |-> r[c]]

(* The validators accept the row.  The attempts of a job are left out: Add *)
(* goes to them unchecked.                                                 *)
ValidRow(e, r) == \A c \in Columns(e) \ {"attempts"} : r[c] # Null => Valid(e, c, r[c])

Consistent(view) ==
    /\ AreTables(view) /\ Intact(view)
    /\ \A e \in Entity : \A r \in view[e] : ValidRow(e, r)

(* The tables are in order at the beginning; a value of the program is no  *)
(* NULL; a conflict is on a unique column, without which PostgreSQL takes  *)
(* no ON CONFLICT, and is resolved in one of four ways.  The setters of an *)
(* upsert check nothing at all (job_create.go:319): their callers give     *)
(* them valid values.                                                      *)
ASSUME TablesAssumption == Consistent(Tables0)
ASSUME ValuesAssumption ==
    /\ Null \notin Values
    /\ \A e \in Entity : \A input \in Inputs[e] : \A c \in DOMAIN input : input[c] # Null
ASSUME ConflictsAssumption ==
    \A e \in Entity : \A o \in Conflicts[e] :
        /\ o.target \in Table(e).unique
        /\ o.how \in {"nothing", "ignore", "new", "set"}
        /\ o.how = "set" =>
              \A c \in DOMAIN o.changes.set \ {"attempts"} : Valid(e, c, o.changes.set[c])

(* ON CONFLICT (target) DO UPDATE: the row found r, the row proposed, the  *)
(* columns of the statement.                                               *)
Resolved(r, proposed, columns, o) ==
    CASE o.how = "new"    -> [c \in DOMAIN r |-> IF c \in columns THEN proposed[c] ELSE r[c]]
      [] o.how = "set"    -> Changed(r, o.changes)
      [] o.how = "ignore" -> r

(* One row of an INSERT; its id is what RETURNING gives. *)
Insert(acc, e, row, columns, o) ==
    LET clash == {r \in acc.rows : \E c \in Table(e).unique : r[c] = row[c]}
        met   == {r \in clash : o.how # "none" /\ r[o.target] = row[o.target]}
    IN  IF clash = {} THEN [acc EXCEPT !.rows = @ \cup {row}, !.ids = @ \cup {row.id}]
        ELSE IF met = {} THEN [acc EXCEPT !.failed = TRUE]
        ELSE IF o.how = "nothing" THEN acc
        ELSE LET r == CHOOSE r \in met : TRUE
             IN  [rows   |-> (acc.rows \ {r}) \cup {Resolved(r, row, columns, o)},
                  ids    |-> acc.ids \cup {r.id},
                  failed |-> acc.failed \/ r.id \in acc.ids]

(* The rows of an INSERT, one after the other. *)
Inserted(rows, e, full, columns, o) ==
    LET acc[n \in 0..Len(full)] ==
            IF n = 0 THEN [rows |-> rows, ids |-> {}, failed |-> FALSE]
                     ELSE Insert(acc[n - 1], e, CreateRow(e, full[n]), columns, o)
    IN  acc[Len(full)]

(* What Save returns, the tables as its statements leave them, the ids of  *)
(* the nodes it returns.  "refused" is an error the client makes, "failed" *)
(* one of the database.                                                    *)
Result(out, view, ids) == [out |-> out, view |-> view, ids |-> ids]

HasLinks(b) == \E x \in DOMAIN b.link : b.link[x] # {}

(* The keys of messages and problems are required: a child is always       *)
(* connected already, and the statement that links it finds none free.     *)
Create(view, bs, o) ==
    LET e    == bs[1].entity
        bulk == Len(bs) > 1
        full == [k \in DOMAIN bs |-> Defaults(e, bs[k], 10 * (saves + 1) + k, saves + 2)]
        kept == IF bulk THEN KeptByBulk(e, {full[k] : k \in DOMAIN bs})
                        ELSE KeptByNewValues(e, full[1])
        columns == (UNION {DOMAIN full[k].set : k \in DOMAIN bs}) \ kept
        done == Inserted(view[e], e, full, columns, o)
        after == [view EXCEPT ![e] = done.rows]
    IN  IF \E k \in DOMAIN bs : ~CreateCheck(e, full[k]) THEN Result("refused", view, {})
        ELSE IF o.how = "set" /\ ~IsSound(o.changes)      THEN Result("failed", view, {})
        ELSE IF done.failed \/ ~Intact(after)             THEN Result("failed", view, {})
        ELSE IF done.ids = {} /\ ~bulk                    THEN Result("refused", view, {})
        ELSE IF \E k \in DOMAIN bs : HasLinks(bs[k])      THEN Result("refused", after, {})
        ELSE Result("ok", after, IF bulk THEN {full[k].set["id"] : k \in DOMAIN bs} ELSE done.ids)

(* The edges of which a child loses its key, which is required. *)
Orphaned(view, b, rows) ==
    {x \in DOMAIN Steps(b.entity) :
        /\ Steps(b.entity)[x].many
        /\ \E r \in rows : \E s \in Neighbours(view, Steps(b.entity)[x], r) :
              x \in b.unlinked \/ s.id \in Ids(b.unlink, x)}

Update(view, b, p) ==
    LET e     == b.entity
        u     == IF b.op = "UpdateOne" THEN UpdateOneChanges(e, b) ELSE UpdateChanges(e, b)
        rows  == Matched(view, b, p)
        after == [view EXCEPT ![e] = (@ \ rows) \cup {Changed(r, u) : r \in rows}]
    IN  IF ~UpdateCheck(e, b)                      THEN Result("refused", view, {})
        ELSE IF ~IsSound(u) \/ ~Intact(after)      THEN Result("failed", view, {})
        ELSE IF rows = {} /\ b.op = "UpdateOne"    THEN Result("refused", view, {})
        ELSE IF Orphaned(view, b, rows) # {}       THEN Result("failed", view, {})
        ELSE IF HasLinks(b) /\ rows # {}           THEN Result("refused", after, {})
        ELSE Result("ok", after, {r.id : r \in rows})

Delete(view, b, p) ==
    LET rows  == Matched(view, b, p)
        after == [view EXCEPT ![b.entity] = @ \ rows]
    IN  IF ~Intact(after)                          THEN Result("failed", view, {})
        ELSE IF rows = {} /\ b.op = "DeleteOne"    THEN Result("refused", view, {})
        ELSE Result("ok", after, {r.id : r \in rows})

Outcome ==
    LET b == hand.builders[1]
    IN  CASE b.op = "Create"                    -> Create(View, hand.builders, hand.conflict)
          [] b.op \in {"Update", "UpdateOne"}   -> Update(View, b, hand.where)
          [] b.op \in {"Delete", "DeleteOne"}   -> Delete(View, b, hand.where)

-----------------------------------------------------------------------------
(* Transactions. *)

RunInTx ==
    /\ hand = NoHand
    /\ tx.depth < 2
    /\ tx' = IF tx.depth = 0 THEN [depth |-> 1, view |-> db, aborted |-> FALSE]
                             ELSE [tx EXCEPT !.depth = @ + 1]
    /\ last' = Nothing
    /\ UNCHANGED <<db, hand, calls, saves>>

(* f returns an error or panics: the outermost call rolls back.  An inner  *)
(* call only hands the error on, and its caller may go on.                 *)
ReturnErr ==
    /\ hand = NoHand
    /\ tx.depth > 0
    /\ tx' = IF tx.depth = 1 THEN NoTx ELSE [tx EXCEPT !.depth = @ - 1]
    /\ last' = Nothing
    /\ UNCHANGED <<db, hand, calls, saves>>

(* f returns nil: the outermost call commits, which PostgreSQL turns into  *)
(* a rollback when a statement has failed, and which may itself fail.      *)
ReturnNil ==
    /\ hand = NoHand
    /\ tx.depth > 0
    /\ IF tx.depth = 1
       THEN /\ tx' = NoTx
            /\ db' \in IF tx.aborted THEN {db} ELSE {db, tx.view}
       ELSE /\ tx' = [tx EXCEPT !.depth = @ - 1]
            /\ db' = db
    /\ last' = Nothing
    /\ UNCHANGED <<hand, calls, saves>>

-----------------------------------------------------------------------------
(* Builders. *)

Take(h) ==
    /\ hand = NoHand
    /\ saves < MaxSaves
    /\ hand' = h
    /\ last' = Nothing
    /\ UNCHANGED <<db, tx, calls, saves>>

Filled(e, input) == [New(e, "Create", 0) EXCEPT !.set = Within(input, CreateCalls(e).set)]

(* What an upsert may set, clear and add to. *)
MayResolve(o, allowed) ==
    o.how = "set" => /\ DOMAIN o.changes.set \subseteq allowed.set
                     /\ o.changes.null \subseteq allowed.clear
                     /\ DOMAIN o.changes.add \subseteq allowed.add

(* One option of OnConflict; that several may be given to it is left out.  *)
NewCreate(e) ==
    \E input \in Inputs[e], o \in Conflicts[e] \cup {NoConflict} :
        /\ MayResolve(o, UpsertOneCalls(e)) /\ MayResolve(o, UpsertCalls(e))
        /\ Take(Hand(<<Filled(e, input)>>, EveryRow, o))

NewBulk(e) ==
    \E one, two \in Inputs[e], o \in Conflicts[e] \cup {NoConflict} :
        /\ MayResolve(o, BulkUpsertCalls(e))
        /\ Take(Hand(<<Filled(e, one), Filled(e, two)>>, EveryRow, o))

Comparable(e, p) ==
    IF p.cmp = "Has" THEN p.on \in DOMAIN Haves(e) ELSE p.cmp \in Comparisons(e)[p.on]

NewUpdate(e) ==
    \E p \in {p \in Filters[e] : Comparable(e, p)} \cup {EveryRow} :
        Take(Hand(<<New(e, "Update", 0)>>, p, NoConflict))

NewUpdateOne(e) ==
    \E r \in Tables0[e] : Take(Hand(<<New(e, "UpdateOne", r.id)>>, EveryRow, NoConflict))

NewDelete(e) ==
    \E p \in {p \in Filters[e] : Comparable(e, p)} \cup {EveryRow} :
        Take(Hand(<<New(e, "Delete", 0)>>, p, NoConflict))

NewDeleteOne(e) ==
    \E r \in Tables0[e] : Take(Hand(<<New(e, "DeleteOne", r.id)>>, EveryRow, NoConflict))

(* What the builder offers, and the mutation behind it has. *)
Offered(b) ==
    LET own == CASE b.op = "Create"    -> CreateCalls(b.entity)
                 [] b.op = "Update"    -> UpdateCalls(b.entity)
                 [] b.op = "UpdateOne" -> UpdateOneCalls(b.entity)
                 [] OTHER              -> Calls({}, {}, {}, {}, {})
        all == MutationCalls(b.entity)
    IN  [k \in DOMAIN own |-> own[k] \cap all[k]]

Calling(b) ==
    /\ Len(hand.builders) = 1
    /\ calls + saves < MaxCalls
    /\ hand' = [hand EXCEPT !.builders = <<b>>]
    /\ calls' = calls + 1
    /\ UNCHANGED <<db, tx, saves, last>>

CallOnField ==
    \E b \in {hand.builders[k] : k \in DOMAIN hand.builders}, v \in Values :
        \/ \E c \in Offered(b).set   : Calling(SetTo(b, c, v))
        \/ \E c \in Offered(b).add   : Calling(Added(b, c, v))
        \/ \E c \in Offered(b).clear : Calling(Cleared(b, c))

CallOnEdge ==
    \E b \in {hand.builders[k] : k \in DOMAIN hand.builders} :
        \/ \E x \in Offered(b).many : \E s \in View[Steps(b.entity)[x].to] :
              \/ Calling(Linked(b, x, {s.id}))
              \/ b.op # "Create" /\ Calling(Unlinked(b, x, {s.id}))
        \/ \E x \in Offered(b).many \cup Offered(b).one :
              b.op # "Create" /\ Calling(EdgeCleared(b, x))

-----------------------------------------------------------------------------
(* Save.  The statements of one Save are a transaction of their own; in a  *)
(* transaction its commit and its rollback do nothing, and after a failed  *)
(* statement every other fails too.                                        *)

Returned(out, ids) ==
    /\ hand # NoHand
    /\ hand' = NoHand
    /\ calls' = calls
    /\ saves' = saves + 1
    /\ last' = [out |-> out, ids |-> ids]

Saved(r) ==
    /\ Returned(r.out, r.ids)
    /\ IF tx.depth = 0
       THEN db' = (IF r.out = "ok" THEN r.view ELSE db) /\ tx' = tx
       ELSE /\ tx' = [tx EXCEPT !.view = r.view, !.aborted = @ \/ r.out = "failed"]
            /\ db' = db

Save ==
    /\ hand # NoHand
    /\ LET r == Outcome
       IN  Saved(IF tx.aborted THEN Result(IF r.out = "ok" THEN "failed" ELSE r.out, View, {})
                               ELSE r)

(* Outside of a transaction the statements took effect, by themselves or   *)
(* with their commit, but the caller never learns.                         *)
ReplyLost ==
    /\ Returned("failed", {})
    /\ tx.depth = 0 /\ tx' = tx
    /\ Outcome.out = "ok"
    /\ db' = Outcome.view

(* The connection breaks or the context ends, before the statements took   *)
(* effect or after.                                                        *)
SaveFails == Saved(Result("failed", View, {})) \/ ReplyLost

Next ==
    \/ RunInTx \/ ReturnErr \/ ReturnNil
    \/ \E e \in Entity : \/ NewCreate(e) \/ NewBulk(e) \/ NewUpdate(e) \/ NewUpdateOne(e)
                          \/ NewDelete(e) \/ NewDeleteOne(e)
    \/ CallOnField \/ CallOnEdge
    \/ Save \/ SaveFails

Spec == Init /\ [][Next]_vars

-----------------------------------------------------------------------------
(* Each builder holds only what its kind offers and its mutation has. *)
Fits(b) ==
    LET offered == Offered(b)
    IN  /\ b = [entity |-> b.entity, op |-> b.op, id |-> b.id,
                set |-> b.set, clear |-> b.clear, add |-> b.add,
                link |-> b.link, unlink |-> b.unlink, unlinked |-> b.unlinked]
        /\ b.entity \in Entity /\ b.op \in {"Create", "Update", "UpdateOne", "Delete", "DeleteOne"}
        /\ DOMAIN b.set \subseteq offered.set /\ \A c \in DOMAIN b.set : b.set[c] # Null
        /\ b.clear \subseteq offered.clear
        /\ DOMAIN b.add \subseteq offered.add
        /\ DOMAIN b.link \cup DOMAIN b.unlink \subseteq offered.many
        /\ b.unlinked \subseteq offered.many \cup offered.one

(* Changes to a row of e that keep what is immutable and valid. *)
Allowed(e, u) ==
    /\ DOMAIN u.set \cup u.null \subseteq Columns(e) \ Immutable(e)
    /\ DOMAIN u.add \subseteq {"attempts"} \ Immutable(e)
    /\ \A c \in DOMAIN u.set \ {"attempts"} : Valid(e, c, u.set[c])

TypeOK ==
    /\ AreTables(db) /\ AreTables(View)
    /\ tx = [depth |-> tx.depth, view |-> tx.view, aborted |-> tx.aborted]
    /\ tx.depth \in 0..2 /\ tx.aborted \in BOOLEAN
    /\ calls \in 0..MaxCalls /\ saves \in 0..MaxSaves
    /\ last.out \in {"none", "ok", "refused", "failed"}
    /\ hand = Hand(hand.builders, hand.where, hand.conflict)
    /\ hand.builders = [k \in 1..Len(hand.builders) |-> hand.builders[k]]
    /\ hand # NoHand => Len(hand.builders) \in {1, 2} /\ saves < MaxSaves
    /\ hand.conflict.how \in {"none", "nothing", "ignore", "new", "set"}
    /\ \A k \in DOMAIN hand.builders :
          LET b == hand.builders[k] IN
          /\ Fits(b) /\ b.entity = hand.builders[1].entity
          /\ hand.conflict.how # "none" => hand.conflict.target \in Table(b.entity).unique
          /\ hand.conflict.how = "set" => Allowed(b.entity, hand.conflict.changes)
          /\ b.op # "Create" => Len(hand.builders) = 1

(* The constraints of the database, in the committed tables and in the     *)
(* view of the transaction.                                                *)
ConstraintsHold == Intact(db) /\ Intact(View)

(* The four ways along an edge lead to the same rows, and the way back     *)
(* leads back.                                                             *)
EdgesAgree ==
    \A e \in Entity : \A x \in DOMAIN Steps(e) :
        LET loaded == Loaded(View, Loads(e)[x], View[e]) IN
        \A r \in View[e] :
            LET there == Neighbours(View, Steps(e)[x], r) IN
            /\ there = Neighbours(View, ClientSteps(e)[x], r)
            /\ there = loaded[r]
            /\ Holds(View, e, [on |-> x, cmp |-> "Has", value |-> 0], r) <=> there # {}
            /\ \A s \in there : LET back == Steps(e)[x].to IN
                  \E y \in DOMAIN Steps(back) : Steps(back)[y].to = e
                                              /\ r \in Neighbours(View, Steps(back)[y], s)

(* What the schema refuses is in no row: every way to write a field passes *)
(* its validator, those of an upsert and the attempts of a job aside       *)
(* (ConflictsAssumption, ValidRow).                                        *)
RowsAreValid ==
    \A e \in Entity : \A r \in db[e] \cup View[e] : ValidRow(e, r)

(* The inductive invariant: TypeOK; the constraints hold and the rows are  *)
(* valid, committed or not; and the four encodings of an edge that the     *)
(* generator wrote agree on the rows.                                      *)
StoreInv == TypeOK /\ ConstraintsHold /\ RowsAreValid /\ EdgesAgree

(* The update wrote to the rows it matched what its mutation reports as    *)
(* set, cleared and added, and nothing else.                               *)
UpdatedAsReported(before, after, b, p) ==
    LET e    == b.entity
        rows == Matched(before, b, p)
    IN  /\ before[e] \ rows \subseteq after[e]
        /\ IDs(after, e, EveryRow) = IDs(before, e, EveryRow)
        /\ \A r \in rows : \A c \in Columns(e) :
              Get(after, e, r.id).node[c] =
                 CASE c \in Fields(e, b)        -> b.set[c]
                   [] c \in ClearedFields(e, b) -> 0
                   [] c \in AddedFields(e, b)   -> r[c] + b.add[c]
                   [] OTHER                     -> Node(e, r)[c]
        /\ \A r \in rows, x \in ReportedEdges(e, b) : Steps(e)[x].many =>
              LET there == {s.id : s \in Neighbours(after, Steps(e)[x], r)}
              IN  /\ Ids(b.link, x) \subseteq there
                  /\ Ids(b.unlink, x) \cap there \subseteq Ids(b.link, x)
                  /\ x \in b.unlinked => there = Ids(b.link, x)

(* The create added rows with what was given, or, resolving a conflict,    *)
(* changed a row; ids holds the id of the row a single Save left.          *)
CreatedAsGiven(before, after, bs, o, ids) ==
    LET e   == bs[1].entity
        old == IDs(before, e, EveryRow)
    IN  /\ old \subseteq IDs(after, e, EveryRow)
        /\ o.how \in {"none", "nothing", "ignore"} => before[e] \subseteq after[e]
        /\ \A n \in All(after, e, EveryRow) : n.id \notin old =>
              \E k \in DOMAIN bs : \A c \in Fields(e, bs[k]) : n[c] = bs[k].set[c]
        /\ o.how = "none" => Cardinality(after[e] \ before[e]) = Len(bs)
        /\ Len(bs) = 1 =>
              \E id \in ids :
                  LET n == Get(after, e, id).node IN
                  /\ Exist(after, e, IDIs(id))
                  /\ o.how \in {"none", "new"} =>
                        \A c \in Fields(e, bs[1]) \ Immutable(e) : n[c] = bs[1].set[c]
                  /\ o.how # "none" /\ id \in old =>
                        n[o.target] = Get(before, e, id).node[o.target]

(* The Save in hand has done all that its builder says, its mutation's     *)
(* report included.                                                        *)
DoneAsTold(ids) ==
    LET b == hand.builders[1]
        before == View
        after  == View'
    IN  /\ \A e \in Entity \ {b.entity} : after[e] = before[e]
        /\ b.op \in {"Update", "UpdateOne"} => UpdatedAsReported(before, after, b, hand.where)
        /\ b.op = "Create" => CreatedAsGiven(before, after, hand.builders, hand.conflict, ids)
        /\ b.op \in {"Delete", "DeleteOne"} =>
              after[b.entity] = before[b.entity] \ Matched(before, b, hand.where)

SaveIsHonest ==
    IF last'.out = "ok" THEN DoneAsTold(last'.ids)
    ELSE tx.depth = 0 =>
            \/ db' = db
            \/ /\ last'.out = "failed"
               /\ DoneAsTold(IDs(View', hand.builders[1].entity, EveryRow))

(* A Save that returns no error did exactly what its builder says of it.   *)
(* Outside a transaction, one that the client refuses left the tables as   *)
(* they were, and one on which the database or the connection failed did   *)
(* all of it or nothing.  (Inside one it may leave the first of its        *)
(* statements behind: tx.go makes its rollback a nop.)                     *)
SaveDoesWhatItSays == [][saves' # saves => SaveIsHonest]_vars

(* No builder changes an immutable field of a row, an upsert in every of   *)
(* its forms included.                                                     *)
ImmutablesStay ==
    [][saves' # saves =>
         \A e \in Entity : \A r \in View[e], s \in View'[e] :
             r.id = s.id => \A c \in Immutable(e) : r[c] = s[c]]_vars
=============================================================================
