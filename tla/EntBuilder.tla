----------------------------- MODULE EntBuilder -----------------------------
(***************************************************************************)
(* What the generated builders of internal/store share.  A builder holds   *)
(* what its caller asked for until Save: fields set, cleared or added to,  *)
(* and edges linked, unlinked or cleared.  A row of a table and a node of  *)
(* the program are functions from columns to values.  0 is Go's zero       *)
(* value, Null is SQL's NULL.                                              *)
(***************************************************************************)
EXTENDS Integers, FiniteSets

CONSTANT Null

None == [c \in {} |-> 0]

Given(f, c) == c \in DOMAIN f
With(f, c, v) == [x \in DOMAIN f \cup {c} |-> IF x = c THEN v ELSE f[x]]
Without(f, C) == [c \in DOMAIN f \ C |-> f[c]]
Within(f, C) == [c \in DOMAIN f \cap C |-> f[c]]

New(entity, op, id) ==
    [entity |-> entity, op |-> op, id |-> id,
     set |-> None, clear |-> {}, add |-> None,
     link |-> None, unlink |-> None, unlinked |-> {}]

(* Calls on the fields. *)
SetTo(b, c, v)  == [b EXCEPT !.set = With(@, c, v), !.add = Without(@, {c})]
Cleared(b, c)   == [b EXCEPT !.set = Without(@, {c}), !.clear = @ \cup {c}]
Added(b, c, v)  == [b EXCEPT !.add = With(@, c, IF Given(@, c) THEN @[c] + v ELSE v)]

(* Calls on an edge to many; an edge to one is the field of its key. *)
Ids(f, e) == IF Given(f, e) THEN f[e] ELSE {}
Linked(b, e, ids)   == [b EXCEPT !.link = With(@, e, Ids(@, e) \cup ids)]
Unlinked(b, e, ids) == [b EXCEPT !.link = IF Given(@, e) THEN With(@, e, @[e] \ ids) ELSE @,
                                 !.unlink = With(@, e, Ids(@, e) \cup ids)]
EdgeCleared(b, e)   == [b EXCEPT !.unlinked = @ \cup {e}]

(* What may be called: fields to set, clear and add to, edges to link. *)
Calls(set, clear, add, many, one) ==
    [set |-> set, clear |-> clear, add |-> add, many |-> many, one |-> one]

WithDefaults(b, d) ==
    [b EXCEPT !.set = [c \in DOMAIN @ \cup DOMAIN d |-> IF Given(@, c) THEN @[c] ELSE d[c]]]
Requires(b, C) == C \subseteq DOMAIN b.set

(* Changes to a row: columns assigned, set to NULL, increased. *)
Changes(set, null, add) == [set |-> set, null |-> null, add |-> add]

(* One column assigned twice: the database refuses the statement. *)
IsSound(u) == DOMAIN u.set \cap (u.null \cup DOMAIN u.add) = {}

Changed(r, u) ==
    [c \in DOMAIN r |->
        CASE c \in u.null       -> Null
          [] Given(u.set, c)    -> u.set[c]
          [] Given(u.add, c)    -> (IF r[c] = Null THEN 0 ELSE r[c]) + u.add[c]
          [] OTHER              -> r[c]]

(* Edges: the other table, the column of the key, and which side has it. *)
ToOne(entity, column)  == [to |-> entity, column |-> column, many |-> FALSE]
ToMany(entity, column) == [to |-> entity, column |-> column, many |-> TRUE]

(* Predicates on a column: all types are compared for equality, some are   *)
(* ordered.  What matches a part of a text is left out.                    *)
Equality == {"EQ", "NEQ"}
OneOf    == Equality \cup {"In", "NotIn"}
Ordering == OneOf \cup {"GT", "GTE", "LT", "LTE"}
Nil      == {"IsNil", "NotNil"}
=============================================================================
