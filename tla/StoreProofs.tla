---------------------------- MODULE StoreProofs ----------------------------
(***************************************************************************)
(* The row store, for tables, builders and conflicts of any kind: rows are *)
(* valid and the constraints hold in every view of the tables, the four    *)
(* encodings of an edge agree, no Save changes an immutable field, and a   *)
(* Save that returns no error did what its builder says.                   *)
(***************************************************************************)
EXTENDS Store, SequenceTheorems, FiniteSetTheorems, TLAPS

(* What the proofs need of an entity and its builders. *)
LEMMA EntityFacts ==
    ASSUME NEW e \in Entity
    PROVE  /\ Columns(e) \in {Chat!Columns, Problem!Columns, Message!Columns, Job!Columns,
                              FailedJob!Columns}
           /\ "id" \in Table(e).unique /\ Table(e).unique \subseteq Columns(e)
           /\ "id" \in Immutable(e) /\ Immutable(e) \subseteq Columns(e)
BY DEF Entity, Of, Columns, Table, Immutable,
       Chat!Columns, Problem!Columns, Message!Columns, Job!Columns, FailedJob!Columns,
       Chat!Table, Problem!Table, Message!Table, Job!Table, FailedJob!Table,
       Chat!Immutable, Problem!Immutable, Message!Immutable, Job!Immutable, FailedJob!Immutable

LEMMA ResolvingFacts ==
    ASSUME NEW e \in Entity
    PROVE  /\ UpsertOneCalls(e).set \cup UpsertOneCalls(e).clear \subseteq Columns(e) \ Immutable(e)
           /\ UpsertOneCalls(e).add \subseteq {"attempts"} \ Immutable(e)
           /\ BulkUpsertCalls(e).set \cup BulkUpsertCalls(e).clear \subseteq Columns(e) \ Immutable(e)
           /\ BulkUpsertCalls(e).add \subseteq {"attempts"} \ Immutable(e)
BY DEF Entity, Of, Columns, Immutable, UpsertOneCalls, BulkUpsertCalls, Calls,
       Chat!Columns, Problem!Columns, Message!Columns, Job!Columns, FailedJob!Columns,
       Chat!Immutable, Problem!Immutable, Message!Immutable, Job!Immutable, FailedJob!Immutable,
       Chat!UpsertOneCalls, Problem!UpsertOneCalls, Message!UpsertOneCalls, Job!UpsertOneCalls,
       FailedJob!UpsertOneCalls, Message!Settable,
       Chat!BulkUpsertCalls, Problem!BulkUpsertCalls, Message!BulkUpsertCalls, Job!BulkUpsertCalls,
       FailedJob!BulkUpsertCalls,
       Chat!Calls, Problem!Calls, Message!Calls, Job!Calls, FailedJob!Calls

(* What a builder offers its mutation has; an update offers no immutable   *)
(* field, and increases only the attempts of a job.                        *)
LEMMA OfferedFacts ==
    ASSUME NEW b, b.entity \in Entity, b.op \in {"Create", "Update", "UpdateOne", "Delete", "DeleteOne"}
    PROVE  /\ Offered(b) = [set |-> Offered(b).set, clear |-> Offered(b).clear,
                            add |-> Offered(b).add, many |-> Offered(b).many,
                            one |-> Offered(b).one]
           /\ Offered(b).set \subseteq Columns(b.entity)
           /\ b.op # "Create" =>
                 Offered(b).set \cup Offered(b).clear \subseteq Columns(b.entity) \ Immutable(b.entity)
           /\ Offered(b).add \subseteq {"attempts"} \ Immutable(b.entity)
<1> DEFINE own == CASE b.op = "Create"    -> CreateCalls(b.entity)
                    [] b.op = "Update"    -> UpdateCalls(b.entity)
                    [] b.op = "UpdateOne" -> UpdateOneCalls(b.entity)
                    [] OTHER              -> Calls({}, {}, {}, {}, {})
           all == MutationCalls(b.entity)
<1> USE DEF Calls, Entity, Of
<1>1. all = Calls(all.set, all.clear, all.add, all.many, all.one)
  BY DEF MutationCalls, Chat!MutationCalls, Problem!MutationCalls, Message!MutationCalls,
         Job!MutationCalls, FailedJob!MutationCalls,
         Chat!Calls, Problem!Calls, Message!Calls, Job!Calls, FailedJob!Calls
<1>2. CreateCalls(b.entity) = Calls(Columns(b.entity), {}, {}, CreateCalls(b.entity).many, {})
  BY DEF CreateCalls, Columns, Chat!CreateCalls, Problem!CreateCalls, Message!CreateCalls,
         Job!CreateCalls, FailedJob!CreateCalls, 
         Chat!Calls, Problem!Calls, Message!Calls, Job!Calls, FailedJob!Calls
<1>3. /\ UpdateCalls(b.entity) = [set |-> UpdateCalls(b.entity).set, clear |-> UpdateCalls(b.entity).clear,
                                  add |-> UpdateCalls(b.entity).add, many |-> UpdateCalls(b.entity).many,
                                  one |-> UpdateCalls(b.entity).one]
      /\ UpdateCalls(b.entity).set \cup UpdateCalls(b.entity).clear
            \subseteq Columns(b.entity) \ Immutable(b.entity)
      /\ UpdateCalls(b.entity).add \subseteq {"attempts"} \ Immutable(b.entity)
      /\ UpdateOneCalls(b.entity) = UpdateCalls(b.entity)
  BY DEF UpdateCalls, UpdateOneCalls, Columns, Immutable,
         Chat!UpdateCalls, Problem!UpdateCalls, Message!UpdateCalls, Job!UpdateCalls,
         FailedJob!UpdateCalls, Message!Settable,
         Chat!UpdateOneCalls, Problem!UpdateOneCalls, Message!UpdateOneCalls, Job!UpdateOneCalls,
         FailedJob!UpdateOneCalls,
         Chat!Columns, Problem!Columns, Message!Columns, Job!Columns, FailedJob!Columns,
         Chat!Immutable, Problem!Immutable, Message!Immutable, Job!Immutable, FailedJob!Immutable,
         Chat!Calls, Problem!Calls, Message!Calls, Job!Calls, FailedJob!Calls
<1> HIDE DEF Entity, Of, Calls, all
<1>4. DOMAIN own = {"set", "clear", "add", "many", "one"}
  BY <1>2, <1>3 DEF Calls
<1>5. Offered(b) = [x \in DOMAIN own |-> own[x] \cap all[x]]
  BY DEF Offered, all
<1>6. /\ own.set \subseteq Columns(b.entity) /\ own.add \subseteq {"attempts"} \ Immutable(b.entity)
      /\ b.op # "Create" => own.set \cup own.clear \subseteq Columns(b.entity) \ Immutable(b.entity)
  BY <1>2, <1>3 DEF Calls
<1> HIDE DEF own
<1> QED
  BY <1>4, <1>5, <1>6

(* What UpdateCheck lets pass. *)
LEMMA UpdateFacts ==
    ASSUME NEW b, Fits(b), b.op \in {"Update", "UpdateOne"}, UpdateCheck(b.entity, b)
    PROVE  Allowed(b.entity, IF b.op = "UpdateOne" THEN UpdateOneChanges(b.entity, b)
                                                   ELSE UpdateChanges(b.entity, b))
<1> DEFINE e == b.entity
<1>1. e \in Entity
  BY DEF Fits
<1>2. /\ UpdateOneChanges(e, b) = UpdateChanges(e, b)
      /\ b.clear \cap Immutable(e) = {}
  <2>1. b.clear \subseteq Offered(b).clear
    BY DEF Fits
  <2>2. Offered(b).clear \subseteq Columns(e) \ Immutable(e)
    BY <1>1, OfferedFacts
  <2>3. UpdateOneChanges(e, b) = UpdateChanges(e, b)
    BY <1>1 DEF Entity, Of, UpdateOneChanges, UpdateChanges,
         Chat!UpdateChanges, Problem!UpdateChanges, Message!UpdateChanges, Job!UpdateChanges,
         FailedJob!UpdateChanges,
         Chat!UpdateOneChanges, Problem!UpdateOneChanges, Message!UpdateOneChanges,
         Job!UpdateOneChanges, FailedJob!UpdateOneChanges
  <2> QED
    BY <2>1, <2>2, <2>3
<1> SUFFICES Allowed(e, UpdateChanges(e, b))
  BY <1>2
<1> USE DEF Of, Allowed, UpdateCheck, UpdateChanges, Columns, Immutable, Valid
<1>3. CASE e = "chat" \/ e = "failed_job"
  BY <1>3 DEF Chat!UpdateChanges, FailedJob!UpdateChanges, Chat!Changes, FailedJob!Changes,
         Chat!None, FailedJob!None
<1>4. CASE e = "problem"
  BY <1>4, <1>2 DEF Problem!UpdateChanges, Problem!UpdateCheck, Problem!AllValid, Problem!Valid,
         Problem!Changes, Problem!Within, Problem!None, Problem!Columns, Problem!Immutable
<1>5. CASE e = "message"
  BY <1>5, <1>2 DEF Message!UpdateChanges, Message!UpdateCheck, Message!AllValid, Message!Valid,
         Message!Changes, Message!Within, Message!None, Message!Columns, Message!Immutable,
         Message!Settable, Message!Keys
<1>6. CASE e = "job"
  BY <1>6, <1>2 DEF Job!UpdateChanges, Job!UpdateCheck, Job!AllValid, Job!Valid,
         Job!Changes, Job!Within, Job!None, Job!Columns, Job!Immutable
<1> QED
  BY <1>1, <1>3, <1>4, <1>5, <1>6 DEF Entity

(* What CreateCheck lets pass is a valid row. *)
LEMMA CreateFacts ==
    ASSUME NEW e \in Entity, NEW b, CreateCheck(e, b)
    PROVE  /\ CreateRow(e, b) = [c \in Columns(e) |-> IF c \in DOMAIN b.set THEN b.set[c] ELSE Null]
           /\ ValidRow(e, CreateRow(e, b))
<1>1. CreateRow(e, b) = [c \in Columns(e) |-> IF c \in DOMAIN b.set THEN b.set[c] ELSE Null]
  BY DEF Entity, Of, CreateRow, Columns,
     Chat!CreateRow, Problem!CreateRow, Message!CreateRow, Job!CreateRow, FailedJob!CreateRow,
     Chat!Given, Problem!Given, Message!Given, Job!Given, FailedJob!Given
<1> SUFFICES ASSUME NEW c \in Columns(e) \ {"attempts"}, c \in DOMAIN b.set
             PROVE  Valid(e, c, b.set[c])
  BY <1>1 DEF ValidRow
<1> USE DEF Of, CreateCheck, Columns, Valid
<1>2. CASE e = "chat"
  BY <1>2 DEF Chat!CreateCheck, Chat!AllValid, Chat!Valid, Chat!Columns
<1>3. CASE e = "problem"
  BY <1>3 DEF Problem!CreateCheck, Problem!AllValid, Problem!Valid, Problem!Columns
<1>4. CASE e = "message"
  BY <1>4 DEF Message!CreateCheck, Message!AllValid, Message!Valid, Message!Columns, Message!Keys
<1>5. CASE e = "job"
  BY <1>5 DEF Job!CreateCheck, Job!AllValid, Job!Valid, Job!Columns
<1>6. CASE e = "failed_job"
  BY <1>6 DEF FailedJob!CreateCheck, FailedJob!AllValid, FailedJob!Valid, FailedJob!Columns
<1> QED
  BY <1>2, <1>3, <1>4, <1>5, <1>6 DEF Entity

(* UpdateNewValues leaves the immutable fields as they are. *)
LEMMA KeptFacts ==
    ASSUME NEW e \in Entity
    PROVE  /\ \A b : KeptByNewValues(e, b) = DOMAIN b.set \cap Immutable(e)
           /\ \A bs : KeptByBulk(e, bs) = {c \in Immutable(e) : \E b \in bs : c \in DOMAIN b.set}
<1>1. ASSUME NEW b PROVE KeptByNewValues(e, b) = DOMAIN b.set \cap Immutable(e)
  BY DEF Entity, Of, KeptByNewValues, Immutable,
     Chat!KeptByNewValues, Problem!KeptByNewValues, Message!KeptByNewValues, Job!KeptByNewValues,
     FailedJob!KeptByNewValues, Chat!Columns, FailedJob!Columns,
     Chat!Immutable, Problem!Immutable, Message!Immutable, Job!Immutable, FailedJob!Immutable
<1>2. ASSUME NEW bs
      PROVE  KeptByBulk(e, bs) = {c \in Immutable(e) : \E b \in bs : c \in DOMAIN b.set}
  BY DEF Entity, Of, KeptByBulk, Immutable,
     Chat!KeptByBulk, Problem!KeptByBulk, Message!KeptByBulk, Job!KeptByBulk, FailedJob!KeptByBulk,
     Chat!Given, Problem!Given, Message!Given, Job!Given, FailedJob!Given,
     Chat!Columns, FailedJob!Columns,
     Chat!Immutable, Problem!Immutable, Message!Immutable, Job!Immutable, FailedJob!Immutable
<1> QED
  BY <1>1, <1>2

-----------------------------------------------------------------------------
(* Rows and what a statement makes of them. *)
Row(e, r) == r = [c \in Columns(e) |-> r[c]] /\ ValidRow(e, r)

SameImmutables(e, r, s) == \A c \in Immutable(e) : r[c] = s[c]

(* No row has gone, and those that were there have kept what is immutable. *)
Follows(e, before, rows) ==
    /\ \A s \in rows : Row(e, s)
    /\ \A r \in before, s \in rows : r.id = s.id => SameImmutables(e, r, s)
    /\ \A r \in before : \E s \in rows : s.id = r.id

LEMMA ChangedRow ==
    ASSUME NEW e \in Entity, NEW r, Row(e, r), NEW u, Allowed(e, u)
    PROVE  Row(e, Changed(r, u)) /\ SameImmutables(e, r, Changed(r, u))
<1> DEFINE s == Changed(r, u)
<1>1. /\ DOMAIN r = Columns(e) /\ DOMAIN s = Columns(e) /\ s = [c \in Columns(e) |-> s[c]]
      /\ \A c \in Columns(e) :
            \/ c \in u.null /\ s[c] = Null
            \/ c \in DOMAIN u.set /\ s[c] = u.set[c]
            \/ c \in DOMAIN u.add
            \/ s[c] = r[c]
  BY DEF Changed, Row, Given
<1>2. \A c \in Immutable(e) : c \in Columns(e) /\ s[c] = r[c]
  <2>1. Immutable(e) \subseteq Columns(e)
    BY EntityFacts
  <2> HIDE DEF s
  <2> QED
    BY <1>1, <2>1 DEF Allowed
<1>3. \A c \in Columns(e) \ {"attempts"} : s[c] # Null => Valid(e, c, s[c])
  <2> HIDE DEF s
  <2> QED
    BY <1>1 DEF Allowed, Row, ValidRow
<1> QED
  BY <1>1, <1>2, <1>3 DEF Row, ValidRow, SameImmutables

Updating == {"new", "set", "ignore"}

LEMMA ResolvedRow ==
    ASSUME NEW e \in Entity, NEW r, Row(e, r), NEW row, Row(e, row),
           NEW columns, columns \cap Immutable(e) = {},
           NEW o, o.how \in Updating, o.how = "set" => Allowed(e, o.changes)
    PROVE  Row(e, Resolved(r, row, columns, o)) /\ SameImmutables(e, r, Resolved(r, row, columns, o))
<1>1. CASE o.how = "new"
  <2> DEFINE s == [c \in Columns(e) |-> IF c \in columns THEN row[c] ELSE r[c]]
  <2>1. Resolved(r, row, columns, o) = s
    BY <1>1 DEF Resolved, Row
  <2>2. Row(e, s)
    BY DEF Row, ValidRow
  <2>3. SameImmutables(e, r, s)
    BY EntityFacts DEF SameImmutables
  <2> QED
    BY <2>1, <2>2, <2>3
<1>2. CASE o.how = "set"
  BY <1>2, ChangedRow DEF Resolved
<1>3. CASE o.how = "ignore"
  BY <1>3 DEF Resolved, SameImmutables
<1> QED
  BY <1>1, <1>2, <1>3 DEF Updating

(* The four ways of Insert, from acc to n. *)
Inserts(acc, n, e, row, columns, o) ==
    /\ n = [rows |-> n.rows, ids |-> n.ids, failed |-> n.failed]
    /\ \/ /\ \A r \in acc.rows, c \in Table(e).unique : r[c] # row[c]
          /\ n.rows = acc.rows \cup {row} /\ n.ids = acc.ids \cup {row.id}
          /\ n.failed = acc.failed
       \/ n.rows = acc.rows /\ n.ids = acc.ids /\ n.failed = TRUE
       \/ o.how = "nothing" /\ n.rows = acc.rows /\ n.ids = acc.ids /\ n.failed = acc.failed
       \/ \E r \in acc.rows :
             /\ o.how \in Updating /\ r[o.target] = row[o.target]
             /\ n.rows = (acc.rows \ {r}) \cup {Resolved(r, row, columns, o)}
             /\ n.ids = acc.ids \cup {r.id}
             /\ n.failed = (acc.failed \/ r.id \in acc.ids)

LEMMA InsertCases ==
    ASSUME NEW acc, acc = [rows |-> acc.rows, ids |-> acc.ids, failed |-> acc.failed],
           NEW e, NEW row, NEW columns, NEW o,
           o.how \in Updating \cup {"none", "nothing"},
           NEW n, n = Insert(acc, e, row, columns, o)
    PROVE  Inserts(acc, n, e, row, columns, o)
<1> DEFINE clash == {r \in acc.rows : \E c \in Table(e).unique : r[c] = row[c]}
           met   == {r \in clash : o.how # "none" /\ r[o.target] = row[o.target]}
           r0    == CHOOSE r \in met : TRUE
<1> USE DEF Inserts
<1>1. CASE clash = {}
  <2>1. n = [acc EXCEPT !.rows = @ \cup {row}, !.ids = @ \cup {row.id}]
    BY <1>1 DEF Insert
  <2>2. n = [rows |-> acc.rows \cup {row}, ids |-> acc.ids \cup {row.id}, failed |-> acc.failed]
    BY <2>1
  <2> QED
    BY <1>1, <2>2
<1>2. CASE clash # {} /\ met = {}
  <2>1. n = [acc EXCEPT !.failed = TRUE]
    BY <1>2 DEF Insert
  <2>2. n = [rows |-> acc.rows, ids |-> acc.ids, failed |-> TRUE]
    BY <2>1
  <2> QED
    BY <2>2
<1>3. CASE clash # {} /\ met # {} /\ o.how = "nothing"
  <2>1. n = acc
    BY <1>3 DEF Insert
  <2> QED
    BY <1>3, <2>1
<1>4. CASE clash # {} /\ met # {} /\ o.how # "nothing"
  <2>1. n = [rows |-> (acc.rows \ {r0}) \cup {Resolved(r0, row, columns, o)},
             ids  |-> acc.ids \cup {r0.id}, failed |-> acc.failed \/ r0.id \in acc.ids]
    BY <1>4 DEF Insert
  <2>2. r0 \in met
    BY <1>4
  <2>3. r0 \in acc.rows /\ o.how \in Updating /\ r0[o.target] = row[o.target]
    BY <1>4, <2>2
  <2> HIDE DEF r0
  <2>4. /\ n.rows = (acc.rows \ {r0}) \cup {Resolved(r0, row, columns, o)}
        /\ n.ids = acc.ids \cup {r0.id} /\ n.failed = (acc.failed \/ r0.id \in acc.ids)
        /\ n = [rows |-> n.rows, ids |-> n.ids, failed |-> n.failed]
    BY <2>1
  <2> QED
    BY <2>3, <2>4
<1> HIDE DEF Inserts
<1> QED
  BY <1>1, <1>2, <1>3, <1>4

Empty(rows) == [rows |-> rows, ids |-> {}, failed |-> FALSE]

(* One row, or two of a bulk one after the other. *)
Chain(rows, e, full, columns, o, one, two) ==
    /\ one = Insert(Empty(rows), e, CreateRow(e, full[1]), columns, o)
    /\ two = Insert(one, e, CreateRow(e, full[2]), columns, o)

LEMMA InsertedSteps ==
    ASSUME NEW rows, NEW e, NEW full, NEW columns, NEW o, Len(full) \in {1, 2},
           NEW one, NEW two, Chain(rows, e, full, columns, o, one, two)
    PROVE  Inserted(rows, e, full, columns, o) = IF Len(full) = 1 THEN one ELSE two
<1> DEFINE step(x, n) == Insert(x, e, CreateRow(e, full[n]), columns, o)
           N   == 0..Len(full)
           IsAcc(f) == f = [n \in N |-> IF n = 0 THEN Empty(rows) ELSE step(f[n - 1], n)]
           g == [n \in N |-> IF n = 0 THEN Empty(rows) ELSE IF n = 1 THEN one ELSE two]
           h == CHOOSE f : IsAcc(f)
<1>1. IsAcc(g)
  <2>1. ASSUME NEW n \in N PROVE g[n] = IF n = 0 THEN Empty(rows) ELSE step(g[n - 1], n)
    <3>1. CASE n = 0
      BY <3>1
    <3>2. CASE n = 1
      <4>1. n - 1 \in N /\ n - 1 = 0
        BY <3>2
      <4>2. g[n - 1] = Empty(rows)
        BY <4>1
      <4>3. step(g[n - 1], n) = one
        BY <3>2, <4>2 DEF Chain
      <4> QED
        BY <3>2, <4>3
    <3>3. CASE n = 2
      <4>1. n - 1 \in N /\ n - 1 = 1
        BY <3>3
      <4>2. g[n - 1] = one
        BY <4>1
      <4>3. step(g[n - 1], n) = two
        BY <3>3, <4>2 DEF Chain
      <4> QED
        BY <3>3, <4>3
    <3> QED
      BY <3>1, <3>2, <3>3
  <2>2. g = [n \in N |-> g[n]]
    OBVIOUS
  <2> HIDE DEF g, step, N
  <2> QED
    BY <2>1, <2>2
<1>2. IsAcc(h)
  <2> HIDE DEF IsAcc, g
  <2> QED
    BY <1>1
<1>3. Inserted(rows, e, full, columns, o) = h[Len(full)]
  BY DEF Inserted, Empty
<1> HIDE DEF h, step
<1>4. h[0] = Empty(rows) /\ h[1] = step(h[0], 1) /\ (Len(full) = 2 => h[2] = step(h[1], 2))
  <2>1. 0 \in N /\ 1 \in N /\ (Len(full) = 2 => 2 \in N) /\ 1 - 1 = 0 /\ 2 - 1 = 1
    OBVIOUS
  <2>2. \A n \in N : h[n] = IF n = 0 THEN Empty(rows) ELSE step(h[n - 1], n)
    BY <1>2
  <2> HIDE DEF N
  <2> QED
    BY <2>1, <2>2
<1> QED
  BY <1>3, <1>4 DEF step, Chain

LEMMA InsertFollows ==
    ASSUME NEW e \in Entity, NEW before,
           NEW acc, acc = [rows |-> acc.rows, ids |-> acc.ids, failed |-> acc.failed],
           Follows(e, before, acc.rows),
           NEW row, Row(e, row), NEW columns, columns \cap Immutable(e) = {},
           NEW o, o.how \in Updating \cup {"none", "nothing"},
           o.how = "set" => Allowed(e, o.changes),
           NEW n, Inserts(acc, n, e, row, columns, o)
    PROVE  Follows(e, before, n.rows)
<1>1. CASE /\ \A r \in acc.rows, c \in Table(e).unique : r[c] # row[c]
           /\ n.rows = acc.rows \cup {row}
  <2>1. \A r \in acc.rows : r.id # row.id
    BY <1>1, EntityFacts
  <2>2. \A r \in before : r.id # row.id
    BY <2>1 DEF Follows
  <2> QED
    BY <1>1, <2>2 DEF Follows
<1>2. CASE n.rows = acc.rows
  BY <1>2
<1>3. CASE \E r \in acc.rows : /\ o.how \in Updating
                               /\ n.rows = (acc.rows \ {r}) \cup {Resolved(r, row, columns, o)}
  <2>1. PICK r \in acc.rows : /\ o.how \in Updating
                              /\ n.rows = (acc.rows \ {r}) \cup {Resolved(r, row, columns, o)}
    BY <1>3
  <2>2. PICK s : s = Resolved(r, row, columns, o)
    OBVIOUS
  <2>3. Row(e, r)
    BY DEF Follows
  <2>4. Row(e, s) /\ SameImmutables(e, r, s)
    BY <2>1, <2>2, <2>3, ResolvedRow
  <2>5. s.id = r.id
    BY <2>4, EntityFacts DEF SameImmutables
  <2>6. n.rows = (acc.rows \ {r}) \cup {s}
    BY <2>1, <2>2
  <2>7. \A t \in n.rows : Row(e, t)
    BY <2>4, <2>6 DEF Follows
  <2>8. ASSUME NEW b \in before, NEW t \in n.rows, b.id = t.id PROVE SameImmutables(e, b, t)
    <3>1. CASE t = s
      <4>1. SameImmutables(e, b, r)
        BY <2>5, <2>8, <3>1 DEF Follows
      <4> QED
        BY <2>4, <3>1, <4>1 DEF SameImmutables
    <3>2. CASE t # s
      BY <2>6, <2>8, <3>2 DEF Follows
    <3> QED
      BY <3>1, <3>2
  <2>9. ASSUME NEW b \in before PROVE \E t \in n.rows : t.id = b.id
    <3>1. PICK t \in acc.rows : t.id = b.id
      BY DEF Follows
    <3>2. CASE t = r
      BY <2>5, <2>6, <3>1, <3>2
    <3>3. CASE t # r
      BY <2>6, <3>1, <3>3
    <3> QED
      BY <3>2, <3>3
  <2> QED
    BY <2>7, <2>8, <2>9 DEF Follows
<1> QED
  BY <1>1, <1>2, <1>3 DEF Inserts

-----------------------------------------------------------------------------
(* What Save makes of consistent tables. *)
LEMMA IdIsUnique ==
    ASSUME NEW view, Intact(view), NEW e \in Entity, NEW r \in view[e], NEW s \in view[e], r.id = s.id
    PROVE  r = s
BY EntityFacts DEF Intact

Puts(view, e, rows, after) == after = [view EXCEPT ![e] = rows]

LEMMA ViewWith ==
    ASSUME NEW view, Consistent(view), NEW e \in Entity, NEW rows, \A r \in rows : Row(e, r),
           NEW after, Puts(view, e, rows, after)
    PROVE  /\ \A d \in Entity : after[d] = IF d = e THEN rows ELSE view[d]
           /\ Intact(after) => Consistent(after)
<1>1. DOMAIN view = Entity /\ \A d \in Entity : \A r \in view[d] : Row(d, r)
  BY DEF Consistent, AreTables, Row
<1>2. after = [d \in Entity |-> after[d]] /\ \A d \in Entity : after[d] = IF d = e THEN rows ELSE view[d]
  BY <1>1 DEF Puts
<1>3. \A d \in Entity : \A r \in after[d] : Row(d, r)
  BY <1>1, <1>2
<1>4. AreTables(after) /\ \A d \in Entity : \A r \in after[d] : ValidRow(d, r)
  BY <1>2, <1>3 DEF AreTables, Row
<1> QED
  BY <1>2, <1>4 DEF Consistent

ImmutablesKept(before, after) ==
    \A e \in Entity : \A r \in before[e], s \in after[e] : r.id = s.id => SameImmutables(e, r, s)

LEMMA NothingChanged ==
    ASSUME NEW view, Intact(view)
    PROVE  ImmutablesKept(view, view)
BY IdIsUnique DEF ImmutablesKept, SameImmutables

LEMMA RowsChanged ==
    ASSUME NEW view, Consistent(view), NEW e \in Entity, NEW rows, \A r \in rows : Row(e, r),
           \A r \in view[e], s \in rows : r.id = s.id => SameImmutables(e, r, s),
           NEW after, Puts(view, e, rows, after)
    PROVE  ImmutablesKept(view, after)
<1>1. ImmutablesKept(view, view)
  BY NothingChanged DEF Consistent
<1>2. \A d \in Entity : after[d] = IF d = e THEN rows ELSE view[d]
  <2>1. DOMAIN view = Entity
    BY DEF Consistent, AreTables
  <2> QED
    BY <2>1 DEF Puts
<1> SUFFICES ASSUME NEW d \in Entity, NEW r \in view[d], NEW s \in after[d], r.id = s.id
             PROVE  SameImmutables(d, r, s)
  BY DEF ImmutablesKept
<1>3. CASE d = e
  BY <1>2, <1>3
<1>4. CASE d # e
  <2>1. s \in view[d]
    BY <1>2, <1>4
  <2> QED
    BY <1>1, <2>1 DEF ImmutablesKept
<1> QED
  BY <1>3, <1>4

(* The parts of Create. *)
Filling(bs) == [k \in DOMAIN bs |-> Defaults(bs[1].entity, bs[k], 10 * (saves + 1) + k, saves + 2)]

Kept(bs) ==
    IF Len(bs) > 1 THEN KeptByBulk(bs[1].entity, {Filling(bs)[k] : k \in DOMAIN bs})
                   ELSE KeptByNewValues(bs[1].entity, Filling(bs)[1])

Assigned(bs) == (UNION {DOMAIN Filling(bs)[k].set : k \in DOMAIN bs}) \ Kept(bs)

Done(view, bs, o) == Inserted(view[bs[1].entity], bs[1].entity, Filling(bs), Assigned(bs), o)

AfterCreate(view, bs, o) == [view EXCEPT ![bs[1].entity] = Done(view, bs, o).rows]

CreatedIds(view, bs, o) ==
    IF Len(bs) > 1 THEN {Filling(bs)[k].set["id"] : k \in DOMAIN bs} ELSE Done(view, bs, o).ids

Checked(bs) == \A k \in DOMAIN bs : CreateCheck(bs[1].entity, Filling(bs)[k])

LEMMA CreateCases ==
    ASSUME NEW view, NEW bs, NEW o, NEW r, r = Create(view, bs, o)
    PROVE  \/ r.out \in {"refused", "failed"} /\ r.view = view /\ r.ids = {}
           \/ /\ Checked(bs)
              /\ ~Done(view, bs, o).failed /\ Intact(AfterCreate(view, bs, o))
              /\ r.view = AfterCreate(view, bs, o)
              /\ \/ r.out = "refused" /\ r.ids = {}
                 \/ r.out = "ok" /\ r.ids = CreatedIds(view, bs, o)
<1> DEFINE refused == ~Checked(bs)
           twice   == o.how = "set" /\ ~IsSound(o.changes)
           done    == Done(view, bs, o)
           after   == AfterCreate(view, bs, o)
           linked  == \E k \in DOMAIN bs : HasLinks(bs[k])
           ids     == CreatedIds(view, bs, o)
<1>1. r = IF \E k \in DOMAIN bs : ~CreateCheck(bs[1].entity, Filling(bs)[k])
                                                     THEN Result("refused", view, {})
          ELSE IF twice                              THEN Result("failed", view, {})
          ELSE IF done.failed \/ ~Intact(after)      THEN Result("failed", view, {})
          ELSE IF done.ids = {} /\ ~(Len(bs) > 1)    THEN Result("refused", view, {})
          ELSE IF linked                             THEN Result("refused", after, {})
          ELSE Result("ok", after, IF Len(bs) > 1 THEN {Filling(bs)[k].set["id"] : k \in DOMAIN bs}
                                                  ELSE done.ids)
  BY DEF Create, Filling, Kept, Assigned, Done, AfterCreate
<1>2. /\ refused <=> \E k \in DOMAIN bs : ~CreateCheck(bs[1].entity, Filling(bs)[k])
      /\ ids = IF Len(bs) > 1 THEN {Filling(bs)[k].set["id"] : k \in DOMAIN bs} ELSE done.ids
  BY DEF Checked, CreatedIds
<1> HIDE DEF refused, twice, done, after, linked, ids
<1>3. \/ r \in {Result("refused", view, {}), Result("failed", view, {})}
      \/ /\ ~refused /\ ~done.failed /\ Intact(after)
         /\ r \in {Result("refused", after, {}), Result("ok", after, ids)}
  BY <1>1, <1>2
<1>4. \A out, v, i : /\ Result(out, v, i).out = out /\ Result(out, v, i).view = v
                     /\ Result(out, v, i).ids = i
  BY DEF Result
<1>5. CASE r \in {Result("refused", view, {}), Result("failed", view, {})}
  BY <1>4, <1>5
<1>6. CASE /\ ~refused /\ ~done.failed /\ Intact(after)
           /\ r \in {Result("refused", after, {}), Result("ok", after, ids)}
  <2>1. /\ r.view = after
        /\ (r.out = "refused" /\ r.ids = {}) \/ (r.out = "ok" /\ r.ids = ids)
    BY <1>4, <1>6
  <2> QED
    BY <1>6, <2>1 DEF refused, done, after, ids
<1> QED
  BY <1>3, <1>5, <1>6

(* A create in hand: one builder or two of a bulk. *)
Creates(bs, o) ==
    /\ DOMAIN bs = 1..Len(bs) /\ Len(bs) \in {1, 2} /\ bs[1].entity \in Entity
    /\ o.how \in Updating \cup {"none", "nothing"}
    /\ o.how = "set" => Allowed(bs[1].entity, o.changes)

LEMMA FillingFacts ==
    ASSUME NEW bs, NEW o, Creates(bs, o)
    PROVE  /\ DOMAIN Filling(bs) = 1..Len(bs) /\ Len(Filling(bs)) = Len(bs)
           /\ Assigned(bs) \cap Immutable(bs[1].entity) = {}
<1> DEFINE f == Filling(bs)
           e == bs[1].entity
           S == {f[k] : k \in 1..Len(bs)}
<1>1. f \in [1..Len(bs) -> S] /\ DOMAIN f = 1..Len(bs)
  BY DEF Creates, Filling
<1> HIDE DEF f
<1>2. f \in Seq(S)
  BY <1>1, SeqDef DEF Creates
<1>3. DOMAIN f = 1..Len(f) /\ Len(f) \in Nat
  BY <1>2, LenProperties
<1>4. Len(f) = Len(bs)
  BY <1>1, <1>3 DEF Creates
<1>5. ASSUME NEW c \in Assigned(bs) PROVE c \notin Immutable(e)
  <2>1. c \notin Kept(bs)
    BY <1>5 DEF Assigned
  <2>2. PICK k \in 1..Len(bs) : c \in DOMAIN f[k].set
    <3>1. c \in UNION {DOMAIN f[k].set : k \in DOMAIN bs}
      BY <1>5 DEF Assigned, f
    <3> QED
      BY <3>1 DEF Creates
  <2>3. CASE Len(bs) > 1
    <3>1. PICK fs : fs = {f[x] : x \in DOMAIN bs}
      OBVIOUS
    <3>2. f[k] \in fs
      BY <3>1 DEF Creates
    <3>3. c \notin KeptByBulk(e, fs)
      BY <2>1, <2>3, <3>1 DEF Kept, f
    <3>4. KeptByBulk(e, fs) = {x \in Immutable(e) : \E b \in fs : x \in DOMAIN b.set}
      BY KeptFacts DEF Creates
    <3> QED
      BY <2>2, <3>2, <3>3, <3>4
  <2>4. CASE ~(Len(bs) > 1)
    <3>1. c \notin KeptByNewValues(e, f[1])
      BY <2>1, <2>4 DEF Kept, f
    <3>2. k = 1
      BY <2>4 DEF Creates
    <3> QED
      BY <2>2, <3>1, <3>2, KeptFacts DEF Creates
  <2> QED
    BY <2>3, <2>4
<1> QED
  BY <1>1, <1>4, <1>5 DEF f

(* Both rows of a bulk, or one, as Save inserts them. *)
Chained(view, bs, o, e, empty, one, two) ==
    /\ empty = Empty(view[e])
    /\ Row(e, CreateRow(e, Filling(bs)[1]))
    /\ Inserts(empty, one, e, CreateRow(e, Filling(bs)[1]), Assigned(bs), o)
    /\ Follows(e, view[e], empty.rows) /\ Follows(e, view[e], one.rows)
    /\ Len(bs) = 2 => /\ Row(e, CreateRow(e, Filling(bs)[2]))
                      /\ Inserts(one, two, e, CreateRow(e, Filling(bs)[2]), Assigned(bs), o)
                      /\ Follows(e, view[e], two.rows)
    /\ Done(view, bs, o) = IF Len(bs) = 1 THEN one ELSE two

LEMMA CreateChain ==
    ASSUME NEW view, Consistent(view), NEW bs, NEW o, Creates(bs, o), Checked(bs)
    PROVE  \E empty, one, two : Chained(view, bs, o, bs[1].entity, empty, one, two)
<1> DEFINE e == bs[1].entity
<1>1. e \in Entity /\ ImmutablesKept(view, view)
  BY NothingChanged DEF Creates, Consistent
<1> DEFINE row(k) == CreateRow(e, Filling(bs)[k])
<1>2. PICK empty, one, two :
         /\ empty = Empty(view[e])
         /\ one = Insert(empty, e, row(1), Assigned(bs), o)
         /\ two = Insert(one, e, row(2), Assigned(bs), o)
  OBVIOUS
<1>3. Row(e, row(1)) /\ (Len(bs) = 2 => Row(e, row(2)))
  BY <1>1, CreateFacts DEF Row, Creates, Checked
<1>4. /\ Assigned(bs) \cap Immutable(e) = {} /\ o.how \in Updating \cup {"none", "nothing"}
      /\ o.how = "set" => Allowed(e, o.changes)
  BY FillingFacts DEF Creates
<1>5. Done(view, bs, o) = IF Len(bs) = 1 THEN one ELSE two
  <2>1. Len(Filling(bs)) = Len(bs) /\ Len(bs) \in {1, 2}
    BY FillingFacts DEF Creates
  <2>2. PICK rows0, full, columns :
           rows0 = view[e] /\ full = Filling(bs) /\ columns = Assigned(bs)
    OBVIOUS
  <2>3. Done(view, bs, o) = Inserted(rows0, e, full, columns, o)
    BY <2>2 DEF Done
  <2>4. Chain(rows0, e, full, columns, o, one, two)
    BY <1>2, <2>2 DEF Chain
  <2>5. Inserted(rows0, e, full, columns, o) = IF Len(full) = 1 THEN one ELSE two
    <3>1. Len(full) \in {1, 2}
      BY <2>1, <2>2
    <3> HIDE DEF e
    <3> QED
      BY <2>4, <3>1, InsertedSteps
  <2> QED
    BY <2>1, <2>2, <2>3, <2>5
<1>6. Follows(e, view[e], empty.rows)
  <2>1. \A r \in view[e] : Row(e, r)
    BY <1>1 DEF Consistent, AreTables, Row
  <2> QED
    BY <1>1, <1>2, <2>1 DEF Follows, Empty, ImmutablesKept
<1>7. empty = [rows |-> empty.rows, ids |-> empty.ids, failed |-> empty.failed]
  BY <1>2 DEF Empty
<1> HIDE DEF row
<1>8. Inserts(empty, one, e, row(1), Assigned(bs), o)
  BY <1>2, <1>4, <1>7, InsertCases
<1>9. Follows(e, view[e], one.rows)
  BY <1>1, <1>3, <1>4, <1>6, <1>7, <1>8, InsertFollows
<1>10. one = [rows |-> one.rows, ids |-> one.ids, failed |-> one.failed]
  BY <1>8 DEF Inserts
<1>11. Inserts(one, two, e, row(2), Assigned(bs), o)
  BY <1>2, <1>4, <1>10, InsertCases
<1>12. Len(bs) = 2 => Follows(e, view[e], two.rows)
  BY <1>1, <1>3, <1>4, <1>9, <1>10, <1>11, InsertFollows
<1> HIDE DEF e
<1> QED
  BY <1>2, <1>3, <1>5, <1>6, <1>8, <1>9, <1>11, <1>12 DEF Chained, row, e

LEMMA CreateKeeps ==
    ASSUME NEW view, Consistent(view), NEW bs, NEW o, Creates(bs, o)
    PROVE  /\ Consistent(Create(view, bs, o).view)
           /\ ImmutablesKept(view, Create(view, bs, o).view)
<1> DEFINE e    == bs[1].entity
           made == Create(view, bs, o).view
<1>1. e \in Entity /\ ImmutablesKept(view, view)
  BY NothingChanged DEF Creates, Consistent
<1>2. CASE made = view
  BY <1>1, <1>2
<1>3. CASE /\ Checked(bs)
           /\ Intact(made) /\ made = AfterCreate(view, bs, o)
  <2>1. PICK empty, one, two : Chained(view, bs, o, e, empty, one, two)
    BY <1>3, CreateChain
  <2>2. PICK rows : rows = Done(view, bs, o).rows
    OBVIOUS
  <2>3. Follows(e, view[e], rows)
    BY <2>1, <2>2 DEF Chained, Creates
  <2>4. /\ \A r \in rows : Row(e, r)
        /\ \A r \in view[e], s \in rows : r.id = s.id => SameImmutables(e, r, s)
    BY <2>3 DEF Follows
  <2>5. Puts(view, e, rows, made)
    BY <1>3, <2>2 DEF AfterCreate, Puts
  <2> HIDE DEF made
  <2>6. Consistent(made)
    BY <1>1, <1>3, <2>4, <2>5, ViewWith
  <2>7. ImmutablesKept(view, made)
    BY <1>1, <2>4, <2>5, RowsChanged
  <2> QED
    BY <2>6, <2>7 DEF made
<1>4. PICK r : r = Create(view, bs, o)
  OBVIOUS
<1>5. \/ r.view = view
      \/ /\ Checked(bs)
         /\ Intact(AfterCreate(view, bs, o)) /\ r.view = AfterCreate(view, bs, o)
  BY <1>4, CreateCases
<1> QED
  BY <1>2, <1>3, <1>4, <1>5

(* What Update makes of the rows it matches; what it leaves. *)
Assigning(b) == IF b.op = "UpdateOne" THEN UpdateOneChanges(b.entity, b) ELSE UpdateChanges(b.entity, b)

RowsUpdated(view, b, p) ==
    (view[b.entity] \ Matched(view, b, p)) \cup {Changed(r, Assigning(b)) : r \in Matched(view, b, p)}

LEMMA UpdateCases ==
    ASSUME NEW view, NEW b, NEW p, NEW r, r = Update(view, b, p)
    PROVE  /\ r.out \in {"ok", "refused", "failed"}
           /\ \/ r.view = view
              \/ /\ UpdateCheck(b.entity, b) /\ Intact(r.view)
                 /\ Puts(view, b.entity, RowsUpdated(view, b, p), r.view)
<1> DEFINE rows  == Matched(view, b, p)
           after == [view EXCEPT ![b.entity] = RowsUpdated(view, b, p)]
           orphans == Orphaned(view, b, rows) # {}
           linked  == HasLinks(b) /\ rows # {}
           sound   == IsSound(Assigning(b))
           check   == UpdateCheck(b.entity, b)
           ids     == {s.id : s \in rows}
<1>1. r = IF ~check                                  THEN Result("refused", view, {})
          ELSE IF ~sound \/ ~Intact(after)           THEN Result("failed", view, {})
          ELSE IF rows = {} /\ b.op = "UpdateOne"    THEN Result("refused", view, {})
          ELSE IF orphans                            THEN Result("failed", view, {})
          ELSE IF linked                             THEN Result("refused", after, {})
          ELSE Result("ok", after, ids)
  BY DEF Update, RowsUpdated, Assigning
<1> HIDE DEF rows, after, orphans, linked, sound, check, ids
<1>2. \/ r \in {Result("refused", view, {}), Result("failed", view, {})}
      \/ check /\ Intact(after) /\ r \in {Result("refused", after, {}), Result("ok", after, ids)}
  BY <1>1
<1>3. \A out, v, i : Result(out, v, i).out = out /\ Result(out, v, i).view = v
  BY DEF Result
<1> QED
  BY <1>2, <1>3 DEF after, check, Puts

LEMMA UpdateKeeps ==
    ASSUME NEW view, Consistent(view), NEW b, Fits(b), b.op \in {"Update", "UpdateOne"}, NEW p
    PROVE  /\ Consistent(Update(view, b, p).view)
           /\ ImmutablesKept(view, Update(view, b, p).view)
<1> DEFINE e == b.entity
<1>1. e \in Entity /\ ImmutablesKept(view, view)
  BY NothingChanged DEF Fits, Consistent
<1>2. PICK r, rows, u : /\ r = Update(view, b, p) /\ rows = RowsUpdated(view, b, p)
                        /\ u = Assigning(b)
  OBVIOUS
<1>3. CASE r.view = view
  BY <1>1, <1>2, <1>3
<1>4. CASE UpdateCheck(e, b) /\ Intact(r.view) /\ Puts(view, e, rows, r.view)
  <2>1. Allowed(e, u)
    BY <1>2, <1>4, UpdateFacts DEF Assigning
  <2>2. \A s \in view[e] : Row(e, s)
    BY <1>1 DEF Consistent, AreTables, Row
  <2>3. ASSUME NEW s \in rows
        PROVE  s \in view[e] \/ \E t \in view[e] : s = Changed(t, u)
    BY <1>2 DEF RowsUpdated, Matched
  <2>4. ASSUME NEW s \in rows
        PROVE  Row(e, s) /\ \E t \in view[e] : SameImmutables(e, t, s)
    <3>1. CASE s \in view[e]
      BY <2>2, <3>1 DEF SameImmutables
    <3>2. CASE \E t \in view[e] : s = Changed(t, u)
      BY <1>1, <2>1, <2>2, <3>2, ChangedRow
    <3> QED
      BY <2>3, <3>1, <3>2
  <2>5. ASSUME NEW t \in view[e], NEW s \in rows, t.id = s.id PROVE SameImmutables(e, t, s)
    <3>1. PICK t2 \in view[e] : SameImmutables(e, t2, s)
      BY <2>4
    <3>2. t2.id = s.id
      BY <1>1, <3>1, EntityFacts DEF SameImmutables
    <3> QED
      BY <1>1, <2>5, <3>1, <3>2, IdIsUnique DEF Consistent
  <2> HIDE DEF e
  <2>6. \A s \in rows : Row(e, s)
    BY <2>4
  <2>7. Consistent(r.view)
    BY <1>1, <1>4, <2>6, ViewWith
  <2>8. ImmutablesKept(view, r.view)
    BY <1>1, <1>4, <2>5, <2>6, RowsChanged
  <2> QED
    BY <1>2, <2>7, <2>8
<1> QED
  BY <1>2, <1>3, <1>4, UpdateCases

LEMMA DeleteKeeps ==
    ASSUME NEW view, Consistent(view), NEW b, b.entity \in Entity, NEW p
    PROVE  /\ Delete(view, b, p).out \in {"ok", "refused", "failed"}
           /\ Consistent(Delete(view, b, p).view)
           /\ ImmutablesKept(view, Delete(view, b, p).view)
<1> DEFINE e     == b.entity
           rows  == Matched(view, b, p)
           left  == view[e] \ rows
           after == [view EXCEPT ![e] = left]
           ids   == {s.id : s \in rows}
<1>1. PICK r : r = Delete(view, b, p)
  OBVIOUS
<1>2. r = IF ~Intact(after)                        THEN Result("failed", view, {})
          ELSE IF rows = {} /\ b.op = "DeleteOne"  THEN Result("refused", view, {})
          ELSE Result("ok", after, ids)
  BY <1>1 DEF Delete
<1> HIDE DEF after, rows, ids
<1>3. /\ r.out \in {"ok", "refused", "failed"}
      /\ r.view = view \/ (Intact(after) /\ r.view = after)
  BY <1>2 DEF Result
<1>4. ImmutablesKept(view, view)
  BY NothingChanged DEF Consistent
<1>5. \A s \in left : Row(e, s)
  BY DEF Consistent, AreTables, Row
<1>6. \A s \in view[e], t \in left : s.id = t.id => SameImmutables(e, s, t)
  BY <1>4 DEF ImmutablesKept
<1>7. Puts(view, e, left, after)
  BY DEF after, Puts
<1> HIDE DEF left
<1>8. Intact(after) => Consistent(after)
  BY <1>5, <1>7, ViewWith
<1>9. ImmutablesKept(view, after)
  BY <1>5, <1>6, <1>7, RowsChanged
<1> QED
  BY <1>1, <1>3, <1>4, <1>8, <1>9

LEMMA OutcomeKeeps ==
    ASSUME TypeOK, Consistent(View), hand # NoHand
    PROVE  /\ Outcome.out \in {"ok", "refused", "failed"}
           /\ Consistent(Outcome.view) /\ ImmutablesKept(View, Outcome.view)
<1> DEFINE bs == hand.builders
           b  == bs[1]
<1>1. Len(bs) \in {1, 2} /\ DOMAIN bs = 1..Len(bs)
  BY DEF TypeOK
<1>2. 1 \in DOMAIN bs
  BY <1>1
<1>3. /\ Fits(b) /\ hand.conflict.how \in Updating \cup {"none", "nothing"}
      /\ hand.conflict.how = "set" => Allowed(b.entity, hand.conflict.changes)
  BY <1>2 DEF TypeOK, Updating
<1>4. b.entity \in Entity /\ b.op \in {"Create", "Update", "UpdateOne", "Delete", "DeleteOne"}
  BY <1>3 DEF Fits
<1>5. CASE b.op = "Create"
  <2>1. Outcome = Create(View, bs, hand.conflict)
    BY <1>5 DEF Outcome
  <2>2. Creates(bs, hand.conflict)
    BY <1>1, <1>3, <1>4 DEF Creates
  <2>3. Outcome.out \in {"ok", "refused", "failed"}
    BY <2>1, CreateCases
  <2> HIDE DEF bs
  <2> QED
    BY <2>1, <2>2, <2>3, CreateKeeps
<1>6. CASE b.op \in {"Update", "UpdateOne"}
  <2>1. Outcome = Update(View, b, hand.where)
    BY <1>6 DEF Outcome
  <2>2. Outcome.out \in {"ok", "refused", "failed"}
    BY <2>1, UpdateCases
  <2> HIDE DEF bs
  <2> QED
    BY <1>3, <1>6, <2>1, <2>2, UpdateKeeps
<1>7. CASE b.op \in {"Delete", "DeleteOne"}
  <2>1. Outcome = Delete(View, b, hand.where)
    BY <1>7 DEF Outcome
  <2> HIDE DEF bs
  <2> QED
    BY <1>4, <1>7, <2>1, DeleteKeeps
<1> QED
  BY <1>4, <1>5, <1>6, <1>7

-----------------------------------------------------------------------------
(* The steps. *)
Stepped(r) ==
    /\ db' \in {db, r.view} /\ View' \in {View, r.view}
    /\ hand # NoHand /\ hand' = NoHand /\ calls' = calls /\ saves' = saves + 1
    /\ last'.out \in {"ok", "refused", "failed"}
    /\ tx' = [depth |-> tx'.depth, view |-> tx'.view, aborted |-> tx'.aborted]
    /\ tx'.depth = tx.depth /\ tx'.aborted \in {tx.aborted, TRUE}

LEMMA SavedViews ==
    ASSUME TypeOK, NEW r, Saved(r), r.out \in {"ok", "refused", "failed"}
    PROVE  Stepped(r)
<1>1. /\ hand # NoHand /\ hand' = NoHand /\ calls' = calls /\ saves' = saves + 1
      /\ last'.out = r.out
  BY DEF Saved, Returned
<1>2. tx = [depth |-> tx.depth, view |-> tx.view, aborted |-> tx.aborted] /\ tx.aborted \in BOOLEAN
  BY DEF TypeOK
<1>3. CASE tx.depth = 0
  <2>1. db' \in {db, r.view} /\ tx' = tx
    BY <1>3 DEF Saved
  <2>2. View = db /\ View' = db'
    BY <1>3, <2>1 DEF View
  <2> QED
    BY <1>1, <1>2, <2>1, <2>2 DEF Stepped
<1>4. CASE tx.depth # 0
  <2>1. tx' = [depth |-> tx.depth, view |-> r.view, aborted |-> tx.aborted \/ r.out = "failed"]
    BY <1>2, <1>4 DEF Saved
  <2>2. db' = db /\ View' = r.view
    BY <1>4, <2>1 DEF Saved, View
  <2>3. (tx.aborted \/ r.out = "failed") \in {tx.aborted, TRUE}
    BY <1>2
  <2> QED
    BY <1>1, <2>1, <2>2, <2>3 DEF Stepped
<1> QED
  BY <1>3, <1>4

(* What a Save leaves: its outcome, or what was there before. *)
LEMMA SaveStep ==
    ASSUME TypeOK, Consistent(db), Consistent(View), Save \/ SaveFails
    PROVE  \E r : Stepped(r) /\ Consistent(r.view) /\ ImmutablesKept(View, r.view)
<1>1. ImmutablesKept(View, View)
  BY NothingChanged DEF Consistent
<1>2. \A out, view, ids : Result(out, view, ids).out = out /\ Result(out, view, ids).view = view
  BY DEF Result
<1>3. hand # NoHand => /\ Outcome.out \in {"ok", "refused", "failed"}
                       /\ Consistent(Outcome.view) /\ ImmutablesKept(View, Outcome.view)
  BY OutcomeKeeps
<1>4. CASE Save
  <2>1. PICK r : r = IF tx.aborted THEN Result(IF Outcome.out = "ok" THEN "failed" ELSE Outcome.out, View, {})
                                   ELSE Outcome
    OBVIOUS
  <2>2. hand # NoHand /\ Saved(r)
    BY <1>4, <2>1 DEF Save
  <2>3. /\ r.out \in {"ok", "refused", "failed"}
        /\ Consistent(r.view) /\ ImmutablesKept(View, r.view)
    BY <1>1, <1>2, <1>3, <2>1, <2>2
  <2> QED
    BY <2>2, <2>3, SavedViews
<1>5. CASE Saved(Result("failed", View, {}))
  BY <1>1, <1>2, <1>5, SavedViews
<1>6. CASE ReplyLost
  <2>1. /\ hand # NoHand /\ hand' = NoHand /\ calls' = calls /\ saves' = saves + 1
        /\ last'.out = "failed" /\ tx.depth = 0 /\ tx' = tx /\ db' = Outcome.view
    BY <1>6 DEF ReplyLost, Returned
  <2>2. View' = Outcome.view
    BY <2>1 DEF View
  <2>3. tx = [depth |-> tx.depth, view |-> tx.view, aborted |-> tx.aborted]
    BY DEF TypeOK
  <2>4. Stepped(Outcome)
    BY <2>1, <2>2, <2>3 DEF Stepped
  <2> QED
    BY <1>3, <2>1, <2>4
<1> QED
  BY <1>4, <1>5, <1>6 DEF SaveFails

-----------------------------------------------------------------------------
(* Builders in hand. *)
Record(b) ==
    [entity |-> b.entity, op |-> b.op, id |-> b.id,
     set |-> b.set, clear |-> b.clear, add |-> b.add,
     link |-> b.link, unlink |-> b.unlink, unlinked |-> b.unlinked]

LEMMA NewFits ==
    ASSUME NEW e \in Entity, NEW op \in {"Create", "Update", "UpdateOne", "Delete", "DeleteOne"}, NEW id
    PROVE  /\ Fits(New(e, op, id))
           /\ New(e, op, id).entity = e /\ New(e, op, id).op = op
<1> PICK b : b = New(e, op, id)
  OBVIOUS
<1>1. /\ b = Record(b) /\ b.entity = e /\ b.op = op
      /\ DOMAIN b.set = {} /\ DOMAIN b.add = {} /\ DOMAIN b.link = {} /\ DOMAIN b.unlink = {}
      /\ b.clear = {} /\ b.unlinked = {}
  BY DEF New, Record, None
<1> QED
  BY <1>1 DEF Fits, Record

LEMMA FilledFits ==
    ASSUME NEW e \in Entity, NEW input \in Inputs[e]
    PROVE  /\ Fits(Filled(e, input)) /\ Filled(e, input).entity = e /\ Filled(e, input).op = "Create"
<1> PICK b : b = Filled(e, input)
  OBVIOUS
<1>1. /\ b = Record(b) /\ b.entity = e /\ b.op = "Create"
      /\ DOMAIN b.set \subseteq CreateCalls(e).set /\ \A c \in DOMAIN b.set : b.set[c] # Null
      /\ DOMAIN b.add = {} /\ DOMAIN b.link = {} /\ DOMAIN b.unlink = {}
      /\ b.clear = {} /\ b.unlinked = {}
  <2>1. PICK set : set = Within(input, CreateCalls(e).set)
    OBVIOUS
  <2>2. DOMAIN set \subseteq CreateCalls(e).set /\ \A c \in DOMAIN set : set[c] # Null
    BY <2>1, ValuesAssumption DEF Within
  <2>3. b = [New(e, "Create", 0) EXCEPT !.set = set]
    BY <2>1 DEF Filled
  <2> QED
    BY <2>2, <2>3 DEF New, Record, None
<1>2. CreateCalls(e).set \subseteq MutationCalls(e).set
  BY DEF Entity, Of, CreateCalls, MutationCalls,
     Chat!CreateCalls, Problem!CreateCalls, Message!CreateCalls, Job!CreateCalls,
     FailedJob!CreateCalls, Chat!MutationCalls, Problem!MutationCalls, Message!MutationCalls,
     Job!MutationCalls, FailedJob!MutationCalls,
     Chat!Calls, Problem!Calls, Message!Calls, Job!Calls, FailedJob!Calls
<1>3. \E own : /\ own = CreateCalls(e) /\ DOMAIN own = {"set", "clear", "add", "many", "one"}
               /\ Offered(b) = [k \in DOMAIN own |-> own[k] \cap MutationCalls(e)[k]]
  <2>1. DOMAIN CreateCalls(e) = {"set", "clear", "add", "many", "one"}
    BY DEF Entity, Of, CreateCalls,
       Chat!CreateCalls, Problem!CreateCalls, Message!CreateCalls, Job!CreateCalls,
       FailedJob!CreateCalls, Chat!Calls, Problem!Calls, Message!Calls, Job!Calls, FailedJob!Calls
  <2> QED
    BY <1>1, <2>1 DEF Offered
<1>4. Offered(b).set = CreateCalls(e).set \cap MutationCalls(e).set
  BY <1>3
<1> QED
  BY <1>1, <1>2, <1>4 DEF Fits, Record

(* A call keeps the builder within what it offers. *)
LEMMA CallFits ==
    ASSUME NEW b, Fits(b), NEW n, n = Record(n), n.entity = b.entity, n.op = b.op,
           DOMAIN n.set \subseteq DOMAIN b.set \cup Offered(b).set,
           \A c \in DOMAIN n.set : n.set[c] # Null,
           n.clear \subseteq b.clear \cup Offered(b).clear,
           DOMAIN n.add \subseteq DOMAIN b.add \cup Offered(b).add,
           DOMAIN n.link \subseteq DOMAIN b.link \cup Offered(b).many,
           DOMAIN n.unlink \subseteq DOMAIN b.unlink \cup Offered(b).many,
           n.unlinked \subseteq b.unlinked \cup Offered(b).many \cup Offered(b).one
    PROVE  Fits(n)
<1>1. Offered(n) = Offered(b)
  BY DEF Offered
<1> QED
  BY <1>1 DEF Fits, Record

LEMMA FieldCallFits ==
    ASSUME NEW b, Fits(b), NEW v \in Values, NEW n,
           \/ \E c \in Offered(b).set   : n = SetTo(b, c, v)
           \/ \E c \in Offered(b).add   : n = Added(b, c, v)
           \/ \E c \in Offered(b).clear : n = Cleared(b, c)
    PROVE  Fits(n) /\ n.entity = b.entity /\ n.op = b.op
<1>1. b = Record(b) /\ \A d \in DOMAIN b.set : b.set[d] # Null
  BY DEF Fits, Record
<1>2. ASSUME NEW c \in Offered(b).set, n = SetTo(b, c, v)
      PROVE  /\ n = Record(n) /\ n.entity = b.entity /\ n.op = b.op
             /\ DOMAIN n.set = DOMAIN b.set \cup {c} /\ \A d \in DOMAIN n.set : n.set[d] # Null
             /\ DOMAIN n.add \subseteq DOMAIN b.add
             /\ n.clear = b.clear /\ n.link = b.link /\ n.unlink = b.unlink /\ n.unlinked = b.unlinked
  <2>1. PICK set, add : set = With(b.set, c, v) /\ add = Without(b.add, {c})
    OBVIOUS
  <2>2. /\ DOMAIN set = DOMAIN b.set \cup {c} /\ \A d \in DOMAIN set : set[d] # Null
        /\ DOMAIN add \subseteq DOMAIN b.add
    BY <1>1, <2>1, ValuesAssumption DEF With, Without
  <2>3. n = [b EXCEPT !.set = set, !.add = add]
    BY <1>2, <2>1 DEF SetTo
  <2> QED
    BY <1>1, <2>2, <2>3 DEF Record
<1>3. ASSUME NEW c \in Offered(b).add, n = Added(b, c, v)
      PROVE  /\ n = Record(n) /\ n.entity = b.entity /\ n.op = b.op
             /\ DOMAIN n.add = DOMAIN b.add \cup {c} /\ n.set = b.set
             /\ n.clear = b.clear /\ n.link = b.link /\ n.unlink = b.unlink /\ n.unlinked = b.unlinked
  <2>1. PICK add : add = With(b.add, c, IF Given(b.add, c) THEN b.add[c] + v ELSE v)
    OBVIOUS
  <2>2. DOMAIN add = DOMAIN b.add \cup {c}
    BY <2>1 DEF With
  <2>3. n = [b EXCEPT !.add = add]
    BY <1>3, <2>1 DEF Added
  <2> QED
    BY <1>1, <2>2, <2>3 DEF Record
<1>4. ASSUME NEW c \in Offered(b).clear, n = Cleared(b, c)
      PROVE  /\ n = Record(n) /\ n.entity = b.entity /\ n.op = b.op
             /\ DOMAIN n.set \subseteq DOMAIN b.set /\ \A d \in DOMAIN n.set : n.set[d] # Null
             /\ n.add = b.add /\ n.clear = b.clear \cup {c}
             /\ n.link = b.link /\ n.unlink = b.unlink /\ n.unlinked = b.unlinked
  BY <1>1, <1>4 DEF Cleared, Record, Without
<1>5. CASE \E c \in Offered(b).set : n = SetTo(b, c, v)
  BY <1>2, <1>5, CallFits
<1>6. CASE \E c \in Offered(b).add : n = Added(b, c, v)
  BY <1>1, <1>3, <1>6, CallFits
<1>7. CASE \E c \in Offered(b).clear : n = Cleared(b, c)
  BY <1>4, <1>7, CallFits
<1> QED
  BY <1>5, <1>6, <1>7

LEMMA EdgeCallFits ==
    ASSUME NEW b, Fits(b), NEW n,
           \/ \E x \in Offered(b).many : \E ids : n = Linked(b, x, ids) \/ n = Unlinked(b, x, ids)
           \/ \E x \in Offered(b).many \cup Offered(b).one : n = EdgeCleared(b, x)
    PROVE  Fits(n) /\ n.entity = b.entity /\ n.op = b.op
<1>1. b = Record(b) /\ \A d \in DOMAIN b.set : b.set[d] # Null
  BY DEF Fits, Record
<1>2. ASSUME NEW x \in Offered(b).many, NEW ids, n = Linked(b, x, ids)
      PROVE  /\ n = Record(n) /\ n.entity = b.entity /\ n.op = b.op
             /\ DOMAIN n.link = DOMAIN b.link \cup {x} /\ n.unlink = b.unlink
             /\ n.set = b.set /\ n.add = b.add /\ n.clear = b.clear /\ n.unlinked = b.unlinked
  <2>1. PICK link : link = With(b.link, x, Ids(b.link, x) \cup ids)
    OBVIOUS
  <2>2. DOMAIN link = DOMAIN b.link \cup {x}
    BY <2>1 DEF With
  <2>3. n = [b EXCEPT !.link = link]
    BY <1>2, <2>1 DEF Linked
  <2> QED
    BY <1>1, <2>2, <2>3 DEF Record
<1>3. ASSUME NEW x \in Offered(b).many, NEW ids, n = Unlinked(b, x, ids)
      PROVE  /\ n = Record(n) /\ n.entity = b.entity /\ n.op = b.op
             /\ DOMAIN n.link \subseteq DOMAIN b.link \cup {x} /\ DOMAIN n.unlink = DOMAIN b.unlink \cup {x}
             /\ n.set = b.set /\ n.add = b.add /\ n.clear = b.clear /\ n.unlinked = b.unlinked
  <2>1. PICK link, unlink :
           /\ link = IF Given(b.link, x) THEN With(b.link, x, b.link[x] \ ids) ELSE b.link
           /\ unlink = With(b.unlink, x, Ids(b.unlink, x) \cup ids)
    OBVIOUS
  <2>2. DOMAIN link \subseteq DOMAIN b.link \cup {x} /\ DOMAIN unlink = DOMAIN b.unlink \cup {x}
    BY <2>1 DEF With
  <2>3. n = [b EXCEPT !.link = link, !.unlink = unlink]
    BY <1>3, <2>1 DEF Unlinked
  <2> QED
    BY <1>1, <2>2, <2>3 DEF Record
<1>4. ASSUME NEW x \in Offered(b).many \cup Offered(b).one, n = EdgeCleared(b, x)
      PROVE  /\ n = Record(n) /\ n.entity = b.entity /\ n.op = b.op
             /\ n.unlinked = b.unlinked \cup {x} /\ n.link = b.link /\ n.unlink = b.unlink
             /\ n.set = b.set /\ n.add = b.add /\ n.clear = b.clear
  BY <1>1, <1>4 DEF EdgeCleared, Record
<1>5. CASE \E x \in Offered(b).many : \E ids : n = Linked(b, x, ids)
  BY <1>1, <1>2, <1>5, CallFits
<1>6. CASE \E x \in Offered(b).many : \E ids : n = Unlinked(b, x, ids)
  BY <1>1, <1>3, <1>6, CallFits
<1>7. CASE \E x \in Offered(b).many \cup Offered(b).one : n = EdgeCleared(b, x)
  BY <1>1, <1>4, <1>7, CallFits
<1> QED
  BY <1>5, <1>6, <1>7

(* What TypeOK says of a hand. *)
Resolves(e, o) ==
    /\ o.how # "none" => o.target \in Table(e).unique
    /\ o.how = "set" => Allowed(e, o.changes)

HandFits(h, n) ==
    /\ h = Hand(h.builders, h.where, h.conflict)
    /\ h.builders = [k \in 1..Len(h.builders) |-> h.builders[k]]
    /\ h # NoHand => Len(h.builders) \in {1, 2} /\ n < MaxSaves
    /\ h.conflict.how \in {"none", "nothing", "ignore", "new", "set"}
    /\ \A k \in DOMAIN h.builders :
          LET b == h.builders[k] IN
          /\ Fits(b) /\ b.entity = h.builders[1].entity
          /\ Resolves(b.entity, h.conflict)
          /\ b.op # "Create" => Len(h.builders) = 1

LEMMA HandParts ==
    ASSUME NEW bs, NEW p, NEW o
    PROVE  /\ Hand(bs, p, o).builders = bs /\ Hand(bs, p, o).where = p /\ Hand(bs, p, o).conflict = o
BY DEF Hand

LEMMA OneInHand ==
    ASSUME NEW b, Fits(b), NEW p, NEW o, o.how \in {"none", "nothing", "ignore", "new", "set"},
           Resolves(b.entity, o), NEW n, n < MaxSaves
    PROVE  HandFits(Hand(<<b>>, p, o), n)
<1>1. PICK bs : bs = <<b>>
  OBVIOUS
<1>2. Len(bs) = 1 /\ DOMAIN bs = {1} /\ bs[1] = b /\ bs = [k \in 1..Len(bs) |-> bs[k]]
  BY <1>1
<1>3. PICK h : h = Hand(bs, p, o)
  OBVIOUS
<1>4. h.builders = bs /\ h.where = p /\ h.conflict = o
  BY <1>3, HandParts
<1> QED
  BY <1>1, <1>2, <1>3, <1>4 DEF HandFits

LEMMA TwoInHand ==
    ASSUME NEW b, Fits(b), NEW c, Fits(c), b.entity = c.entity, b.op = "Create", c.op = "Create",
           NEW p, NEW o, o.how \in {"none", "nothing", "ignore", "new", "set"},
           Resolves(b.entity, o), NEW n, n < MaxSaves
    PROVE  HandFits(Hand(<<b, c>>, p, o), n)
<1>1. PICK bs : bs = <<b, c>>
  OBVIOUS
<1>2. /\ Len(bs) = 2 /\ DOMAIN bs = {1, 2} /\ bs[1] = b /\ bs[2] = c
      /\ bs = [k \in 1..Len(bs) |-> bs[k]]
  BY <1>1
<1>3. PICK h : h = Hand(bs, p, o)
  OBVIOUS
<1>4. h.builders = bs /\ h.where = p /\ h.conflict = o
  BY <1>3, HandParts
<1>5. \A k \in DOMAIN h.builders :
         /\ Fits(h.builders[k]) /\ h.builders[k].entity = h.builders[1].entity
         /\ Resolves(h.builders[k].entity, h.conflict) /\ h.builders[k].op = "Create"
  BY <1>2, <1>4
<1>6. /\ h.conflict.how \in {"none", "nothing", "ignore", "new", "set"} /\ n < MaxSaves
      /\ Len(h.builders) \in {1, 2} /\ h.builders = [k \in 1..Len(h.builders) |-> h.builders[k]]
      /\ h = Hand(h.builders, h.where, h.conflict)
  BY <1>2, <1>3, <1>4
<1>7. HandFits(h, n)
  BY <1>5, <1>6 DEF HandFits
<1> QED
  BY <1>1, <1>3, <1>7

LEMMA NoHandFits == ASSUME NEW n PROVE HandFits(NoHand, n)
<1>1. PICK bs : bs = <<>>
  OBVIOUS
<1>2. Len(bs) = 0 /\ DOMAIN bs = {} /\ bs = [k \in 1..Len(bs) |-> bs[k]]
  BY <1>1
<1>3. NoHand.builders = bs /\ NoHand.where = EveryRow /\ NoHand.conflict = NoConflict
  BY <1>1, HandParts DEF NoHand
<1> QED
  BY <1>1, <1>2, <1>3 DEF HandFits, NoHand, NoConflict, Resolves

(* What an upsert may set, clear and add to is not immutable. *)
LEMMA ResolvingAllowed ==
    ASSUME NEW e \in Entity, NEW o \in Conflicts[e] \cup {NoConflict},
           MayResolve(o, UpsertOneCalls(e)) \/ MayResolve(o, BulkUpsertCalls(e))
    PROVE  /\ o.how \in {"none", "nothing", "ignore", "new", "set"}
           /\ Resolves(e, o)
<1> USE DEF Resolves
<1>1. CASE o = NoConflict
  BY <1>1 DEF NoConflict
<1>2. CASE o \in Conflicts[e]
  <2>1. /\ o.target \in Table(e).unique /\ o.how \in {"nothing", "ignore", "new", "set"}
        /\ o.how = "set" =>
              \A c \in DOMAIN o.changes.set \ {"attempts"} : Valid(e, c, o.changes.set[c])
    BY <1>2, ConflictsAssumption
  <2>2. ASSUME o.how = "set"
        PROVE  /\ DOMAIN o.changes.set \cup o.changes.null \subseteq Columns(e) \ Immutable(e)
               /\ DOMAIN o.changes.add \subseteq {"attempts"} \ Immutable(e)
    BY <2>2, ResolvingFacts DEF MayResolve
  <2> QED
    BY <2>1, <2>2 DEF Allowed
<1> QED
  BY <1>1, <1>2

TakeSome(e) ==
    NewCreate(e) \/ NewBulk(e) \/ NewUpdate(e) \/ NewUpdateOne(e) \/ NewDelete(e) \/ NewDeleteOne(e)

LEMMA TakeFits ==
    ASSUME NEW e \in Entity, TakeSome(e)
    PROVE  /\ HandFits(hand', saves) /\ last'.out = "none"
           /\ UNCHANGED <<db, tx, calls, saves>>
<1> USE DEF Take
<1>1. CASE NewCreate(e)
  <2>1. PICK input \in Inputs[e], o \in Conflicts[e] \cup {NoConflict} :
           /\ MayResolve(o, UpsertOneCalls(e))
           /\ Take(Hand(<<Filled(e, input)>>, EveryRow, o))
    BY <1>1 DEF NewCreate
  <2>2. o.how \in {"none", "nothing", "ignore", "new", "set"} /\ Resolves(e, o)
    BY <2>1, ResolvingAllowed
  <2>3. Fits(Filled(e, input)) /\ Filled(e, input).entity = e
    BY FilledFits
  <2>4. HandFits(Hand(<<Filled(e, input)>>, EveryRow, o), saves)
    BY <2>1, <2>2, <2>3, OneInHand
  <2> QED
    BY <2>1, <2>4 DEF Nothing
<1>2. CASE NewBulk(e)
  <2>1. PICK one \in Inputs[e], two \in Inputs[e], o \in Conflicts[e] \cup {NoConflict} :
           /\ MayResolve(o, BulkUpsertCalls(e))
           /\ Take(Hand(<<Filled(e, one), Filled(e, two)>>, EveryRow, o))
    BY <1>2 DEF NewBulk
  <2>2. o.how \in {"none", "nothing", "ignore", "new", "set"} /\ Resolves(e, o)
    BY <2>1, ResolvingAllowed
  <2>3. /\ Fits(Filled(e, one)) /\ Filled(e, one).entity = e /\ Filled(e, one).op = "Create"
        /\ Fits(Filled(e, two)) /\ Filled(e, two).entity = e /\ Filled(e, two).op = "Create"
    BY FilledFits
  <2>4. HandFits(Hand(<<Filled(e, one), Filled(e, two)>>, EveryRow, o), saves)
    BY <2>1, <2>2, <2>3, TwoInHand
  <2> QED
    BY <2>1, <2>4 DEF Nothing
<1>3. CASE NewUpdate(e) \/ NewUpdateOne(e) \/ NewDelete(e) \/ NewDeleteOne(e)
  <2>1. PICK op, id, p : /\ op \in {"Update", "UpdateOne", "Delete", "DeleteOne"}
                         /\ Take(Hand(<<New(e, op, id)>>, p, NoConflict))
    BY <1>3 DEF NewUpdate, NewUpdateOne, NewDelete, NewDeleteOne
  <2>2. Fits(New(e, op, id))
    BY <2>1, NewFits
  <2>3. HandFits(Hand(<<New(e, op, id)>>, p, NoConflict), saves)
    BY <2>1, <2>2, OneInHand DEF NoConflict, Resolves
  <2> QED
    BY <2>1, <2>3 DEF Nothing
<1> QED
  BY <1>1, <1>2, <1>3 DEF TakeSome

LEMMA CallingFits ==
    ASSUME HandFits(hand, saves), CallOnField \/ CallOnEdge
    PROVE  /\ HandFits(hand', saves) /\ calls + saves < MaxCalls /\ calls' = calls + 1
           /\ UNCHANGED <<db, tx, saves, last>>
<1>1. PICK b, n :
         /\ b \in {hand.builders[k] : k \in DOMAIN hand.builders}
         /\ Fits(b) => Fits(n) /\ n.entity = b.entity /\ n.op = b.op
         /\ Calling(n)
  <2>1. CASE CallOnField
    BY <2>1, FieldCallFits DEF CallOnField
  <2>2. CASE CallOnEdge
    BY <2>2, EdgeCallFits DEF CallOnEdge
  <2> QED
    BY <2>1, <2>2
<1>2. /\ Len(hand.builders) = 1 /\ hand' = [hand EXCEPT !.builders = <<n>>]
      /\ calls + saves < MaxCalls /\ calls' = calls + 1 /\ UNCHANGED <<db, tx, saves, last>>
  BY <1>1 DEF Calling
<1>3. hand = Hand(hand.builders, hand.where, hand.conflict)
  BY DEF HandFits
<1>4. hand' = Hand(<<n>>, hand.where, hand.conflict)
  BY <1>2, <1>3 DEF Hand
<1>5. /\ Fits(b) /\ hand.conflict.how \in {"none", "nothing", "ignore", "new", "set"}
      /\ Resolves(b.entity, hand.conflict)
  BY <1>1 DEF HandFits
<1>6. hand # NoHand
  <2>1. Len(<<>>) = 0 /\ NoHand.builders = <<>>
    BY HandParts DEF NoHand
  <2> QED
    BY <1>2, <2>1
<1>7. saves < MaxSaves
  BY <1>6 DEF HandFits
<1>8. HandFits(Hand(<<n>>, hand.where, hand.conflict), saves)
  BY <1>1, <1>5, <1>7, OneInHand
<1> QED
  BY <1>2, <1>4, <1>8

-----------------------------------------------------------------------------
(* Edges: the four encodings are one, and each edge has its inverse. *)
LEMMA EdgeFacts ==
    ASSUME NEW e \in Entity, NEW x \in DOMAIN Steps(e)
    PROVE  /\ ClientSteps(e)[x] = Steps(e)[x] /\ Loads(e)[x] = Steps(e)[x]
           /\ Haves(e)[x] = Steps(e)[x]
           /\ \E y \in DOMAIN Steps(Steps(e)[x].to) :
                 LET back == Steps(Steps(e)[x].to)[y]
                 IN  /\ back.to = e /\ back.column = Steps(e)[x].column
                     /\ back.many <=> ~Steps(e)[x].many
<1> USE DEF Of, Steps, ClientSteps, Loads, Haves
<1>1. CASE e = "chat"
  BY <1>1 DEF Chat!Steps, Chat!ClientSteps, Chat!Loads, Chat!Haves, Chat!ToMany,
       Message!Steps, Message!ToOne, Problem!Steps, Problem!ToOne, Problem!ToMany
<1>2. CASE e = "problem"
  BY <1>2 DEF Problem!Steps, Problem!ClientSteps, Problem!Loads, Problem!Haves, Problem!ToMany,
       Problem!ToOne, Message!Steps, Message!ToOne, Chat!Steps, Chat!ToMany
<1>3. CASE e = "message"
  BY <1>3 DEF Message!Steps, Message!ClientSteps, Message!Loads, Message!Haves, Message!ToOne,
       Problem!Steps, Problem!ToMany, Problem!ToOne, Chat!Steps, Chat!ToMany
<1>4. CASE e = "job" \/ e = "failed_job"
  BY <1>4 DEF Job!Steps, FailedJob!Steps, Job!None, FailedJob!None
<1> QED
  BY <1>1, <1>2, <1>3, <1>4 DEF Entity

LEMMA EdgesOfRows == EdgesAgree
<1> SUFFICES ASSUME NEW e \in Entity, NEW x \in DOMAIN Steps(e), NEW r \in View[e]
             PROVE  LET loaded == Loaded(View, Loads(e)[x], View[e])
                        there  == Neighbours(View, Steps(e)[x], r) IN
                    /\ there = Neighbours(View, ClientSteps(e)[x], r)
                    /\ there = loaded[r]
                    /\ Holds(View, e, [on |-> x, cmp |-> "Has", value |-> 0], r) <=> there # {}
                    /\ \A s \in there : LET back == Steps(e)[x].to IN
                          \E y \in DOMAIN Steps(back) : Steps(back)[y].to = e
                                                      /\ r \in Neighbours(View, Steps(back)[y], s)
  BY DEF EdgesAgree
<1> DEFINE edge  == Steps(e)[x]
           there == Neighbours(View, edge, r)
<1>1. ClientSteps(e)[x] = edge /\ Loads(e)[x] = edge /\ Haves(e)[x] = edge
  BY EdgeFacts
<1>2. PICK y \in DOMAIN Steps(edge.to) :
         /\ Steps(edge.to)[y].to = e /\ Steps(edge.to)[y].column = edge.column
         /\ Steps(edge.to)[y].many <=> ~edge.many
  BY EdgeFacts
<1> HIDE DEF edge
<1>3. there = Loaded(View, edge, View[e])[r]
  BY DEF Loaded, Neighbours
<1>4. Holds(View, e, [on |-> x, cmp |-> "Has", value |-> 0], r) <=> there # {}
  BY <1>1 DEF Holds
<1>5. ASSUME NEW s \in there PROVE r \in Neighbours(View, Steps(edge.to)[y], s)
  BY <1>2, <1>5 DEF Neighbours
<1> QED
  BY <1>1, <1>2, <1>3, <1>4, <1>5 DEF edge

-----------------------------------------------------------------------------
LEMMA Parts ==
    /\ TypeOK <=> /\ AreTables(db) /\ AreTables(View)
                  /\ tx = [depth |-> tx.depth, view |-> tx.view, aborted |-> tx.aborted]
                  /\ tx.depth \in 0..2 /\ tx.aborted \in BOOLEAN
                  /\ calls \in 0..MaxCalls /\ saves \in 0..MaxSaves
                  /\ last.out \in {"none", "ok", "refused", "failed"}
                  /\ HandFits(hand, saves)
    /\ StoreInv => TypeOK /\ Consistent(db) /\ Consistent(View)
    /\ TypeOK /\ Consistent(db) /\ Consistent(View) => StoreInv
<1>1. TypeOK <=> /\ AreTables(db) /\ AreTables(View)
                 /\ tx = [depth |-> tx.depth, view |-> tx.view, aborted |-> tx.aborted]
                 /\ tx.depth \in 0..2 /\ tx.aborted \in BOOLEAN
                 /\ calls \in 0..MaxCalls /\ saves \in 0..MaxSaves
                 /\ last.out \in {"none", "ok", "refused", "failed"}
                 /\ HandFits(hand, saves)
  BY DEF TypeOK, HandFits, Resolves
<1>2. TypeOK /\ ConstraintsHold /\ RowsAreValid <=> TypeOK /\ Consistent(db) /\ Consistent(View)
  BY <1>1 DEF ConstraintsHold, RowsAreValid, Consistent
<1> QED
  BY <1>1, <1>2, EdgesOfRows DEF StoreInv

(* What the state is made of, and all that StoreInv asks of it. *)
Sound ==
    /\ Consistent(db) /\ Consistent(View)
    /\ tx = [depth |-> tx.depth, view |-> tx.view, aborted |-> tx.aborted]
    /\ tx.depth \in 0..2 /\ tx.aborted \in BOOLEAN
    /\ calls \in 0..MaxCalls /\ saves \in 0..MaxSaves
    /\ last.out \in {"none", "ok", "refused", "failed"}
    /\ HandFits(hand, saves)

LEMMA SoundIsInv == Sound <=> StoreInv
BY Parts DEF Sound, Consistent

LEMMA InitSound == Init => Sound
<1> SUFFICES ASSUME Init PROVE Sound
  OBVIOUS
<1>1. tx = NoTx /\ db = Tables0 /\ hand = NoHand /\ calls = 0 /\ saves = 0 /\ last = Nothing
  BY DEF Init
<1>2. tx.depth = 0 /\ tx.aborted \in BOOLEAN
      /\ tx = [depth |-> tx.depth, view |-> tx.view, aborted |-> tx.aborted]
  BY <1>1 DEF NoTx
<1>3. View = Tables0 /\ Consistent(db) /\ Consistent(View)
  BY <1>1, <1>2, TablesAssumption DEF View
<1>4. HandFits(hand, saves)
  BY <1>1, NoHandFits
<1>5. calls \in 0..MaxCalls /\ saves \in 0..MaxSaves /\ last.out \in {"none", "ok", "refused", "failed"}
  BY <1>1, StoreAssumption DEF Nothing
<1>6. tx.depth \in 0..2
  BY <1>2
<1> QED
  BY <1>2, <1>3, <1>4, <1>5, <1>6 DEF Sound

LEMMA SaveKeeps ==
    ASSUME Sound, Save \/ SaveFails
    PROVE  Sound' /\ ImmutablesKept(View, View')
<1>1. TypeOK /\ ImmutablesKept(View, View)
  BY Parts, SoundIsInv, NothingChanged DEF Sound, Consistent
<1>2. PICK r : Stepped(r) /\ Consistent(r.view) /\ ImmutablesKept(View, r.view)
  BY <1>1, SaveStep DEF Sound
<1>3. /\ db' \in {db, r.view} /\ View' \in {View, r.view}
      /\ hand' = NoHand /\ calls' = calls /\ saves' = saves + 1
      /\ last'.out \in {"ok", "refused", "failed"}
      /\ tx' = [depth |-> tx'.depth, view |-> tx'.view, aborted |-> tx'.aborted]
      /\ tx'.depth = tx.depth /\ tx'.aborted \in {tx.aborted, TRUE}
  BY <1>2 DEF Stepped
<1>4. hand # NoHand
  BY <1>2 DEF Stepped
<1>5. saves < MaxSaves /\ saves \in 0..MaxSaves
  BY <1>4 DEF Sound, HandFits
<1>6. saves' \in 0..MaxSaves
  BY <1>3, <1>5, StoreAssumption
<1>7. Consistent(db') /\ Consistent(View')
  BY <1>2, <1>3 DEF Sound
<1>8. HandFits(hand', saves')
  BY <1>3, NoHandFits
<1>9. ImmutablesKept(View, View')
  BY <1>1, <1>2, <1>3
<1>10. tx'.aborted \in BOOLEAN /\ tx'.depth \in 0..2
  BY <1>3 DEF Sound
<1>11. calls' \in 0..MaxCalls /\ last'.out \in {"none", "ok", "refused", "failed"}
  BY <1>2, <1>3 DEF Sound
<1> QED
  BY <1>3, <1>6, <1>7, <1>8, <1>9, <1>10, <1>11 DEF Sound

LEMMA TransactionKeeps ==
    ASSUME Sound, RunInTx \/ ReturnErr \/ ReturnNil
    PROVE  Sound' /\ saves' = saves
<1>1. /\ hand = NoHand /\ last' = Nothing /\ UNCHANGED <<hand, calls, saves>>
      /\ tx' = [depth |-> tx'.depth, view |-> tx'.view, aborted |-> tx'.aborted]
      /\ tx'.depth \in 0..2 /\ tx'.aborted \in BOOLEAN
      /\ db' \in {db, View} /\ View' \in {db, View}
  <2>1. NoTx.depth = 0 /\ NoTx.aborted \in BOOLEAN
        /\ NoTx = [depth |-> NoTx.depth, view |-> NoTx.view, aborted |-> NoTx.aborted]
    BY DEF NoTx
  <2>2. /\ tx = [depth |-> tx.depth, view |-> tx.view, aborted |-> tx.aborted]
        /\ tx.depth \in 0..2 /\ tx.aborted \in BOOLEAN
        /\ View = IF tx.depth = 0 THEN db ELSE tx.view
    BY DEF Sound, View
  <2>3. View' = IF tx'.depth = 0 THEN db' ELSE tx'.view
    BY DEF View
  <2> DEFINE Returns == tx' = IF tx.depth = 1 THEN NoTx ELSE [tx EXCEPT !.depth = @ - 1]
  <2>7. ASSUME tx.depth \in {1, 2}, Returns
        PROVE  /\ tx' = [depth |-> tx'.depth, view |-> tx'.view, aborted |-> tx'.aborted]
               /\ tx'.depth \in 0..2 /\ tx'.aborted \in BOOLEAN
               /\ tx.depth = 1 => tx'.depth = 0
               /\ tx.depth # 1 => tx'.depth = 1 /\ tx'.view = tx.view
    <3>1. CASE tx.depth = 1
      BY <2>1, <2>7, <3>1
    <3>2. CASE tx.depth = 2
      <4>1. tx' = [depth |-> 1, view |-> tx.view, aborted |-> tx.aborted]
        BY <2>2, <2>7, <3>2
      <4> QED
        BY <2>2, <3>2, <4>1
    <3> QED
      BY <2>7, <3>1, <3>2
  <2>4. CASE RunInTx
    <3>1. \/ tx.depth = 0 /\ tx' = [depth |-> 1, view |-> db, aborted |-> FALSE]
          \/ tx.depth = 1 /\ tx' = [depth |-> 2, view |-> tx.view, aborted |-> tx.aborted]
      <4>1. CASE tx.depth = 0
        BY <2>4, <4>1 DEF RunInTx
      <4>2. CASE tx.depth # 0
        <5>1. tx.depth = 1 /\ tx' = [tx EXCEPT !.depth = @ + 1]
          BY <2>2, <2>4, <4>2 DEF RunInTx
        <5> QED
          BY <2>2, <5>1
      <4> QED
        BY <4>1, <4>2
    <3>2. hand = NoHand /\ last' = Nothing /\ UNCHANGED <<db, hand, calls, saves>>
      BY <2>4 DEF RunInTx
    <3>3. /\ tx' = [depth |-> tx'.depth, view |-> tx'.view, aborted |-> tx'.aborted]
          /\ tx'.depth \in {1, 2} /\ tx'.aborted \in BOOLEAN /\ tx'.view = View
      <4>1. CASE tx.depth = 0 /\ tx' = [depth |-> 1, view |-> db, aborted |-> FALSE]
        <5>1. tx'.depth = 1 /\ tx'.view = db /\ tx'.aborted \in BOOLEAN
          BY <4>1
        <5>2. tx' = [depth |-> tx'.depth, view |-> tx'.view, aborted |-> tx'.aborted]
          BY <4>1
        <5> QED
          BY <2>2, <4>1, <5>1, <5>2
      <4>2. CASE tx.depth = 1 /\ tx' = [depth |-> 2, view |-> tx.view, aborted |-> tx.aborted]
        BY <2>2, <4>2
      <4> QED
        BY <3>1, <4>1, <4>2
    <3> QED
      BY <2>3, <3>2, <3>3
  <2>5. CASE ReturnErr
    <3>1. /\ hand = NoHand /\ last' = Nothing /\ UNCHANGED <<db, hand, calls, saves>>
          /\ tx.depth \in {1, 2} /\ Returns
      BY <2>2, <2>5 DEF ReturnErr
    <3> QED
      BY <2>2, <2>3, <2>7, <3>1
  <2>6. CASE ReturnNil
    <3>1. /\ hand = NoHand /\ last' = Nothing /\ UNCHANGED <<hand, calls, saves>>
          /\ tx.depth \in {1, 2} /\ Returns
          /\ db' \in {db, tx.view} /\ (tx.depth # 1 => db' = db)
      BY <2>2, <2>6 DEF ReturnNil
    <3> QED
      BY <2>2, <2>3, <2>7, <3>1
  <2> QED
    BY <2>4, <2>5, <2>6
<1>2. last'.out = "none" /\ HandFits(hand', saves') /\ calls' \in 0..MaxCalls /\ saves' \in 0..MaxSaves
  BY <1>1 DEF Nothing, Sound
<1> QED
  BY <1>1, <1>2 DEF Sound

LEMMA StepKeeps ==
    ASSUME Sound, [Next]_vars
    PROVE  Sound' /\ (saves' # saves => ImmutablesKept(View, View'))
<1>1. CASE RunInTx \/ ReturnErr \/ ReturnNil
  BY <1>1, TransactionKeeps
<1>2. CASE \E e \in Entity : TakeSome(e)
  <2>1. /\ HandFits(hand', saves) /\ last'.out = "none"
        /\ UNCHANGED <<db, tx, calls, saves>>
    BY <1>2, TakeFits
  <2> QED
    BY <2>1 DEF Sound, View
<1>3. CASE CallOnField \/ CallOnEdge
  <2>1. /\ HandFits(hand', saves) /\ calls + saves < MaxCalls /\ calls' = calls + 1
        /\ UNCHANGED <<db, tx, saves, last>>
    BY <1>3, CallingFits DEF Sound
  <2>2. calls' \in 0..MaxCalls
    BY <2>1, StoreAssumption DEF Sound
  <2> QED
    BY <2>1, <2>2 DEF Sound, View
<1>4. CASE Save \/ SaveFails
  BY <1>4, SaveKeeps
<1>5. CASE UNCHANGED vars
  BY <1>5 DEF vars, Sound, View
<1> QED
  BY <1>1, <1>2, <1>3, <1>4, <1>5 DEF Next, TakeSome

(* Every reachable state is well formed: in the committed tables and in    *)
(* the view of every transaction, committed or not, keys are unique,       *)
(* required columns are set, references lead to a row and no row holds     *)
(* what its validator refuses; and QueryX of a query, QueryX of the        *)
(* client, WithX and HasX walk the same edge.  For all tables, inputs and  *)
(* conflicts that the assumptions admit.                                   *)
THEOREM StoreInvariant == Spec => []StoreInv
<1>1. Init => Sound
  BY InitSound
<1>2. Sound /\ [Next]_vars => Sound'
  BY StepKeeps
<1>3. Sound => StoreInv
  BY SoundIsInv
<1> QED
  BY <1>1, <1>2, <1>3, PTL DEF Spec

(* No Save changes an immutable field of a row, whatever the builder was   *)
(* given and whichever way an upsert resolves its conflict.                *)
THEOREM ImmutablesNeverChange == Spec => ImmutablesStay
<1>1. Init => Sound
  BY InitSound
<1>2. Sound /\ [Next]_vars => Sound'
  BY StepKeeps
<1>3. Sound /\ [Next]_vars =>
         [saves' # saves =>
            \A e \in Entity : \A r \in View[e], s \in View'[e] :
               r.id = s.id => \A c \in Immutable(e) : r[c] = s[c]]_vars
  BY StepKeeps DEF ImmutablesKept, SameImmutables
<1> QED
  BY <1>1, <1>2, <1>3, PTL DEF Spec, ImmutablesStay

-----------------------------------------------------------------------------
(* What a Save that returns no error has done. *)
LEMMA ReportFacts ==
    ASSUME NEW e \in Entity
    PROVE  /\ "id" \in Columns(e) /\ {"id", "attempts"} \cap Table(e).nullable = {}
           /\ Table(e).unique \subseteq Immutable(e)
           /\ \A r : Node(e, r) = [c \in Columns(e) |-> IF r[c] = Null THEN 0 ELSE r[c]]
           /\ \A b : Fields(e, b) = DOMAIN b.set \cap (Columns(e) \ {"id"})
           /\ \A b : ReportedEdges(e, b) \subseteq DOMAIN Steps(e)
           /\ \A x \in DOMAIN Steps(e) : Steps(e)[x].to \in Entity \ {e}
<1> USE DEF Of, Columns, Table, Immutable, Node, Fields, ReportedEdges, Steps
<1>1. CASE e = "chat"
  BY <1>1 DEF Entity, Chat!Columns, Chat!Table, Chat!Immutable, Chat!Node, Chat!Fields,
       Chat!ReportedEdges, Chat!Steps, Chat!ToMany
<1>2. CASE e = "problem"
  BY <1>2 DEF Entity, Problem!Columns, Problem!Table, Problem!Immutable, Problem!Node, Problem!Fields,
       Problem!ReportedEdges, Problem!Steps, Problem!ToMany, Problem!ToOne
<1>3. CASE e = "message"
  BY <1>3 DEF Entity, Message!Columns, Message!Table, Message!Immutable, Message!Node, Message!Fields,
       Message!ReportedEdges, Message!Steps, Message!ToOne
<1>4. CASE e = "job"
  BY <1>4 DEF Entity, Job!Columns, Job!Table, Job!Immutable, Job!Node, Job!Fields,
       Job!ReportedEdges, Job!Steps, Job!None
<1>5. CASE e = "failed_job"
  BY <1>5 DEF Entity, FailedJob!Columns, FailedJob!Table, FailedJob!Immutable, FailedJob!Node,
       FailedJob!Fields, FailedJob!ReportedEdges, FailedJob!Steps, FailedJob!None
<1> QED
  BY <1>1, <1>2, <1>3, <1>4, <1>5 DEF Entity

(* Reading by id. *)
LEMMA ReadFacts ==
    ASSUME NEW view, Consistent(view), NEW e \in Entity
    PROVE  /\ All(view, e, EveryRow) = {Node(e, r) : r \in view[e]}
           /\ \A r \in view[e] : r.id # Null /\ Node(e, r).id = r.id
           /\ IDs(view, e, EveryRow) = {r.id : r \in view[e]}
           /\ \A r \in view[e] : Get(view, e, r.id).node = Node(e, r) /\ Exist(view, e, IDIs(r.id))
<1>1. All(view, e, EveryRow) = {Node(e, r) : r \in view[e]}
  BY DEF All, Holds, EveryRow
<1>2. ASSUME NEW r \in view[e] PROVE r.id # Null /\ Node(e, r).id = r.id
  <2>1. r.id # Null
    BY ReportFacts DEF Consistent, Intact
  <2>2. Node(e, r) = [c \in Columns(e) |-> IF r[c] = Null THEN 0 ELSE r[c]] /\ "id" \in Columns(e)
    BY ReportFacts
  <2> QED
    BY <2>1, <2>2
<1>3. IDs(view, e, EveryRow) = {r.id : r \in view[e]}
  BY <1>1, <1>2 DEF IDs
<1>4. ASSUME NEW r \in view[e]
      PROVE  Get(view, e, r.id).node = Node(e, r) /\ Exist(view, e, IDIs(r.id))
  <2>1. PICK n, found : n = Node(e, r) /\ found = All(view, e, IDIs(r.id))
    OBVIOUS
  <2>2. \A s \in view[e] : Holds(view, e, IDIs(r.id), s) <=> s.id # Null /\ s.id = r.id
    BY DEF Holds, IDIs, Compares
  <2>3. \A s \in view[e] : Holds(view, e, IDIs(r.id), s) <=> s = r
    BY <1>2, <2>2, IdIsUnique DEF Consistent
  <2>4. found = {n}
    BY <2>1, <2>3 DEF All
  <2>5. Cardinality(found) = 1
    BY <2>4, FS_Singleton
  <2>6. Get(view, e, r.id) = [err |-> "nil", node |-> CHOOSE m \in found : TRUE]
    BY <2>1, <2>4, <2>5 DEF Get, Only
  <2>7. Get(view, e, r.id).node = n
    BY <2>4, <2>6
  <2>8. Exist(view, e, IDIs(r.id))
    BY <2>1, <2>4 DEF Exist, IDs
  <2> QED
    BY <2>1, <2>7, <2>8
<1> QED
  BY <1>1, <1>2, <1>3, <1>4

LEMMA SavedOk ==
    ASSUME Sound, Save \/ SaveFails
    PROVE  \/ last'.out # "ok" /\ (tx.depth = 0 => db' = db)
           \/ /\ (last'.out = "ok" \/ (last'.out = "failed" /\ ReplyLost))
              /\ hand # NoHand /\ Outcome.out = "ok" /\ View' = Outcome.view
              /\ last'.out = "ok" => last'.ids = Outcome.ids
<1>1. \A out, view, ids : Result(out, view, ids).out = out /\ Result(out, view, ids).view = view
  BY DEF Result
<1>2. CASE ReplyLost
  <2>1. /\ hand # NoHand /\ last'.out = "failed" /\ Outcome.out = "ok"
        /\ tx.depth = 0 /\ tx' = tx /\ db' = Outcome.view
    BY <1>2 DEF ReplyLost, Returned
  <2>2. View' = Outcome.view
    BY <2>1 DEF View
  <2> QED
    BY <1>2, <2>1, <2>2
<1>3. CASE ~ReplyLost
  <2>1. PICK r : /\ Saved(r)
                 /\ r.out = "ok" => hand # NoHand /\ r = Outcome
    <3>1. CASE Save
      <4>1. PICK r : r = IF tx.aborted THEN Result(IF Outcome.out = "ok" THEN "failed" ELSE Outcome.out, View, {})
                                       ELSE Outcome
        OBVIOUS
      <4>2. hand # NoHand /\ Saved(r)
        BY <3>1, <4>1 DEF Save
      <4>3. r.out = "ok" => r = Outcome
        BY <1>1, <4>1
      <4> QED
        BY <4>2, <4>3
    <3>2. CASE SaveFails
      BY <1>1, <1>3, <3>2 DEF SaveFails
    <3> QED
      BY <3>1, <3>2
  <2>2. last' = [out |-> r.out, ids |-> r.ids]
    BY <2>1 DEF Saved, Returned
  <2>3. CASE tx.depth = 0
    <3>1. db' = (IF r.out = "ok" THEN r.view ELSE db) /\ tx' = tx
      BY <2>1, <2>3 DEF Saved
    <3> QED
      BY <2>1, <2>2, <2>3, <3>1 DEF View
  <2>4. CASE tx.depth # 0
    <3>1. tx' = [depth |-> tx.depth, view |-> r.view, aborted |-> tx.aborted \/ r.out = "failed"]
      BY <2>1, <2>4 DEF Saved, Sound
    <3> QED
      BY <2>1, <2>2, <2>4, <3>1 DEF View
  <2> QED
    BY <2>3, <2>4
<1> QED
  BY <1>2, <1>3

(* A delete takes what it matched. *)
LEMMA DeleteOk ==
    ASSUME NEW view, NEW b, NEW p, NEW r, r = Delete(view, b, p), r.out = "ok"
    PROVE  Puts(view, b.entity, view[b.entity] \ Matched(view, b, p), r.view)
<1> DEFINE rows  == Matched(view, b, p)
           after == [view EXCEPT ![b.entity] = @ \ rows]
           ids   == {s.id : s \in rows}
<1>1. r = IF ~Intact(after)                        THEN Result("failed", view, {})
          ELSE IF rows = {} /\ b.op = "DeleteOne"  THEN Result("refused", view, {})
          ELSE Result("ok", after, ids)
  BY DEF Delete
<1> HIDE DEF after, ids
<1>2. r.view = after
  BY <1>1 DEF Result
<1> QED
  BY <1>2 DEF after, Puts

LEMMA UpdateOk ==
    ASSUME NEW view, NEW b, NEW p, NEW r, r = Update(view, b, p), r.out = "ok"
    PROVE  /\ IsSound(Assigning(b)) /\ Intact(r.view)
           /\ Orphaned(view, b, Matched(view, b, p)) = {}
           /\ Matched(view, b, p) = {} \/ ~HasLinks(b)
           /\ Puts(view, b.entity, RowsUpdated(view, b, p), r.view)
<1> DEFINE rows  == Matched(view, b, p)
           after == [view EXCEPT ![b.entity] = RowsUpdated(view, b, p)]
           orphans == Orphaned(view, b, rows) # {}
           linked  == HasLinks(b) /\ rows # {}
           sound   == IsSound(Assigning(b))
           check   == UpdateCheck(b.entity, b)
           ids     == {s.id : s \in rows}
<1>1. r = IF ~check                                  THEN Result("refused", view, {})
          ELSE IF ~sound \/ ~Intact(after)           THEN Result("failed", view, {})
          ELSE IF rows = {} /\ b.op = "UpdateOne"    THEN Result("refused", view, {})
          ELSE IF orphans                            THEN Result("failed", view, {})
          ELSE IF linked                             THEN Result("refused", after, {})
          ELSE Result("ok", after, ids)
  BY DEF Update, RowsUpdated, Assigning
<1> HIDE DEF rows, after, orphans, linked, sound, check, ids
<1>2. sound /\ Intact(after) /\ ~orphans /\ ~linked /\ r = Result("ok", after, ids)
  BY <1>1 DEF Result
<1>3. r.view = after
  BY <1>2 DEF Result
<1> QED
  BY <1>2, <1>3 DEF rows, after, orphans, linked, sound, Puts

(* The statement assigns what the mutation reports. *)
LEMMA AssignedAsReported ==
    ASSUME NEW b, Fits(b), b.op \in {"Update", "UpdateOne"}, NEW u, u = Assigning(b)
    PROVE  /\ DOMAIN u.set = Fields(b.entity, b) /\ \A c \in DOMAIN u.set : u.set[c] = b.set[c]
           /\ u.null = ClearedFields(b.entity, b)
           /\ DOMAIN u.add = AddedFields(b.entity, b) /\ \A c \in DOMAIN u.add : u.add[c] = b.add[c]
           /\ u.null \cap DOMAIN u.add = {}
<1> DEFINE e == b.entity
<1>1. e \in Entity
  BY DEF Fits
<1>2. DOMAIN b.set \subseteq UpdateCalls(e).set
  <2>1. \A own, all : [k \in {"set", "clear", "add", "many", "one"} |-> own[k] \cap all[k]].set = own.set \cap all.set
    OBVIOUS
  <2>2. /\ DOMAIN UpdateCalls(e) = {"set", "clear", "add", "many", "one"}
        /\ UpdateOneCalls(e) = UpdateCalls(e)
    BY <1>1 DEF Entity, Of, UpdateCalls, UpdateOneCalls,
       Chat!UpdateCalls, Problem!UpdateCalls, Message!UpdateCalls, Job!UpdateCalls,
       FailedJob!UpdateCalls, Chat!UpdateOneCalls, Problem!UpdateOneCalls, Message!UpdateOneCalls,
       Job!UpdateOneCalls, FailedJob!UpdateOneCalls,
       Chat!Calls, Problem!Calls, Message!Calls, Job!Calls, FailedJob!Calls
  <2>3. PICK own : own = UpdateCalls(e)
    OBVIOUS
  <2>4. Offered(b) = [k \in DOMAIN own |-> own[k] \cap MutationCalls(e)[k]]
    BY <2>2, <2>3 DEF Offered
  <2>5. Offered(b).set \subseteq own.set
    BY <2>1, <2>2, <2>3, <2>4
  <2> QED
    BY <2>3, <2>5 DEF Fits
<1>3. u = UpdateChanges(e, b)
  BY <1>1 DEF Entity, Of, Assigning, UpdateOneChanges, UpdateChanges,
       Chat!UpdateChanges, Problem!UpdateChanges, Message!UpdateChanges, Job!UpdateChanges,
       FailedJob!UpdateChanges,
       Chat!UpdateOneChanges, Problem!UpdateOneChanges, Message!UpdateOneChanges,
       Job!UpdateOneChanges, FailedJob!UpdateOneChanges
<1> DEFINE S == UpdateCalls(e).set
           C == IF e \in {"problem", "message"} THEN ClearedFields(e, b) ELSE {}
           A == IF e = "job" THEN {"attempts"} ELSE {}
<1>4. /\ u.set = [c \in DOMAIN b.set \cap S |-> b.set[c]] /\ u.null = C
      /\ u.add = [c \in DOMAIN b.add \cap A |-> b.add[c]]
  <2> USE DEF Of, UpdateChanges, UpdateCalls, ClearedFields
  <2>1. CASE e = "chat" \/ e = "failed_job"
    <3>1. u.set = [c \in {} |-> 0] /\ u.null = {} /\ u.add = [c \in {} |-> 0]
      BY <1>3, <2>1 DEF Chat!UpdateChanges, FailedJob!UpdateChanges, Chat!Changes, FailedJob!Changes,
         Chat!None, FailedJob!None
    <3>2. S = {} /\ C = {} /\ A = {}
      BY <2>1 DEF Chat!UpdateCalls, FailedJob!UpdateCalls, Chat!Calls, FailedJob!Calls
    <3>3. \A f : [c \in {} |-> 0] = [c \in {} |-> f[c]]
      OBVIOUS
    <3> HIDE DEF S, C, A
    <3>4. DOMAIN b.set \cap S = {} /\ DOMAIN b.add \cap A = {}
      BY <3>2
    <3> QED
      BY <3>1, <3>2, <3>3, <3>4
  <2>2. CASE e = "problem"
    BY <1>3, <2>2 DEF Problem!UpdateChanges, Problem!Changes, Problem!Within, Problem!None,
       Problem!UpdateCalls, Problem!Calls, Problem!ClearedFields
  <2>3. CASE e = "message"
    BY <1>3, <2>3 DEF Message!UpdateChanges, Message!Changes, Message!Within, Message!None,
       Message!UpdateCalls, Message!Calls, Message!ClearedFields, Message!Settable
  <2>4. CASE e = "job"
    BY <1>3, <2>4 DEF Job!UpdateChanges, Job!Changes, Job!Within, Job!UpdateCalls, Job!Calls
  <2> QED
    BY <1>1, <2>1, <2>2, <2>3, <2>4 DEF Entity
<1>5. /\ ClearedFields(e, b) = C /\ AddedFields(e, b) = DOMAIN b.add \cap A
      /\ S \subseteq Columns(e) \ {"id"}
  <2> USE DEF Of, ClearedFields, AddedFields, UpdateCalls, Columns
  <2>1. CASE e = "chat" \/ e = "failed_job"
    BY <2>1 DEF Chat!ClearedFields, FailedJob!ClearedFields, Chat!AddedFields, FailedJob!AddedFields,
       Chat!UpdateCalls, FailedJob!UpdateCalls, Chat!Calls, FailedJob!Calls
  <2>2. CASE e = "problem"
    BY <2>2 DEF Problem!AddedFields, Problem!UpdateCalls, Problem!Calls, Problem!Columns
  <2>3. CASE e = "message"
    BY <2>3 DEF Message!AddedFields, Message!UpdateCalls, Message!Calls, Message!Columns, Message!Settable
  <2>4. CASE e = "job"
    BY <2>4 DEF Job!ClearedFields, Job!AddedFields, Job!UpdateCalls, Job!Calls, Job!Columns
  <2> QED
    BY <1>1, <2>1, <2>2, <2>3, <2>4 DEF Entity
<1>6. C \cap A = {}
  OBVIOUS
<1> HIDE DEF S, C, A
<1>7. Fields(e, b) = DOMAIN b.set \cap S /\ DOMAIN b.set \cap S = DOMAIN b.set
  <2>1. Fields(e, b) = DOMAIN b.set \cap (Columns(e) \ {"id"})
    BY <1>1, ReportFacts
  <2>2. DOMAIN b.set \subseteq S
    BY <1>2 DEF S
  <2> QED
    BY <1>5, <2>1, <2>2
<1> QED
  BY <1>4, <1>5, <1>6, <1>7

LEMMA UpdatedHonestly ==
    ASSUME NEW view, Consistent(view), NEW b, Fits(b), b.op \in {"Update", "UpdateOne"}, NEW p,
           NEW r, r = Update(view, b, p), r.out = "ok", NEW after, after = r.view, Consistent(after)
    PROVE  /\ \A d \in Entity \ {b.entity} : after[d] = view[d]
           /\ UpdatedAsReported(view, after, b, p)
<1> DEFINE e    == b.entity
           rows == Matched(view, b, p)
<1>1. /\ e \in Entity /\ rows \subseteq view[e]
      /\ \A s \in view[e] : Row(e, s)
  BY DEF Fits, Consistent, AreTables, Row, Matched
<1>2. PICK u : u = Assigning(b)
  OBVIOUS
<1>3. /\ IsSound(u) /\ Orphaned(view, b, rows) = {} /\ (rows = {} \/ ~HasLinks(b))
      /\ Puts(view, e, RowsUpdated(view, b, p), after)
  BY <1>2, UpdateOk
<1>4. /\ after[e] = (view[e] \ rows) \cup {Changed(s, u) : s \in rows}
      /\ \A d \in Entity \ {e} : after[d] = view[d]
  <2>1. DOMAIN view = Entity
    BY DEF Consistent, AreTables
  <2> QED
    BY <1>1, <1>2, <1>3, <2>1 DEF Puts, RowsUpdated
<1>5. Allowed(e, u)
  <2>1. UpdateCheck(e, b)
    <3> DEFINE x == Update(view, b, p)
    <3>1. CASE ~UpdateCheck(e, b)
      <4>1. x = Result("refused", view, {})
        BY <3>1 DEF Update
      <4> QED
        BY <4>1 DEF Result
    <3> QED
      BY <3>1
  <2> QED
    BY <1>2, <2>1, UpdateFacts DEF Assigning
<1>6. ASSUME NEW s \in rows
      PROVE  Changed(s, u) \in after[e] /\ Changed(s, u).id = s.id
  <2>1. SameImmutables(e, s, Changed(s, u))
    BY <1>1, <1>5, ChangedRow
  <2> QED
    BY <1>1, <1>4, <2>1, EntityFacts DEF SameImmutables
<1>7. IDs(after, e, EveryRow) = IDs(view, e, EveryRow)
  <2>1. IDs(after, e, EveryRow) = {s.id : s \in after[e]} /\ IDs(view, e, EveryRow) = {s.id : s \in view[e]}
    BY <1>1, ReadFacts
  <2>2. \A s \in after[e] : \E t \in view[e] : t.id = s.id
    BY <1>1, <1>4, <1>6
  <2>3. \A t \in view[e] : \E s \in after[e] : s.id = t.id
    BY <1>4, <1>6
  <2> QED
    BY <2>1, <2>2, <2>3
<1>8. ASSUME NEW s \in rows, NEW c \in Columns(e)
      PROVE  Get(after, e, s.id).node[c] =
                CASE c \in Fields(e, b)        -> b.set[c]
                  [] c \in ClearedFields(e, b) -> 0
                  [] c \in AddedFields(e, b)   -> s[c] + b.add[c]
                  [] OTHER                     -> Node(e, s)[c]
  <2>1. PICK t : t = Changed(s, u)
    OBVIOUS
  <2>2. t \in after[e] /\ t.id = s.id
    BY <1>6, <2>1
  <2>3. Get(after, e, s.id).node = Node(e, t)
    BY <1>1, <2>2, ReadFacts
  <2>4. /\ Node(e, t)[c] = IF t[c] = Null THEN 0 ELSE t[c]
        /\ Node(e, s)[c] = IF s[c] = Null THEN 0 ELSE s[c]
    BY <1>1, ReportFacts
  <2>5. /\ DOMAIN u.set = Fields(e, b) /\ \A d \in DOMAIN u.set : u.set[d] = b.set[d]
        /\ u.null = ClearedFields(e, b)
        /\ DOMAIN u.add = AddedFields(e, b) /\ \A d \in DOMAIN u.add : u.add[d] = b.add[d]
        /\ u.null \cap DOMAIN u.add = {}
    BY <1>2, AssignedAsReported
  <2>6. DOMAIN u.set \cap (u.null \cup DOMAIN u.add) = {}
    BY <1>3 DEF IsSound
  <2>7. c \in DOMAIN s
    BY <1>1 DEF Row
  <2>8. t[c] = CASE c \in u.null       -> Null
                 [] c \in DOMAIN u.set -> u.set[c]
                 [] c \in DOMAIN u.add -> (IF s[c] = Null THEN 0 ELSE s[c]) + u.add[c]
                 [] OTHER              -> s[c]
    BY <2>1, <2>7 DEF Changed, Given
  <2>9. CASE c \in Fields(e, b)
    <3>1. t[c] = b.set[c] /\ c \notin ClearedFields(e, b) /\ c \notin AddedFields(e, b)
      BY <2>5, <2>6, <2>8, <2>9
    <3>2. b.set[c] # Null
      BY <1>1, <2>9, ReportFacts DEF Fits
    <3> QED
      BY <2>3, <2>4, <2>9, <3>1, <3>2
  <2>10. CASE c \in ClearedFields(e, b)
    <3>1. t[c] = Null /\ c \notin Fields(e, b) /\ c \notin AddedFields(e, b)
      BY <2>5, <2>6, <2>8, <2>10
    <3> QED
      BY <2>3, <2>4, <2>10, <3>1
  <2>11. CASE c \in AddedFields(e, b)
    <3>1. /\ t[c] = (IF s[c] = Null THEN 0 ELSE s[c]) + b.add[c]
          /\ c \notin Fields(e, b) /\ c \notin ClearedFields(e, b)
      BY <2>5, <2>6, <2>8, <2>11
    <3>2. c \in Columns(e) \ Table(e).nullable
      BY <1>1, <1>5, <2>5, <2>11, ReportFacts DEF Allowed
    <3>3. s[c] # Null /\ t[c] # Null
      BY <1>1, <2>2, <3>2 DEF Consistent, Intact
    <3> QED
      BY <2>3, <2>4, <2>11, <3>1, <3>3
  <2>12. CASE c \notin Fields(e, b) \cup ClearedFields(e, b) \cup AddedFields(e, b)
    <3>1. t[c] = s[c]
      BY <2>5, <2>8, <2>12
    <3> QED
      BY <2>3, <2>4, <2>12, <3>1
  <2> QED
    BY <2>9, <2>10, <2>11, <2>12
<1>9. ASSUME NEW s \in rows, NEW x \in ReportedEdges(e, b), Steps(e)[x].many
      PROVE  LET there == {t.id : t \in Neighbours(after, Steps(e)[x], s)}
             IN  /\ Ids(b.link, x) \subseteq there
                 /\ Ids(b.unlink, x) \cap there \subseteq Ids(b.link, x)
                 /\ x \in b.unlinked => there = Ids(b.link, x)
  <2>1. PICK edge : edge = Steps(e)[x]
    OBVIOUS
  <2>2. x \in DOMAIN Steps(e) /\ edge.to \in Entity \ {e}
    BY <1>1, <2>1, ReportFacts
  <2>3. Neighbours(after, edge, s) = Neighbours(view, edge, s)
    BY <1>4, <2>2 DEF Neighbours
  <2>4. Ids(b.link, x) = {}
    BY <1>3, <1>9 DEF HasLinks, Ids, Given
  <2>5. \A t \in Neighbours(view, edge, s) : x \notin b.unlinked /\ t.id \notin Ids(b.unlink, x)
    BY <1>3, <1>9, <2>1, <2>2 DEF Orphaned
  <2> QED
    BY <2>1, <2>3, <2>4, <2>5
<1>10. view[e] \ rows \subseteq after[e]
  BY <1>4
<1> QED
  BY <1>4, <1>7, <1>8, <1>9, <1>10 DEF UpdatedAsReported

(* An insert that has not failed touches no row of the statement twice: a  *)
(* row that was not there before is one of those given.                    *)
GivenRows(before, acc, given) ==
    \A s \in acc.rows : (\E t \in before : t.id = s.id) \/ (s \in given /\ s.id \in acc.ids)

RowsOf(e, acc) == \A s \in acc.rows : Row(e, s)

Resolvable(e, columns, o) ==
    /\ columns \cap Immutable(e) = {} /\ o.how \in Updating \cup {"none", "nothing"}
    /\ o.how = "set" => Allowed(e, o.changes)

Gives(before, acc, n, given, row, o) ==
    /\ GivenRows(before, n, given \cup {row}) /\ ~acc.failed
    /\ o.how \in {"none", "nothing", "ignore"} => acc.rows \subseteq n.rows
    /\ o.how = "none" => row \notin acc.rows /\ n.rows = acc.rows \cup {row}

LEMMA InsertGives ==
    ASSUME NEW e \in Entity, NEW before, NEW acc, RowsOf(e, acc), NEW given, GivenRows(before, acc, given),
           NEW row, Row(e, row), NEW columns, NEW o, Resolvable(e, columns, o),
           NEW n, Inserts(acc, n, e, row, columns, o), ~n.failed
    PROVE  Gives(before, acc, n, given, row, o)
<1> USE DEF Gives, Resolvable
<1>1. CASE /\ \A r \in acc.rows, c \in Table(e).unique : r[c] # row[c]
           /\ n.rows = acc.rows \cup {row} /\ n.ids = acc.ids \cup {row.id}
           /\ n.failed = acc.failed
  <2>1. row \notin acc.rows
    BY <1>1, EntityFacts
  <2>2. GivenRows(before, n, given \cup {row})
    BY <1>1 DEF GivenRows
  <2> QED
    BY <1>1, <2>1, <2>2
<1>2. CASE n.rows = acc.rows /\ n.ids = acc.ids /\ n.failed = acc.failed /\ o.how = "nothing"
  BY <1>2 DEF GivenRows
<1>3. CASE n.failed = TRUE
  BY <1>3
<1>4. CASE \E r \in acc.rows :
              /\ o.how \in Updating /\ r[o.target] = row[o.target]
              /\ n.rows = (acc.rows \ {r}) \cup {Resolved(r, row, columns, o)}
              /\ n.ids = acc.ids \cup {r.id}
              /\ n.failed = (acc.failed \/ r.id \in acc.ids)
  <2>1. PICK r \in acc.rows :
              /\ o.how \in Updating
              /\ n.rows = (acc.rows \ {r}) \cup {Resolved(r, row, columns, o)}
              /\ n.ids = acc.ids \cup {r.id}
              /\ n.failed = (acc.failed \/ r.id \in acc.ids)
    BY <1>4
  <2>2. ~acc.failed /\ r.id \notin acc.ids
    BY <2>1
  <2>3. PICK s : s = Resolved(r, row, columns, o)
    OBVIOUS
  <2>4. SameImmutables(e, r, s)
    BY <2>1, <2>3, ResolvedRow DEF RowsOf
  <2>5. s.id = r.id
    BY <2>4, EntityFacts DEF SameImmutables
  <2>6. PICK t \in before : t.id = r.id
    BY <2>2 DEF GivenRows
  <2>7. n.rows = (acc.rows \ {r}) \cup {s}
    BY <2>1, <2>3
  <2>8. GivenRows(before, n, given \cup {row})
    BY <2>1, <2>5, <2>6, <2>7 DEF GivenRows
  <2>9. o.how = "ignore" => s = r
    BY <2>3 DEF Resolved
  <2>10. o.how \in {"new", "set", "ignore"}
    BY <2>1 DEF Updating
  <2> QED
    BY <2>2, <2>7, <2>8, <2>9, <2>10
<1> QED
  BY <1>1, <1>2, <1>3, <1>4 DEF Inserts

(* A default is taken only where nothing was given. *)
LEMMA DefaultsKeep ==
    ASSUME NEW e \in Entity, NEW b, b = Record(b), NEW fresh, NEW now
    PROVE  \A c \in DOMAIN b.set : /\ c \in DOMAIN Defaults(e, b, fresh, now).set
                                   /\ Defaults(e, b, fresh, now).set[c] = b.set[c]
<1>1. PICK d : Defaults(e, b, fresh, now)
               = [b EXCEPT !.set = [c \in DOMAIN @ \cup DOMAIN d |->
                                       IF c \in DOMAIN @ THEN @[c] ELSE d[c]]]
  <2> USE DEF Of, Defaults
  <2>1. CASE e = "chat"
    BY <2>1 DEF Chat!Defaults, Chat!WithDefaults, Chat!Given
  <2>2. CASE e = "problem"
    BY <2>2 DEF Problem!Defaults, Problem!WithDefaults, Problem!Given
  <2>3. CASE e = "message"
    BY <2>3 DEF Message!Defaults, Message!WithDefaults, Message!Given
  <2>4. CASE e = "job"
    BY <2>4 DEF Job!Defaults, Job!WithDefaults, Job!Given
  <2>5. CASE e = "failed_job"
    BY <2>5 DEF FailedJob!Defaults, FailedJob!WithDefaults, FailedJob!Given
  <2> QED
    BY <2>1, <2>2, <2>3, <2>4, <2>5 DEF Entity
<1>2. PICK set : set = [c \in DOMAIN b.set \cup DOMAIN d |-> IF c \in DOMAIN b.set THEN b.set[c] ELSE d[c]]
  OBVIOUS
<1>3. Defaults(e, b, fresh, now) = [b EXCEPT !.set = set]
  BY <1>1, <1>2
<1>4. Defaults(e, b, fresh, now).set = set
  BY <1>3 DEF Record
<1> QED
  BY <1>2, <1>4

LEMMA GivenFields ==
    ASSUME NEW bs, NEW k \in DOMAIN bs, Fits(bs[k]), Checked(bs), NEW e, e = bs[1].entity, bs[k].entity = e,
           NEW row, row = CreateRow(e, Filling(bs)[k])
    PROVE  \A c \in Fields(e, bs[k]) :
              /\ c \in DOMAIN Filling(bs)[k].set \cap Columns(e)
              /\ row[c] = bs[k].set[c] /\ Node(e, row)[c] = bs[k].set[c]
<1>1. e \in Entity /\ bs[k] = Record(bs[k]) /\ \A c \in DOMAIN bs[k].set : bs[k].set[c] # Null
  BY DEF Fits, Record
<1>2. PICK full : full = Filling(bs)[k]
  OBVIOUS
<1>3. \A c \in DOMAIN bs[k].set : c \in DOMAIN full.set /\ full.set[c] = bs[k].set[c]
  BY <1>1, <1>2, DefaultsKeep DEF Filling
<1>4. row = [c \in Columns(e) |-> IF c \in DOMAIN full.set THEN full.set[c] ELSE Null]
  BY <1>1, <1>2, CreateFacts DEF Checked
<1>5. /\ Fields(e, bs[k]) = DOMAIN bs[k].set \cap (Columns(e) \ {"id"})
      /\ Node(e, row) = [c \in Columns(e) |-> IF row[c] = Null THEN 0 ELSE row[c]]
  BY <1>1, ReportFacts
<1> QED
  BY <1>1, <1>2, <1>3, <1>4, <1>5

LEMMA CreateOk ==
    ASSUME NEW view, NEW bs, NEW o, NEW r, r = Create(view, bs, o), r.out = "ok"
    PROVE  /\ Checked(bs) /\ ~Done(view, bs, o).failed
           /\ r.view = AfterCreate(view, bs, o) /\ r.ids = CreatedIds(view, bs, o)
           /\ Len(bs) > 1 \/ Done(view, bs, o).ids # {}
<1> DEFINE refused == \E k \in DOMAIN bs : ~CreateCheck(bs[1].entity, Filling(bs)[k])
           twice   == o.how = "set" /\ ~IsSound(o.changes)
           done    == Done(view, bs, o)
           after   == AfterCreate(view, bs, o)
           linked  == \E k \in DOMAIN bs : HasLinks(bs[k])
           ids     == IF Len(bs) > 1 THEN {Filling(bs)[k].set["id"] : k \in DOMAIN bs} ELSE done.ids
<1>1. r = IF refused                                 THEN Result("refused", view, {})
          ELSE IF twice                              THEN Result("failed", view, {})
          ELSE IF done.failed \/ ~Intact(after)      THEN Result("failed", view, {})
          ELSE IF done.ids = {} /\ ~(Len(bs) > 1)    THEN Result("refused", view, {})
          ELSE IF linked                             THEN Result("refused", after, {})
          ELSE Result("ok", after, ids)
  BY DEF Create, Filling, Kept, Assigned, Done, AfterCreate
<1> HIDE DEF refused, twice, done, after, linked, ids
<1>2. /\ ~refused /\ ~done.failed /\ (Len(bs) > 1 \/ done.ids # {})
      /\ r = Result("ok", after, ids)
  BY <1>1 DEF Result
<1>3. r.view = after /\ r.ids = ids
  BY <1>2 DEF Result
<1>4. Checked(bs) /\ ids = CreatedIds(view, bs, o)
  BY <1>2 DEF refused, Checked, ids, CreatedIds, done
<1> QED
  BY <1>2, <1>3, <1>4 DEF done, after

(* What is known of the builders of a create in hand. *)
ToCreate(bs, o) ==
    /\ Creates(bs, o)
    /\ o.how # "none" => o.target \in Table(bs[1].entity).unique
    /\ \A k \in DOMAIN bs : Fits(bs[k]) /\ bs[k].entity = bs[1].entity

(* What a create has added, bulk or not. *)
Grown(view, bs, o, e, rows) ==
    /\ \A s \in rows : \/ \E t \in view[e] : t.id = s.id
                       \/ \E k \in DOMAIN bs : s = CreateRow(e, Filling(bs)[k])
    /\ o.how \in {"none", "nothing", "ignore"} => view[e] \subseteq rows
    /\ o.how = "none" => Cardinality(rows \ view[e]) = Len(bs)

LEMMA CreatedRows ==
    ASSUME NEW view, Consistent(view), NEW bs, NEW o, ToCreate(bs, o), Checked(bs),
           NEW e, e = bs[1].entity, NEW done, done = Done(view, bs, o), ~done.failed
    PROVE  Grown(view, bs, o, e, done.rows)
<1> USE DEF Grown
<1>1. PICK empty, one, two : Chained(view, bs, o, e, empty, one, two)
  BY CreateChain DEF ToCreate
<1>2. PICK row1, row2 : row1 = CreateRow(e, Filling(bs)[1]) /\ row2 = CreateRow(e, Filling(bs)[2])
  OBVIOUS
<1>0. PICK columns, nobody : columns = Assigned(bs) /\ nobody = {}
  OBVIOUS
<1>3. /\ e \in Entity /\ DOMAIN bs = 1..Len(bs) /\ Len(bs) \in {1, 2}
      /\ Resolvable(e, columns, o)
  BY <1>0, FillingFacts DEF ToCreate, Creates, Resolvable
<1>4. empty.rows = view[e] /\ GivenRows(view[e], empty, nobody)
  BY <1>1 DEF Chained, Empty, GivenRows
<1>5. /\ Row(e, row1) /\ Inserts(empty, one, e, row1, columns, o)
      /\ RowsOf(e, empty) /\ RowsOf(e, one)
      /\ Len(bs) = 2 => Row(e, row2) /\ Inserts(one, two, e, row2, columns, o)
      /\ done = IF Len(bs) = 1 THEN one ELSE two
  BY <1>0, <1>1, <1>2 DEF Chained, Follows, RowsOf
<1>6. ASSUME ~one.failed
      PROVE  Gives(view[e], empty, one, nobody, row1, o)
  BY <1>3, <1>4, <1>5, <1>6, InsertGives
<1>7. CASE Len(bs) = 1
  <2>1. /\ GivenRows(view[e], one, {row1}) /\ done = one
        /\ o.how \in {"none", "nothing", "ignore"} => view[e] \subseteq one.rows
        /\ o.how = "none" => row1 \notin view[e] /\ one.rows = view[e] \cup {row1}
    BY <1>0, <1>4, <1>5, <1>6, <1>7 DEF Gives
  <2>2. o.how = "none" => one.rows \ view[e] = {row1}
    BY <2>1
  <2>3. Cardinality({row1}) = 1
    BY FS_Singleton
  <2>4. 1 \in DOMAIN bs
    BY <1>3, <1>7
  <2> QED
    BY <1>2, <1>7, <2>1, <2>2, <2>3, <2>4 DEF GivenRows
<1>8. CASE Len(bs) = 2
  <2>1. done = two /\ ~two.failed /\ Row(e, row2) /\ Inserts(one, two, e, row2, columns, o)
    BY <1>5, <1>8
  <2>2. ~one.failed
    BY <2>1 DEF Inserts
  <2>0. PICK first : first = {row1}
    OBVIOUS
  <2>3. /\ GivenRows(view[e], one, first)
        /\ o.how \in {"none", "nothing", "ignore"} => view[e] \subseteq one.rows
        /\ o.how = "none" => row1 \notin view[e] /\ one.rows = view[e] \cup {row1}
    BY <1>0, <1>4, <1>6, <2>0, <2>2 DEF Gives
  <2>4. /\ GivenRows(view[e], two, first \cup {row2})
        /\ o.how \in {"none", "nothing", "ignore"} => one.rows \subseteq two.rows
        /\ o.how = "none" => row2 \notin one.rows /\ two.rows = one.rows \cup {row2}
    <3>1. Gives(view[e], one, two, first, row2, o)
      BY <1>3, <1>5, <2>1, <2>3, InsertGives
    <3> QED
      BY <3>1 DEF Gives
  <2>5. o.how = "none" => two.rows \ view[e] = first \cup {row2} /\ row2 \notin first
    BY <2>0, <2>3, <2>4
  <2>6. row2 \notin first => Cardinality(first \cup {row2}) = 2
    <3>1. IsFiniteSet(first) /\ Cardinality(first) = 1
      BY <2>0, FS_Singleton
    <3> QED
      BY <3>1, FS_AddElement
  <2>7. 1 \in DOMAIN bs /\ 2 \in DOMAIN bs
    BY <1>3, <1>8
  <2>8. \A s \in two.rows : (\E t \in view[e] : t.id = s.id) \/ s = row1 \/ s = row2
    BY <2>0, <2>4 DEF GivenRows
  <2> QED
    BY <1>2, <1>8, <2>1, <2>8, <2>3, <2>4, <2>5, <2>6, <2>7
<1> QED
  BY <1>3, <1>7, <1>8

(* The row that a single create leaves, new or resolved. *)
Left(view, e, b, o, s) ==
    /\ o.how \in {"none", "new"} => \A c \in Fields(e, b) \ Immutable(e) : Node(e, s)[c] = b.set[c]
    /\ o.how # "none" => \A t \in view[e] : t.id = s.id => Node(e, s)[o.target] = Node(e, t)[o.target]

LEMMA SingleCreate ==
    ASSUME NEW view, Consistent(view), NEW bs, NEW o, ToCreate(bs, o), Checked(bs), Len(bs) = 1,
           NEW e, e = bs[1].entity, NEW done, done = Done(view, bs, o), ~done.failed, done.ids # {}
    PROVE  \E s \in done.rows : s.id \in done.ids /\ Left(view, e, bs[1], o, s)
<1>1. PICK empty, one, two : Chained(view, bs, o, e, empty, one, two)
  BY CreateChain DEF ToCreate
<1>2. PICK row, columns : row = CreateRow(e, Filling(bs)[1]) /\ columns = Assigned(bs)
  OBVIOUS
<1>3. /\ e \in Entity /\ 1 \in DOMAIN bs /\ Fits(bs[1]) /\ DOMAIN bs = {1}
      /\ Resolvable(e, columns, o) /\ (o.how # "none" => o.target \in Table(e).unique)
  BY <1>2, FillingFacts DEF ToCreate, Creates, Resolvable
<1>4. /\ empty.rows = view[e] /\ empty.ids = {} /\ ~empty.failed
      /\ done = one /\ Row(e, row) /\ Inserts(empty, done, e, row, columns, o)
      /\ \A t \in view[e] : Row(e, t)
  BY <1>1, <1>2 DEF Chained, Empty, Follows
<1>5. \A c \in Fields(e, bs[1]) :
         /\ c \in DOMAIN Filling(bs)[1].set \cap Columns(e)
         /\ row[c] = bs[1].set[c] /\ Node(e, row)[c] = bs[1].set[c]
  BY <1>2, <1>3, GivenFields
<1>6. CASE /\ \A t \in view[e], c \in Table(e).unique : t[c] # row[c]
           /\ done.rows = view[e] \cup {row} /\ done.ids = {} \cup {row.id}
  <2>1. \A t \in view[e] : t.id # row.id
    BY <1>3, <1>6, EntityFacts
  <2>2. Left(view, e, bs[1], o, row)
    BY <1>5, <2>1 DEF Left
  <2> QED
    BY <1>6, <2>2
<1>7. CASE \E r \in view[e] :
              /\ done.rows = (view[e] \ {r}) \cup {Resolved(r, row, columns, o)}
              /\ done.ids = {} \cup {r.id} /\ o.how \in Updating
  <2>1. PICK r \in view[e] :
              /\ done.rows = (view[e] \ {r}) \cup {Resolved(r, row, columns, o)}
              /\ done.ids = {r.id} /\ o.how \in Updating
    BY <1>7
  <2>2. PICK s : s = Resolved(r, row, columns, o)
    OBVIOUS
  <2>3. Row(e, r) /\ Row(e, s) /\ SameImmutables(e, r, s)
    BY <1>3, <1>4, <2>1, <2>2, ResolvedRow DEF Resolvable
  <2>4. s \in done.rows /\ s.id = r.id
    BY <1>3, <2>1, <2>2, <2>3, EntityFacts DEF SameImmutables
  <2>5. ASSUME NEW x, NEW y, NEW c \in Columns(e), x[c] = y[c] PROVE Node(e, x)[c] = Node(e, y)[c]
    <3>1. PICK f, g : f = Node(e, x) /\ g = Node(e, y)
      OBVIOUS
    <3>2. /\ f = [d \in Columns(e) |-> IF x[d] = Null THEN 0 ELSE x[d]]
          /\ g = [d \in Columns(e) |-> IF y[d] = Null THEN 0 ELSE y[d]]
      BY <1>3, <3>1, ReportFacts
    <3>3. f[c] = g[c]
      BY <2>5, <3>2
    <3> QED
      BY <3>1, <3>3
  <2>6. ASSUME o.how \in {"none", "new"}, NEW c \in Fields(e, bs[1]) \ Immutable(e)
        PROVE  Node(e, s)[c] = bs[1].set[c]
    <3>1. o.how = "new"
      BY <2>1, <2>6 DEF Updating
    <3>2. c \in columns
      <4>1. Kept(bs) = DOMAIN Filling(bs)[1].set \cap Immutable(e)
        BY <1>3, KeptFacts DEF Kept
      <4>2. c \in UNION {DOMAIN Filling(bs)[k].set : k \in DOMAIN bs}
        BY <1>3, <1>5
      <4> QED
        BY <1>2, <2>6, <4>1, <4>2 DEF Assigned
    <3>3. s[c] = row[c] /\ c \in Columns(e)
      BY <1>5, <2>2, <2>3, <3>1, <3>2 DEF Resolved, Row
    <3>4. Node(e, s)[c] = Node(e, row)[c]
      BY <2>5, <3>3
    <3> QED
      BY <1>5, <2>6, <3>4
  <2>7. ASSUME o.how # "none", NEW t \in view[e], t.id = s.id
        PROVE  Node(e, s)[o.target] = Node(e, t)[o.target]
    <3>1. t = r
      BY <1>3, <2>4, <2>7, IdIsUnique DEF Consistent
    <3>2. o.target \in Immutable(e) /\ o.target \in Columns(e)
      BY <1>3, <2>7, ReportFacts, EntityFacts
    <3>3. s[o.target] = r[o.target]
      BY <2>3, <3>2 DEF SameImmutables
    <3> QED
      BY <2>5, <3>1, <3>2, <3>3
  <2> QED
    BY <2>1, <2>4, <2>6, <2>7 DEF Left
<1>8. ~(done.failed = TRUE) /\ done.ids # empty.ids
  BY <1>4
<1> QED
  BY <1>4, <1>6, <1>7, <1>8 DEF Inserts

LEMMA CreatedHonestly ==
    ASSUME NEW view, Consistent(view), NEW bs, NEW o, ToCreate(bs, o),
           NEW r, r = Create(view, bs, o), r.out = "ok",
           NEW after, after = r.view, Consistent(after), NEW e, e = bs[1].entity,
           NEW ids, ids \in {r.ids, IDs(after, e, EveryRow)}
    PROVE  /\ \A d \in Entity \ {e} : after[d] = view[d]
           /\ CreatedAsGiven(view, after, bs, o, ids)
<1>1. PICK done : done = Done(view, bs, o)
  OBVIOUS
<1>2. /\ Checked(bs) /\ ~done.failed /\ after = AfterCreate(view, bs, o)
      /\ r.ids = CreatedIds(view, bs, o) /\ (Len(bs) > 1 \/ done.ids # {})
  BY <1>1, CreateOk
<1>3. /\ e \in Entity /\ Len(bs) \in {1, 2} /\ DOMAIN bs = 1..Len(bs)
      /\ \A k \in DOMAIN bs : Fits(bs[k]) /\ bs[k].entity = e
  BY DEF ToCreate, Creates
<1>4. after[e] = done.rows /\ \A d \in Entity \ {e} : after[d] = view[d]
  <2>1. DOMAIN view = Entity
    BY DEF Consistent, AreTables
  <2> QED
    BY <1>1, <1>2, <1>3, <2>1 DEF AfterCreate
<1>5. /\ \A s \in after[e] : \/ \E t \in view[e] : t.id = s.id
                             \/ \E k \in DOMAIN bs : s = CreateRow(e, Filling(bs)[k])
      /\ o.how \in {"none", "nothing", "ignore"} => view[e] \subseteq after[e]
      /\ o.how = "none" => Cardinality(after[e] \ view[e]) = Len(bs)
  <2>1. Grown(view, bs, o, e, done.rows)
    BY <1>1, <1>2, CreatedRows
  <2> QED
    BY <1>4, <2>1 DEF Grown
<1>6. /\ IDs(view, e, EveryRow) = {s.id : s \in view[e]} /\ IDs(after, e, EveryRow) = {s.id : s \in after[e]}
      /\ All(after, e, EveryRow) = {Node(e, s) : s \in after[e]}
      /\ \A s \in after[e] : /\ Node(e, s).id = s.id /\ Exist(after, e, IDIs(s.id))
                             /\ Get(after, e, s.id).node = Node(e, s)
      /\ \A s \in view[e] : Get(view, e, s.id).node = Node(e, s)
  BY <1>3, ReadFacts
<1>7. IDs(view, e, EveryRow) \subseteq IDs(after, e, EveryRow)
  <2>1. PICK empty, one, two : Chained(view, bs, o, e, empty, one, two)
    BY <1>2, CreateChain DEF ToCreate
  <2>2. Follows(e, view[e], after[e])
    BY <1>1, <1>3, <1>4, <2>1 DEF Chained
  <2>3. \A s \in view[e] : \E t \in after[e] : t.id = s.id
    BY <2>2 DEF Follows
  <2> QED
    BY <1>6, <2>3
<1>8. ASSUME NEW n \in All(after, e, EveryRow), n.id \notin IDs(view, e, EveryRow)
      PROVE  \E k \in DOMAIN bs : \A c \in Fields(e, bs[k]) : n[c] = bs[k].set[c]
  <2>1. PICK s \in after[e] : n = Node(e, s)
    BY <1>6
  <2>2. ~\E t \in view[e] : t.id = s.id
    BY <1>6, <1>8, <2>1
  <2>3. PICK k \in DOMAIN bs : s = CreateRow(e, Filling(bs)[k])
    BY <1>5, <2>2
  <2>4. \A c \in Fields(e, bs[k]) : Node(e, s)[c] = bs[k].set[c]
    BY <1>2, <1>3, <2>3, GivenFields
  <2> QED
    BY <2>1, <2>4
<1>9. ASSUME Len(bs) = 1
      PROVE  \E id \in ids :
                LET n == Get(after, e, id).node IN
                /\ Exist(after, e, IDIs(id))
                /\ o.how \in {"none", "new"} =>
                      \A c \in Fields(e, bs[1]) \ Immutable(e) : n[c] = bs[1].set[c]
                /\ o.how # "none" /\ id \in IDs(view, e, EveryRow) =>
                      n[o.target] = Get(view, e, id).node[o.target]
  <2>1. r.ids = done.ids /\ done.ids # {}
    BY <1>1, <1>2, <1>9 DEF CreatedIds
  <2>2. PICK s \in after[e] : s.id \in r.ids /\ Left(view, e, bs[1], o, s)
    BY <1>1, <1>2, <1>4, <1>9, <2>1, SingleCreate
  <2>3. PICK id, n : id = s.id /\ n = Get(after, e, id).node
    OBVIOUS
  <2>4. n = Node(e, s) /\ Exist(after, e, IDIs(id))
    BY <1>6, <2>3
  <2>5. o.how \in {"none", "new"} => \A c \in Fields(e, bs[1]) \ Immutable(e) : n[c] = bs[1].set[c]
    BY <2>2, <2>4 DEF Left
  <2>6. ASSUME o.how # "none", id \in IDs(view, e, EveryRow)
        PROVE  n[o.target] = Get(view, e, id).node[o.target]
    <3>1. PICK t \in view[e] : t.id = id
      BY <1>6, <2>6
    <3>2. Get(view, e, id).node = Node(e, t)
      BY <1>6, <3>1
    <3>3. Node(e, s)[o.target] = Node(e, t)[o.target]
      BY <2>2, <2>3, <2>6, <3>1 DEF Left
    <3> QED
      BY <2>4, <3>2, <3>3
  <2>7. id \in ids
    BY <1>6, <2>2, <2>3
  <2> WITNESS id \in ids
  <2> QED
    BY <2>3, <2>4, <2>5, <2>6
<1> QED
  BY <1>4, <1>5, <1>7, <1>8, <1>9 DEF CreatedAsGiven

(* All of it, whether its caller learns so or not. *)
LEMMA AllOfIt ==
    ASSUME Sound, Save \/ SaveFails, hand # NoHand, Outcome.out = "ok", View' = Outcome.view,
           NEW ids, ids \in {Outcome.ids, IDs(View', hand.builders[1].entity, EveryRow)}
    PROVE  DoneAsTold(ids)
<1>1. PICK bs, b, o, p, r, before, after :
         /\ bs = hand.builders /\ b = bs[1] /\ o = hand.conflict /\ p = hand.where
         /\ r = Outcome /\ before = View /\ after = View'
  OBVIOUS
<1>2. hand # NoHand /\ r.out = "ok" /\ after = r.view /\ ids \in {r.ids, IDs(after, b.entity, EveryRow)}
  BY <1>1
<1>3. Consistent(before) /\ Consistent(after)
  BY <1>1, SaveKeeps DEF Sound
<1>4. /\ Len(bs) \in {1, 2} /\ DOMAIN bs = 1..Len(bs) /\ o.how \in {"none", "nothing", "ignore", "new", "set"}
      /\ \A k \in DOMAIN bs : Fits(bs[k]) /\ bs[k].entity = b.entity /\ Resolves(bs[k].entity, o)
  BY <1>1, <1>2 DEF Sound, HandFits
<1>5. Fits(b) /\ Resolves(b.entity, o)
  BY <1>1, <1>4
<1>6. b.entity \in Entity /\ b.op \in {"Create", "Update", "UpdateOne", "Delete", "DeleteOne"}
  BY <1>5 DEF Fits
<1>7. SUFFICES /\ \A e \in Entity \ {b.entity} : after[e] = before[e]
               /\ b.op \in {"Update", "UpdateOne"} => UpdatedAsReported(before, after, b, p)
               /\ b.op = "Create" => CreatedAsGiven(before, after, bs, o, ids)
               /\ b.op \in {"Delete", "DeleteOne"} =>
                     after[b.entity] = before[b.entity] \ Matched(before, b, p)
  BY <1>1 DEF DoneAsTold
<1>8. CASE b.op = "Create"
  <2>1. r = Create(before, bs, o)
    BY <1>1, <1>8 DEF Outcome
  <2>2. ToCreate(bs, o)
    BY <1>1, <1>4, <1>5, <1>6 DEF ToCreate, Creates, Resolves, Updating
  <2>3. b.entity = bs[1].entity
    BY <1>1
  <2>4. /\ \A e \in Entity \ {b.entity} : after[e] = before[e]
        /\ CreatedAsGiven(before, after, bs, o, ids)
    BY <1>2, <1>3, <2>1, <2>2, <2>3, CreatedHonestly
  <2> QED
    BY <1>8, <2>4
<1>9. CASE b.op \in {"Update", "UpdateOne"}
  <2>1. r = Update(before, b, p)
    BY <1>1, <1>9 DEF Outcome
  <2>2. /\ \A e \in Entity \ {b.entity} : after[e] = before[e]
        /\ UpdatedAsReported(before, after, b, p)
    BY <1>2, <1>3, <1>5, <1>9, <2>1, UpdatedHonestly
  <2> QED
    BY <1>9, <2>2
<1>10. CASE b.op \in {"Delete", "DeleteOne"}
  <2>1. r = Delete(before, b, p)
    BY <1>1, <1>10 DEF Outcome
  <2>2. DOMAIN before = Entity
    BY <1>3 DEF Consistent, AreTables
  <2>3. \A e \in Entity : after[e] = IF e = b.entity THEN before[e] \ Matched(before, b, p) ELSE before[e]
    <3>1. Puts(before, b.entity, before[b.entity] \ Matched(before, b, p), r.view)
      BY <1>2, <2>1, DeleteOk
    <3> QED
      BY <1>2, <1>6, <2>2, <3>1 DEF Puts
  <2> QED
    BY <1>6, <1>10, <2>3
<1> QED
  BY <1>6, <1>8, <1>9, <1>10

LEMMA SaveHonest ==
    ASSUME Sound, Save \/ SaveFails
    PROVE  SaveIsHonest
<1>1. PICK all : all = IDs(View', hand.builders[1].entity, EveryRow)
  OBVIOUS
<1>2. CASE last'.out # "ok" /\ (tx.depth = 0 => db' = db)
  BY <1>2 DEF SaveIsHonest
<1>3. CASE /\ (last'.out = "ok" \/ (last'.out = "failed" /\ ReplyLost))
           /\ hand # NoHand /\ Outcome.out = "ok" /\ View' = Outcome.view
           /\ last'.out = "ok" => last'.ids = Outcome.ids
  <2>1. DoneAsTold(Outcome.ids) /\ DoneAsTold(all)
    BY <1>1, <1>3, AllOfIt
  <2>2. CASE last'.out = "ok"
    <3>1. DoneAsTold(last'.ids)
      BY <1>3, <2>1, <2>2
    <3> QED
      BY <2>2, <3>1 DEF SaveIsHonest
  <2>3. CASE last'.out # "ok"
    BY <1>1, <1>3, <2>1, <2>3 DEF SaveIsHonest
  <2> QED
    BY <2>2, <2>3
<1> QED
  BY <1>2, <1>3, SavedOk

(* A Save that returns no error did what its builder was asked and its     *)
(* mutation reports, to the rows it matched or was given and to no other;  *)
(* outside a transaction one that is refused changed nothing, and one that *)
(* failed, the reply of the database lost perhaps, did all of it or        *)
(* nothing.                                                                *)
THEOREM SaveKeepsItsWord == Spec => SaveDoesWhatItSays
<1>1. Init => Sound
  BY InitSound
<1>2. Sound /\ [Next]_vars => Sound'
  BY StepKeeps
<1>3. Sound /\ [Next]_vars => [saves' # saves => SaveIsHonest]_vars
  <2> SUFFICES ASSUME Sound, [Next]_vars, saves' # saves PROVE SaveIsHonest
    OBVIOUS
  <2>1. Save \/ SaveFails
    <3>1. CASE RunInTx \/ ReturnErr \/ ReturnNil
      BY <3>1, TransactionKeeps
    <3>2. CASE \E e \in Entity : TakeSome(e)
      BY <3>2, TakeFits
    <3>3. CASE CallOnField \/ CallOnEdge
      BY <3>3, CallingFits DEF Sound
    <3>4. CASE UNCHANGED vars
      BY <3>4 DEF vars
    <3> QED
      BY <3>1, <3>2, <3>3, <3>4 DEF Next, TakeSome
  <2> QED
    BY <2>1, SaveHonest
<1> QED
  BY <1>1, <1>2, <1>3, PTL DEF Spec, SaveDoesWhatItSays
=============================================================================
