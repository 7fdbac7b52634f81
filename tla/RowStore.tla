------------------------------ MODULE RowStore ------------------------------
(***************************************************************************)
(* The rows of one app and the statements package store runs on them: the  *)
(* boundary domain.RowStore.  A database is a function from row ids to     *)
(* rows; ids are unique over all tables (store.NewID).  What a statement   *)
(* does to rows that reference others is SQLite's, as told by the clauses  *)
(* package materialize writes.                                             *)
(***************************************************************************)
EXTENDS Schema

CONSTANTS
  App,        \* the manifest the app is served with
  Datetimes   \* the texts that are RFC 3339 times

ASSUME AppIsValid == ValidManifest(App)

Null == <<"null">>

Id(n) == <<"id", n>>

Row(e, vals) == [ent |-> e, vals |-> vals]

Fields(e) == App[e].fields

References(e) == {f \in DOMAIN Fields(e) : Fields(e)[f].type = "reference"}

Target(e, f) == (CHOOSE r \in Fields(e)[f].ref : TRUE).target

OnDelete(e, f) == (CHOOSE r \in Fields(e)[f].ref : TRUE).onDelete

Exists(rows, e, i) == i \in DOMAIN rows /\ rows[i].ent = e

\* The values of new, and those of old that new has none for.
Over(new, old) ==
  [f \in DOMAIN new \cup DOMAIN old |-> IF f \in DOMAIN new THEN new[f] ELSE old[f]]

\* A row of an entity has a value in each of its columns.
RowsTyped(rows) ==
  \A i \in DOMAIN rows :
    /\ DOMAIN rows[i] = {"ent", "vals"}
    /\ rows[i].ent \in DOMAIN App
    /\ DOMAIN Fields(rows[i].ent) \subseteq DOMAIN rows[i].vals

-----------------------------------------------------------------------------
(***************************************************************************)
(* Constraints.  The CHECKs are left out: they ask of a value what its     *)
(* coercion has already asked.                                             *)
(***************************************************************************)
ReferencesHold(rows) ==
  \A i \in DOMAIN rows : \A f \in References(rows[i].ent) :
    LET v == rows[i].vals[f] IN v = Null \/ Exists(rows, Target(rows[i].ent, f), v)

UniqueHolds(rows) ==
  \A i, j \in DOMAIN rows :
    i # j /\ rows[i].ent = rows[j].ent =>
      \A f \in UniqueFields(App[rows[i].ent]) :
        rows[i].vals[f] = rows[j].vals[f] => rows[i].vals[f] = Null

RequiredHolds(rows) ==
  \A i \in DOMAIN rows : \A f \in DOMAIN rows[i].vals :
    Fields(rows[i].ent)[f].required => rows[i].vals[f] # Null

\* A mutant: the connection string leaves foreign keys off, as SQLite does.
ForeignKeysOff == FALSE

\* _pragma=foreign_keys(1), on every connection.
ForeignKeysOn == TRUE

\* The error of a statement that would leave these rows: store.classify, then
\* domain.storeOpError.
StatementError(rows) ==
  IF ~RequiredHolds(rows) THEN "internal"
  ELSE IF ~UniqueHolds(rows) \/ (ForeignKeysOn /\ ~ReferencesHold(rows)) THEN "conflict"
  ELSE "none"

-----------------------------------------------------------------------------
(***************************************************************************)
(* Statements.                                                             *)
(***************************************************************************)
InsertRow(rows, i, e, vals) == Over([j \in {i} |-> Row(e, vals)], rows)

\* The columns named, and no other; no row, no change.
UpdateRow(rows, e, i, vals) ==
  IF Exists(rows, e, i) THEN [rows EXCEPT ![i].vals = Over(vals, @)] ELSE rows

Children(rows, i, action) ==
  {j \in DOMAIN rows : \E f \in References(rows[j].ent) :
     rows[j].vals[f] = i /\ OnDelete(rows[j].ent, f) = action}

Cascades(rows) == [k \in DOMAIN rows |-> Children(rows, k, "cascade")]

\* The least set with i that the cascades lead out of nowhere.
Closure(cascades, i) ==
  LET able == {i} \cup UNION {cascades[k] : k \in DOMAIN cascades}
  IN {j \in able :
        \A gone \in SUBSET able :
          i \in gone /\ (\A k \in gone : cascades[k] \subseteq gone) => j \in gone}

\* The rows that go with row i: what refers to one of them with ON DELETE CASCADE does.
Doomed(rows, i) == UNION {Closure(cascades, i) : cascades \in {Cascades(rows)}}

WithoutRows(rows, gone) ==
  [j \in DOMAIN rows \ gone |->
     [rows[j] EXCEPT !.vals =
        [f \in DOMAIN @ |->
           IF f \in References(rows[j].ent) /\ OnDelete(rows[j].ent, f) = "set_null" /\ @[f] \in gone
           THEN Null ELSE @[f]]]]

DeleteRow(rows, e, i) ==
  IF ~Exists(rows, e, i) THEN rows
  ELSE IF ForeignKeysOn THEN WithoutRows(rows, Doomed(rows, i))
  ELSE [j \in DOMAIN rows \ {i} |-> rows[j]]

\* RESTRICT, or SET NULL on a required field.
DeleteError(rows, e, i) ==
  IF /\ Exists(rows, e, i) /\ ForeignKeysOn
     /\ \E k \in Doomed(rows, i) : Children(rows, k, "restrict") # {}
  THEN "conflict"
  ELSE IF \A left \in {DeleteRow(rows, e, i)} : RequiredHolds(left) THEN "none" ELSE "internal"

\* What a filter may say of row i.  A comparison with NULL, on either side, matches
\* nothing.  The order of values, LIKE, and a row's times are left open.
Verdicts(rows, i, q) ==
  LET v == IF q.field \in DOMAIN rows[i].vals THEN rows[i].vals[q.field] ELSE i
  IN IF Null \in {v, q.value} THEN {FALSE}
     ELSE IF q.field \in {"created_at", "updated_at"} \/ q.op \notin {"eq", "ne"} THEN BOOLEAN
     ELSE {v = q.value <=> q.op = "eq"}

\* The sets of rows that AND-combined filters may let through.
Matches(rows, e, filters) ==
  LET able == {i \in DOMAIN rows : rows[i].ent = e}
  IN {found \in SUBSET able :
        \A i \in able : IF i \in found THEN \A q \in filters : TRUE \in Verdicts(rows, i, q)
                                      ELSE \E q \in filters : FALSE \in Verdicts(rows, i, q)}

\* LIMIT and OFFSET.  Ids are random and order what the sort keys leave open, if
\* not all, so that any rows may be those of the page.
Pages(found, limit, offset) ==
  LET left == Cardinality(found) - offset
  IN {page \in SUBSET found :
        Cardinality(page) = IF left < 0 THEN 0 ELSE IF left < limit THEN left ELSE limit}

-----------------------------------------------------------------------------
(***************************************************************************)
(* Coercion of a body (domain.CoerceFieldValue and its callers): field by  *)
(* field, the bodies' values are already the values that would be stored.  *)
(***************************************************************************)
Coerces(f, v) ==
  \/ v = Null
  \/ f.type = "reference"
  \/ IF f.type = "datetime" THEN v \in Datetimes ELSE ValidDefault(f, v)

\* What a list query may name, with the type that its values are coerced to: the
\* fields, and the columns of the platform.
Queryable(e) ==
  Over([f \in DOMAIN Fields(e) |-> Fields(e)[f].type],
       [f \in {"id", "created_at", "updated_at"} |-> IF f = "id" THEN "text" ELSE "datetime"])

\* The values that a list query may compare a column of a type with.
Filterable(type, op, v) ==
  \/ op = "like"
  \/ CASE type = "integer" -> v[1] = "integer"
       [] type = "real" -> v[1] \in {"integer", "real"}
       [] type = "boolean" -> v[1] = "bool"
       [] type = "datetime" -> v \in Datetimes
       [] OTHER -> TRUE

\* What is wrong with a body, apart from the references that must exist.
BodyIssues(fields, body, onCreate) ==
  \/ onCreate /\ \E f \in DOMAIN fields \ DOMAIN body :
                   fields[f].required /\ ~HasDefault(fields[f])
  \/ \E f \in DOMAIN body \cap DOMAIN fields :
       \/ ~Coerces(fields[f], body[f])
       \/ fields[f].required /\ body[f] = Null

\* The values of a body whose existence is checked in the database.
ReferencesIn(fields, body) ==
  {f \in DOMAIN body \cap DOMAIN fields : fields[f].type = "reference" /\ body[f] # Null}

TargetExists(rows, field, i) == \A r \in field.ref : Exists(rows, r.target, i)

\* The values given, the defaults of those that are not, and otherwise NULL.
Completed(fields, body) ==
  Over(body, [f \in DOMAIN fields |->
                IF HasDefault(fields[f]) THEN CHOOSE d \in fields[f].default : TRUE ELSE Null])
=============================================================================
