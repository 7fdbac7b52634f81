---------------------------- MODULE RowMigration ----------------------------
(***************************************************************************)
(* Evolution, with rows: what the executor does to the values of an app    *)
(* that migrates from manifest to manifest while rows are added.  Native   *)
(* operations, the INSERT ... SELECT of a table rebuild with its witness   *)
(* expressions, the guard of coerce=fail, and what SQLite makes of each:   *)
(* CAST, column affinity, comparison, NOT NULL, CHECKs, unique indexes and *)
(* the foreign key check before the commit.                                *)
(*                                                                         *)
(* A row is a function from field ids to stored values.  Its id is a text, *)
(* as a reference to it is.                                                *)
(***************************************************************************)
EXTENDS Evolution

CONSTANTS
  RowWitnesses,   \* the witnesses an operator may supply, with their values
  Numerals,       \* the texts that are numbers as a whole
  Leading,        \* a text -> the number it begins with, in quarters, if that is no integer
  Rendered,       \* a value -> the text SQL and Go make of it
  RowIds,
  MaxRows         \* bound on the rows

ASSUME MaxRowsIsNatural == MaxRows \in Nat

\* What a column holds: NULL, a number, or a text with the integer a CAST finds in it.
IsNumeric(v) == v[1] \in {"integer", "real"} /\ v = <<v[1], v[2]>> /\ v[2] \in Int
IsText(v) == v[1] = "text" /\ v[3] \in Int
IsBool(v) == v \in {Bool(TRUE), Bool(FALSE)}
Storable(v) == v = Null \/ IsNumeric(v) \/ IsText(v)

ASSUME NumeralsAreTexts == \A v \in Numerals : IsText(v)
ASSUME LeadingNumbers == \A v \in DOMAIN Leading : Leading[v] \in Int
ASSUME ValuesAreStorable == \A v \in Values : Storable(v)
ASSUME RowIdsAreTexts == \A i \in RowIds : IsText(i)

\* The manifest and the witnesses are JSON: enum values are strings, defaults and
\* backfills scalars; selectExpr refuses a mode that is none of the three.
ASSUME MembersAreValues ==
  \A m \in Manifests : \A e \in DOMAIN m : \A f \in DOMAIN m[e].fields :
    /\ \A v \in m[e].fields[f].values : IsText(v)
    /\ \A v \in m[e].fields[f].default : Storable(v) \/ IsBool(v)
ASSUME WitnessesAreValues ==
  \A witnesses \in RowWitnesses : \A f \in DOMAIN witnesses :
    /\ Storable(witnesses[f].value) \/ IsBool(witnesses[f].value)
    /\ \A v \in DOMAIN witnesses[f].remap : IsText(v) /\ IsText(witnesses[f].remap[v])
    /\ witnesses[f].kind = "coerce" => witnesses[f].mode \in {"truncate", "round", "fail"}

VARIABLES
  rows,    \* entity -> row id -> row
  typed    \* history: every backfill so far was a value of its field's type

rowVars == <<manifest, tables, fingerprint, rows, typed>>

NoWitnesses == [f \in {} |-> Null]

RowInit ==
  /\ Init
  /\ rows = [e \in DOMAIN manifest |-> [i \in {} |-> Null]]
  /\ typed = TRUE

-----------------------------------------------------------------------------
(***************************************************************************)
(* SQLite's conversions.                                                   *)
(***************************************************************************)
\* The number a value is or begins with, in quarters.
Quarters(v) ==
  CASE v[1] = "integer" -> 4 * v[2]
    [] v[1] = "real" -> v[2]
    [] OTHER -> IF v \in DOMAIN Leading THEN Leading[v] ELSE 4 * v[3]

\* The text of a number is a numeral of its value.
ASSUME RenderedIsExact ==
  \A v \in DOMAIN Rendered :
    /\ IsText(Rendered[v])
    /\ IsNumeric(v) => Rendered[v] \in Numerals /\ Quarters(Rendered[v]) = Quarters(v)

Truncate(q) == IF q >= 0 THEN q \div 4 ELSE -((-q) \div 4)

\* round() goes away from zero.
Round(q) == IF q >= 0 THEN (q + 2) \div 4 ELSE -((2 - q) \div 4)

\* CAST of a text to INTEGER stops at its longest integer prefix: '1e2' becomes 1.
WholePart(v) == IF v[1] = "text" THEN v[3] ELSE Truncate(Quarters(v))

Cast(v, affinity) ==
  IF v = Null THEN Null
  ELSE CASE affinity = "INTEGER" -> Integer(WholePart(v))
         [] affinity = "REAL" -> Real(Quarters(v))
         [] OTHER -> IF v[1] = "text" THEN v ELSE Rendered[v]

IsNumber(v) == v[1] \in {"integer", "real"} \/ v \in Numerals

\* What a column of this affinity stores.
WithAffinity(affinity, v) ==
  IF affinity = "TEXT" THEN Cast(v, "TEXT")
  ELSE IF ~IsNumber(v) THEN v
  ELSE IF affinity = "INTEGER" /\ Quarters(v) % 4 = 0 THEN Integer(Quarters(v) \div 4)
  ELSE Real(Quarters(v))

\* What <> compares when one side has a numeric affinity.
Comparable(v) == IF IsNumber(v) THEN <<"number", Quarters(v)>> ELSE v

-----------------------------------------------------------------------------
(***************************************************************************)
(* witness.go: the expressions of a rebuild.                               *)
(***************************************************************************)
SqlLiteral(v, type) ==
  CASE v = Null -> Null
    [] type = "integer" /\ v[1] \in {"integer", "real"} -> Integer(Truncate(Quarters(v)))
    [] type = "real" /\ v[1] \in {"integer", "real"} -> Real(Quarters(v))
    [] type = "boolean" /\ v[1] = "bool" -> Integer(IF v[2] THEN 1 ELSE 0)
    [] OTHER -> IF v[1] = "text" THEN v ELSE Rendered[v]

\* A mutant: CoerceRound is not told from CoerceTruncate.
CoerceByCast(v, type, mode) == IF mode = "fail" \/ v = Null THEN v ELSE Cast(v, Affinity(type))

CoerceExpr(v, type, mode) ==
  CASE mode = "fail" \/ v = Null -> v
    [] v # Null /\ mode = "round" /\ type = "integer" -> Integer(Round(Quarters(v)))
    [] OTHER -> Cast(v, Affinity(type))

LossGuard(v, type) == v # Null /\ Comparable(v) # Comparable(Cast(v, Affinity(type)))

RemapExpr(v, w) == IF v \in DOMAIN w.remap THEN w.remap[v] ELSE v

\* A mutant: the column is copied without its COALESCE.
CoalesceNothing(v, w, type) == v

Coalesce(v, w, type) == IF v = Null THEN SqlLiteral(w.value, type) ELSE v

\* Operations carry the witnesses: one for a field that does not change is lost.
Carried(oe, ne, witnesses) ==
  [f \in DOMAIN witnesses \cap {op.field : op \in DiffEntity("", oe, ne)} |-> witnesses[f]]

WitnessOf(f, witnesses) == IF f \in DOMAIN witnesses THEN {witnesses[f]} ELSE {}

OfKind(f, witnesses, kind) == {w \in WitnessOf(f, witnesses) : w.kind = kind}

\* A field that is new to its table.
FilledIn(f, new, witnesses) ==
  IF HasDefault(new) THEN SqlLiteral(CHOOSE v \in new.default : TRUE, new.type)
  ELSE IF new.required
  THEN SqlLiteral((CHOOSE w \in WitnessOf(f, witnesses) : TRUE).value, new.type)
  ELSE Null

SelectExpr(f, v, old, new, witnesses) ==
  LET witness == CHOOSE w \in WitnessOf(f, witnesses) : TRUE
      remapped == IF new.type = "enum" /\ OfKind(f, witnesses, "remap") # {}
                  THEN RemapExpr(v, witness) ELSE v
  IN CASE old.type = new.type ->
            IF new.required /\ ~old.required THEN Coalesce(remapped, witness, new.type) ELSE remapped
       [] IsWidening(old.type, new.type) -> v
       [] OTHER -> CoerceExpr(v, new.type, witness.mode)

-----------------------------------------------------------------------------
(***************************************************************************)
(* execute.go: the rows of the migrated tables.                            *)
(***************************************************************************)
RebuiltRow(row, oe, ne, carried) ==
  [f \in DOMAIN ne.fields |->
     LET new == ne.fields[f]
         value == IF f \in DOMAIN oe.fields
                  THEN SelectExpr(f, row[f], oe.fields[f], new, carried)
                  ELSE FilledIn(f, new, carried)
     IN WithAffinity(Affinity(new.type), value)]

NativeRow(row, oe, ne) ==
  [f \in DOMAIN ne.fields |->
     LET new == ne.fields[f]
     IN IF f \in DOMAIN oe.fields THEN row[f]
        ELSE IF HasDefault(new)
        THEN WithAffinity(Affinity(new.type), SqlLiteral(CHOOSE v \in new.default : TRUE, new.type))
        ELSE Null]

MigratedRow(row, oe, ne, carried) ==
  IF NeedsRebuild(oe, ne) THEN RebuiltRow(row, oe, ne, carried) ELSE NativeRow(row, oe, ne)

\* Entities whose old table is dropped while the database has another in its place.
RebuiltEntities(old, new) == {e \in Kept(old, new) : NeedsRebuild(old[e], new[e])}

\* A mutant: RunMigration does not turn foreign keys off, and DROP TABLE deletes
\* the rows first.
CascadingRows(e, db, old, new) ==
  {i \in DOMAIN db[e] : \E f \in DOMAIN old[e].fields : \E r \in old[e].fields[f].ref :
     r.target \in RebuiltEntities(old, new) /\ r.onDelete = "cascade" /\ db[e][i][f] # Null}

\* Foreign keys are off: no row goes with a table that is dropped.
DroppedWithTable(e, db, old, new) == {i \in DOMAIN db[e] : FALSE}

MigratedRows(db, old, new, witnesses) ==
  [e \in DOMAIN new |->
     IF e \notin DOMAIN old THEN [i \in {} |-> Null]
     ELSE LET carried == Carried(old[e], new[e], witnesses)
          IN [i \in DOMAIN db[e] \ DroppedWithTable(e, db, old, new) |->
                MigratedRow(db[e][i], old[e], new[e], carried)]]

-----------------------------------------------------------------------------
(***************************************************************************)
(* What makes the transaction fail, rows being what they are.              *)
(***************************************************************************)
EnforceCoerceFail(db, old, new, witnesses) ==
  \A e \in RebuiltEntities(old, new) :
    \A f \in KeptFields(old[e], new[e]) :
      LET type == new[e].fields[f].type
      IN (type # old[e].fields[f].type /\ {w \in OfKind(f, witnesses, "coerce") : w.mode = "fail"} # {})
         => \A i \in DOMAIN db[e] : ~LossGuard(db[e][i][f], type)

ChecksHold(col, v) ==
  IF v = Null THEN ~col.notNull ELSE \A check \in col.checks : Satisfies(col.affinity, v, check)

\* NOT NULL and CHECKs of the rebuilt tables and the added columns.
CheckedColumns(e, old, new) ==
  IF e \notin DOMAIN old THEN {}
  ELSE IF NeedsRebuild(old[e], new[e]) THEN DOMAIN new[e].fields
  ELSE AddedFields(old[e], new[e])

ColumnsHold(db, defs, old, new) ==
  \A e \in DOMAIN new : \A f \in CheckedColumns(e, old, new) : \A i \in DOMAIN db[e] :
    ChecksHold(defs[e].cols[f], db[e][i][f])

\* Creating a unique index fails on rows that share a value.
IndexesHold(db, defs) ==
  \A e \in DOMAIN db : \A f \in defs[e].unique : \A i, j \in DOMAIN db[e] :
    db[e][i][f] # Null /\ db[e][i][f] = db[e][j][f] => i = j

\* A mutant: foreign_key_check is read as an error of the statement only.
UncheckedForeignKeys(db, defs) == DOMAIN db = DOMAIN defs

ForeignKeyCheck(db, defs) ==
  \A e \in DOMAIN db : \A f \in DOMAIN defs[e].cols : \A r \in defs[e].cols[f].fk :
    \A i \in DOMAIN db[e] : db[e][i][f] # Null => db[e][i][f] \in DOMAIN db[r.target]

RowsAccepted(db, old, new, witnesses) ==
  LET after == MigratedRows(db, old, new, witnesses)
      defs == ApplyChangeset(tables, old, new)
  IN /\ EnforceCoerceFail(db, old, new, witnesses)
     /\ ColumnsHold(after, defs, old, new)
     /\ IndexesHold(after, defs)
     /\ ForeignKeyCheck(after, defs)

Kinds(witnesses) == [f \in DOMAIN witnesses |-> witnesses[f].kind]

\* The gate lets the changeset through, and its transaction commits.
Runs(new, witnesses) ==
  /\ Admitted(manifest, new, Kinds(witnesses))
  /\ ~ChangesetRefused(tables, manifest, new)
  /\ RowsAccepted(rows, manifest, new, witnesses)

(***************************************************************************)
(* Neither the gate nor the SQL of a rebuild looks at the type of a        *)
(* backfill: {"backfill": "abc"} for an integer field is stored as it is.  *)
(* The variable typed records whether that has happened.                   *)
(***************************************************************************)
Suits(type, value) ==
  /\ type \in {"integer", "real"} => value[1] \in {"integer", "real"}
  /\ type = "boolean" => value[1] = "bool"

\* The fields whose rows are given the value of a backfill.
Backfilled(oe, ne) ==
  {f \in DOMAIN ne.fields :
     /\ ne.fields[f].required
     /\ IF f \in DOMAIN oe.fields THEN ~oe.fields[f].required ELSE ~HasDefault(ne.fields[f])}

WellTyped(old, new, witnesses) ==
  \A e \in Kept(old, new) : \A f \in Backfilled(old[e], new[e]) \cap DOMAIN witnesses :
    witnesses[f].kind = "backfill" => Suits(new[e].fields[f].type, witnesses[f].value)

\* migrate.Apply.
MigrateRows(new, witnesses) ==
  /\ Migrate(new, Kinds(witnesses))
  /\ IF AllNoSQL(manifest, new) THEN UNCHANGED <<rows, typed>>
     ELSE /\ Runs(new, witnesses)
          /\ rows' = MigratedRows(rows, manifest, new, witnesses)
          /\ typed' = (typed /\ WellTyped(manifest, new, witnesses))

-----------------------------------------------------------------------------
(***************************************************************************)
(* Rows come by create, which module Runtime has in detail.                *)
(***************************************************************************)
AllIds == UNION {DOMAIN rows[e] : e \in DOMAIN rows}

Insert(e, i, row) ==
  /\ Cardinality(AllIds) < MaxRows /\ i \notin AllIds
  /\ \A f \in DOMAIN row : Admits(tables[e].cols[f], row[f])
  /\ rows' = [rows EXCEPT ![e] = [j \in DOMAIN @ \cup {i} |-> IF j = i THEN row ELSE @[j]]]
  /\ IndexesHold(rows', tables) /\ ForeignKeyCheck(rows', tables)
  /\ UNCHANGED <<manifest, tables, fingerprint, typed>>

RowNext ==
  \/ \E new \in Manifests, witnesses \in RowWitnesses : MigrateRows(new, witnesses)
  \/ \E e \in DOMAIN manifest, i \in RowIds :
       \E row \in [DOMAIN manifest[e].fields -> Values \cup RowIds \cup {Null}] : Insert(e, i, row)

RowSpec == RowInit /\ [][RowNext]_rowVars

-----------------------------------------------------------------------------
(***************************************************************************)
(* Reference definition: what the comments of witness.go declare a witness *)
(* to mean, value by value, without SQL.                                   *)
(***************************************************************************)
\* No other integer is nearer to a number of quarters.
IsNearest(q, n) == 4 * n - q \in -2..2

\* The number without its fractional part.
IsCut(q, n) == IF q >= 0 THEN q - 4 * n \in 0..3 ELSE 4 * n - q \in 0..3

\* "drops the fractional part [...] or otherwise takes the value's representable
\* prefix" (witness.go:53-54).
IsWholeOf(v, n) == IF v[1] = "text" THEN n = v[3] ELSE IsCut(Quarters(v), n)

\* A boolean is truncated under round too, though "CoerceRound rounds to the nearest
\* representable value" (witness.go:56).
Coerced(v, w, type, after) ==
  IF v = Null THEN after = Null
  ELSE /\ w.mode = "fail" \/ Affinity(type) = "TEXT" => Comparable(after) = Comparable(v)
       /\ w.mode # "fail" /\ type = "real" => after = Real(Quarters(v))
       /\ w.mode # "fail" /\ Affinity(type) = "INTEGER" =>
            /\ after = Integer(after[2])
            /\ IF w.mode = "round" /\ type = "integer" THEN IsNearest(Quarters(v), after[2])
               ELSE IsWholeOf(v, after[2])

\* A value of a field that stays: only a rebuild rewrites values.
Maps(f, v, old, new, witnesses, rebuilt, after) ==
  LET remap == {w \in OfKind(f, witnesses, "remap") :
                  rebuilt /\ new.type = "enum" /\ v \in DOMAIN w.remap}
  IN /\ IsWidening(old.type, new.type) => Comparable(after) = Comparable(v)
     /\ old.type # new.type /\ ~IsWidening(old.type, new.type) =>
          \E w \in OfKind(f, witnesses, "coerce") : Coerced(v, w, new.type, after)
     /\ old.type = new.type /\ v = Null =>
          IF new.required
          THEN \E w \in OfKind(f, witnesses, "backfill") :
                 after = WithAffinity(Affinity(new.type), SqlLiteral(w.value, new.type))
          ELSE after = Null
     /\ old.type = new.type /\ v # Null =>
          IF remap # {} THEN \E w \in remap : after = w.remap[v]
          ELSE after = v /\ (new.type = "enum" => v \in new.values)

-----------------------------------------------------------------------------
(***************************************************************************)
(* Properties.                                                             *)
(***************************************************************************)
\* Every row of an entity that stays is there after a migration, whatever table
\* was rebuilt, and nothing else is: rows of other entities that refer to it, with
\* ON DELETE CASCADE too, and rows of its own (store.go:293-299).
RowsKept ==
  [][manifest' # manifest =>
       \A e \in DOMAIN manifest' :
         DOMAIN rows'[e] = IF e \in DOMAIN manifest THEN DOMAIN rows[e] ELSE {}]_rowVars

\* Each value a migration would leave is what the witness of its field is declared to
\* make of the value before: truncated, rounded to the nearest, unchanged as a number
\* or the migration fails, backfilled where it was null, remapped where its enum
\* value went; and the values of all other fields are as they were (witness.go:10-60).
ValuesMapAsDeclared ==
  \A new \in Manifests, witnesses \in RowWitnesses :
    Runs(new, witnesses) =>
      LET after == MigratedRows(rows, manifest, new, witnesses)
      IN \A e \in Kept(manifest, new) :
           LET carried == Carried(manifest[e], new[e], witnesses)
           IN \A f \in KeptFields(manifest[e], new[e]) :
                \A i \in DOMAIN rows[e] \cap DOMAIN after[e] :
                  Maps(f, rows[e][i][f], manifest[e].fields[f], new[e].fields[f],
                       carried, NeedsRebuild(manifest[e], new[e]), after[e][i][f])

Holds(f, v) ==
  IF v = Null THEN ~f.required
  ELSE /\ CASE f.type \in {"integer", "boolean"} -> v[1] = "integer"
            [] f.type = "real" -> v[1] = "real"
            [] OTHER -> v[1] = "text"
       /\ f.type \in {"text", "integer", "real"} => InBounds(f, v)
       /\ f.type = "boolean" => v[2] \in {0, 1}
       /\ f.type = "enum" => v \in f.values

\* "a SQL literal appropriate to a field type. Used for an added field's default and
\* for a backfill witness value" (witness.go:108-109): however many migrations led to
\* it, the rows are rows of the manifest the app has now, each value of its field's
\* type, within its bounds and its enum, required ones there, unique ones different,
\* references to rows of their target.
StoredRowsHold ==
  \A e \in DOMAIN manifest : \A f \in DOMAIN manifest[e].fields :
    LET field == manifest[e].fields[f]
    IN \A i \in DOMAIN rows[e] :
         LET v == rows[e][i][f]
         IN /\ Holds(field, v)
            /\ \A r \in field.ref : v # Null => v \in DOMAIN rows[r.target]
            /\ field.unique /\ v # Null =>
                 \A j \in DOMAIN rows[e] : rows[e][j][f] = v => i = j

\* The same, as long as every backfill was a value of its field's type: narrowings,
\* remaps, defaults, backfills and rebuilt tables, in any order, keep the rows what
\* the manifest says they are (execute.go:199-317, witness.go:110-183).
TypedRowsHold == typed => StoredRowsHold

\* "can every existing row map forward with no loss and no ambiguity? Yes -> safe"
\* (classify.go:12-15): with the rows there are, a changeset without a destructive
\* operation runs, needing no witness.
SafeChangesetsRun ==
  \A new \in Manifests :
    ~HasDestructive(manifest, new) /\ ~ChangesetRefused(tables, manifest, new)
      => RowsAccepted(rows, manifest, new, NoWitnesses)

\* "the value to write into rows that are currently null" (witness.go:19-20): with
\* every witness given, no migration fails for a null in a field that becomes
\* required; but where the field widens too, the code drops the witness.
BackfillsNulls ==
  \A new \in Manifests : \A witnesses \in RowWitnesses :
    /\ Admitted(manifest, new, Kinds(witnesses))
    /\ ~ChangesetRefused(tables, manifest, new)
    => LET after == MigratedRows(rows, manifest, new, witnesses)
       IN \A e \in Kept(manifest, new) : \A f \in KeptFields(manifest[e], new[e]) :
            /\ new[e].fields[f].required
            /\ ~IsWidening(manifest[e].fields[f].type, new[e].fields[f].type)
            => \A i \in DOMAIN after[e] : after[e][i][f] # Null
=============================================================================
