----------------------------- MODULE Changeset -----------------------------
(***************************************************************************)
(* Package migrate's pure half: Diff, Classify and the witness gate, and   *)
(* what applyChangeset does to the schema of the database it runs against. *)
(* A changeset is a set of operations: its order only orders statements of *)
(* one transaction, none of which reads what another writes.               *)
(***************************************************************************)
EXTENDS Schema

FieldOpKinds == {"rename_field", "change_type", "change_required", "change_unique",
                 "change_enum", "change_reference"}

Operation(kind, entity, field) == [kind |-> kind, entity |-> entity, field |-> field]

\* The independent dimensions along which a field differs.  Min, Max and
\* Default are not among them.
FieldChanges(of, nf) ==
  {k \in FieldOpKinds :
     \/ k = "rename_field" /\ of.name # nf.name
     \/ k = "change_type" /\ of.type # nf.type
     \/ k = "change_required" /\ of.required # nf.required
     \/ k = "change_unique" /\ of.unique # nf.unique
     \/ /\ k = "change_enum"
        /\ of.type = "enum" /\ nf.type = "enum" /\ of.values # nf.values
     \/ /\ k = "change_reference"
        /\ of.type = "reference" /\ nf.type = "reference" /\ of.ref # nf.ref}

AddedFields(oe, ne) == DOMAIN ne.fields \ DOMAIN oe.fields
DroppedFields(oe, ne) == DOMAIN oe.fields \ DOMAIN ne.fields
KeptFields(oe, ne) == DOMAIN oe.fields \cap DOMAIN ne.fields

DiffEntity(e, oe, ne) ==
  {Operation(k, e, "") : k \in {k \in {"rename_entity"} : oe.name # ne.name}}
  \cup {Operation("add_field", e, f) : f \in AddedFields(oe, ne)}
  \cup (UNION {{Operation(k, e, f) : k \in FieldChanges(oe.fields[f], ne.fields[f])}
                 : f \in KeptFields(oe, ne)})
  \cup {Operation("drop_field", e, f) : f \in DroppedFields(oe, ne)}

Added(old, new) == DOMAIN new \ DOMAIN old
Dropped(old, new) == DOMAIN old \ DOMAIN new
Kept(old, new) == DOMAIN old \cap DOMAIN new

Diff(old, new) ==
  {Operation("add_entity", e, "") : e \in Added(old, new)}
  \cup (UNION {DiffEntity(e, old[e], new[e]) : e \in Kept(old, new)})
  \cup {Operation("drop_entity", e, "") : e \in Dropped(old, new)}

IsEmpty(old, new) == Diff(old, new) = {}

-----------------------------------------------------------------------------
(***************************************************************************)
(* Classification.  before and after are the field's two shapes.           *)
(***************************************************************************)
\* A mutant: a real narrowed to an integer passes for a widening too.
EitherNumber(from, to) == {from, to} = {"integer", "real"}

IsWidening(from, to) == from = "integer" /\ to = "real"

EnumRemovedValues(before, after) == before.values \ after.values # {}

\* A new column existing rows cannot fill without a backfill.
NeedsBackfill(f) == f.required /\ ~HasDefault(f)

\* A mutant: whatever needs no witness is taken to be safe, drops with it.
ClassifyByWitness(op, old, new) ==
  LET before == old[op.entity].fields[op.field]
      after == new[op.entity].fields[op.field]
  IN IF \/ op.kind = "change_type" /\ ~IsWidening(before.type, after.type)
        \/ op.kind = "change_required" /\ after.required
        \/ op.kind = "add_field" /\ NeedsBackfill(after)
     THEN "destructive" ELSE "safe"

Classify(op, old, new) ==
  LET before == old[op.entity].fields[op.field]
      after == new[op.entity].fields[op.field]
      safe == \/ op.kind \in {"add_entity", "rename_entity", "rename_field"}
              \/ op.kind = "add_field" /\ ~NeedsBackfill(after)
              \/ op.kind = "change_type" /\ IsWidening(before.type, after.type)
              \/ op.kind = "change_required" /\ before.required /\ ~after.required
              \/ op.kind = "change_unique" /\ before.unique /\ ~after.unique
              \/ op.kind = "change_enum" /\ ~EnumRemovedValues(before, after)
  IN IF safe THEN "safe" ELSE "destructive"

Destructive(old, new) == {op \in Diff(old, new) : Classify(op, old, new) = "destructive"}

HasDestructive(old, new) == Destructive(old, new) # {}

-----------------------------------------------------------------------------
(***************************************************************************)
(* The witness gate.  A set of witnesses is a function from field ids to   *)
(* witness kinds: one witness per field id, whatever the entity and        *)
(* however many of the field's operations need one.                        *)
(***************************************************************************)
WitnessKinds == {"coerce", "backfill", "remap"}

WitnessNeeded(op, old, new) ==
  LET before == old[op.entity].fields[op.field]
      after == new[op.entity].fields[op.field]
  IN CASE op.kind = "change_type" /\ ~IsWidening(before.type, after.type) -> {"coerce"}
       [] op.kind = "change_required" /\ ~before.required /\ after.required -> {"backfill"}
       [] op.kind = "add_field" /\ NeedsBackfill(after) -> {"backfill"}
       [] OTHER -> {}

Witness(op, witnesses) ==
  {witnesses[f] : f \in {op.field} \cap DOMAIN witnesses}

MissingWitnesses(old, new, witnesses) ==
  {op \in Diff(old, new) :
     LET need == WitnessNeeded(op, old, new)
     IN need # {} /\ Witness(op, witnesses) # need}

-----------------------------------------------------------------------------
(***************************************************************************)
(* Execution, as it changes the schema of the database.                    *)
(***************************************************************************)

\* A mutant: a change of uniqueness passes for one that needs no SQL.
AllButShape(old, new) ==
  \A op \in Diff(old, new) :
    op.kind \in {"rename_entity", "rename_field", "change_unique"}

\* Only renames: Execute opens no transaction and writes no fingerprint.
AllNoSQL(old, new) ==
  \A op \in Diff(old, new) : op.kind \in {"rename_entity", "rename_field"}

RebuildKinds == {"change_type", "change_required", "change_enum", "change_reference"}

\* A mutant: a change of type keeps the column as it is.
NeedsRebuildButForType(oe, ne) ==
  \/ \E f \in KeptFields(oe, ne) :
       FieldChanges(oe.fields[f], ne.fields[f]) \cap (RebuildKinds \ {"change_type"}) # {}
  \/ \E f \in AddedFields(oe, ne) : NeedsBackfill(ne.fields[f])

NeedsRebuild(oe, ne) ==
  \/ \E f \in KeptFields(oe, ne) : FieldChanges(oe.fields[f], ne.fields[f]) \cap RebuildKinds # {}
  \/ \E f \in AddedFields(oe, ne) : NeedsBackfill(ne.fields[f])

\* What Diff takes for granted: a field keeps its bounds, unless its table is rebuilt.
BoundsAgree(old, new) ==
  \A e \in Kept(old, new) :
    ~NeedsRebuild(old[e], new[e]) =>
      \A f \in KeptFields(old[e], new[e]) :
        LET before == old[e].fields[f]
            after == new[e].fields[f]
        IN before.min = after.min /\ before.max = after.max

\* What Classify takes for granted: a changeset of safe operations tightens no bound,
\* and gives no field that is new and unique a default.
NothingTightened(old, new) ==
  ~HasDestructive(old, new) =>
    \A e \in Kept(old, new) :
      /\ \A f \in KeptFields(old[e], new[e]) :
           /\ new[e].fields[f].min \subseteq old[e].fields[f].min
           /\ new[e].fields[f].max \subseteq old[e].fields[f].max
      /\ \A f \in AddedFields(old[e], new[e]) : new[e].fields[f].unique => ~HasDefault(new[e].fields[f])

AddColumn(f) == [ColumnDef(f, TRUE) EXCEPT !.dflt = f.default]

\* A mutant: an index outlives the uniqueness it enforces.
NativeTableKeepsIndexes(table, oe, ne) ==
  LET added == AddedFields(oe, ne)
  IN [cols |-> [f \in (DOMAIN table.cols \cup added) \ DroppedFields(oe, ne) |->
                  IF f \in added THEN AddColumn(ne.fields[f]) ELSE table.cols[f]],
      unique |-> table.unique \cup UniqueFields(ne)]

\* A mutant: the index of a field that becomes unique is left to the next boot.
NativeTableDefersIndexes(table, oe, ne) ==
  LET added == AddedFields(oe, ne)
  IN [cols |-> [f \in (DOMAIN table.cols \cup added) \ DroppedFields(oe, ne) |->
                  IF f \in added THEN AddColumn(ne.fields[f]) ELSE table.cols[f]],
      unique |-> table.unique \cap UniqueFields(ne)]

\* ALTER TABLE ... ADD / DROP COLUMN and the unique indexes.
NativeTable(table, oe, ne) ==
  LET dropped == DroppedFields(oe, ne)
      added == AddedFields(oe, ne)
      unindexed == {f \in KeptFields(oe, ne) : oe.fields[f].unique /\ ~ne.fields[f].unique}
      indexed == {f \in added : ne.fields[f].unique}
                 \cup {f \in KeptFields(oe, ne) : ~oe.fields[f].unique /\ ne.fields[f].unique}
  IN [cols |-> [f \in (DOMAIN table.cols \cup added) \ dropped |->
                  IF f \in added THEN AddColumn(ne.fields[f]) ELSE table.cols[f]],
      unique |-> (table.unique \cup indexed) \ unindexed]

\* SQLite refuses a native operation: a column that is there already, a
\* column that is not there, an index that is not there, and DROP COLUMN of a
\* column that a unique index or a table-level foreign key mentions.
NativeRefused(table, oe, ne) ==
  \/ AddedFields(oe, ne) \cap DOMAIN table.cols # {}
  \/ \E f \in DroppedFields(oe, ne) :
       \/ f \notin DOMAIN table.cols
       \/ f \in table.unique
       \/ table.cols[f].fk # {} /\ ~table.cols[f].inline
  \/ \E f \in KeptFields(oe, ne) :
       oe.fields[f].unique /\ ~ne.fields[f].unique /\ f \notin table.unique

\* The table at its new shape, filled from the old one, under its name.
RebuiltTable(ent) == TableDDL(ent)

MigratedTable(e, table, old, new) ==
  IF DiffEntity(e, old[e], new[e]) = {} THEN table
  ELSE IF NeedsRebuild(old[e], new[e]) THEN RebuiltTable(new[e])
  ELSE NativeTable(table, old[e], new[e])

\* CREATE TABLE IF NOT EXISTS and its indexes: a table already under that name
\* keeps the columns it has.
CreateEntity(e, tables, ent) ==
  IF e \in DOMAIN tables THEN [tables[e] EXCEPT !.unique = @ \cup UniqueFields(ent)]
  ELSE TableDDL(ent)

ApplyChangeset(tables, old, new) ==
  [e \in (DOMAIN tables \cup Added(old, new)) \ Dropped(old, new) |->
     CASE e \in Added(old, new) -> CreateEntity(e, tables, new[e])
       [] e \in Kept(old, new) -> MigratedTable(e, tables[e], old, new)
       [] OTHER -> tables[e]]

\* What CREATE TABLE IF NOT EXISTS takes for granted: a table that is there
\* already has the columns it would have made.
AdoptionsFit(tables, old, new) ==
  \A e \in Added(old, new) \cap DOMAIN tables : ColumnsEnforce(tables[e], new[e])

\* The transaction cannot succeed, whatever the rows are.
ChangesetRefused(tables, old, new) ==
  \/ \E e \in Added(old, new) \cap DOMAIN tables :
       ~(UniqueFields(new[e]) \subseteq DOMAIN tables[e].cols)
  \/ \E e \in Kept(old, new) :
       /\ DiffEntity(e, old[e], new[e]) # {}
       /\ \/ e \notin DOMAIN tables
          \/ ~NeedsRebuild(old[e], new[e]) /\ NativeRefused(tables[e], old[e], new[e])
          \/ /\ NeedsRebuild(old[e], new[e])
             /\ ~(KeptFields(old[e], new[e]) \subseteq DOMAIN tables[e].cols)
  \/ ~(Dropped(old, new) \subseteq DOMAIN tables)
=============================================================================
