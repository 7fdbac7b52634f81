-------------------------- MODULE ChangesetProofs --------------------------
(***************************************************************************)
(* What the changeset engine does to a database schema, for every pair of  *)
(* valid manifests.  The native path, the rebuild, CREATE TABLE and the    *)
(* path without SQL are four ways to the same place: a database that       *)
(* enforces the old manifest enforces the new one afterwards.              *)
(*                                                                         *)
(* Diff does not compare bounds, so all of it is under BoundsAgree: only a *)
(* table that is rebuilt may change them.                                  *)
(***************************************************************************)
EXTENDS Changeset, TLAPS

-----------------------------------------------------------------------------
(***************************************************************************)
(* Diff leaves nothing out.                                                *)
(***************************************************************************)
\* An entity that comes or goes is an operation.
LEMMA EntityOperations ==
  ASSUME NEW old, NEW new
  PROVE  /\ \A e \in Added(old, new) : Operation("add_entity", e, "") \in Diff(old, new)
         /\ \A e \in Dropped(old, new) : Operation("drop_entity", e, "") \in Diff(old, new)
BY DEF Diff

\* So is every difference of an entity that stays.
LEMMA KeptOperations ==
  ASSUME NEW old, NEW new, NEW e \in Kept(old, new)
  PROVE  DiffEntity(e, old[e], new[e]) \subseteq Diff(old, new)
BY DEF Diff

\* The operations on the fields of one entity.
LEMMA FieldOperations ==
  ASSUME NEW e, NEW oe, NEW ne
  PROVE  /\ \A f \in AddedFields(oe, ne) : Operation("add_field", e, f) \in DiffEntity(e, oe, ne)
         /\ \A f \in DroppedFields(oe, ne) : Operation("drop_field", e, f) \in DiffEntity(e, oe, ne)
         /\ \A f \in KeptFields(oe, ne) : \A k \in FieldChanges(oe.fields[f], ne.fields[f]) :
              Operation(k, e, f) \in DiffEntity(e, oe, ne)
<1>1. \A f \in AddedFields(oe, ne) : Operation("add_field", e, f) \in DiffEntity(e, oe, ne)
  BY DEF DiffEntity
<1>2. \A f \in DroppedFields(oe, ne) : Operation("drop_field", e, f) \in DiffEntity(e, oe, ne)
  BY DEF DiffEntity
<1>3. \A f \in KeptFields(oe, ne) : \A k \in FieldChanges(oe.fields[f], ne.fields[f]) :
        Operation(k, e, f) \in DiffEntity(e, oe, ne)
  <2> DEFINE changes(f) == {Operation(k, e, f) : k \in FieldChanges(oe.fields[f], ne.fields[f])}
  <2>1. UNION {changes(f) : f \in KeptFields(oe, ne)} \subseteq DiffEntity(e, oe, ne)
    BY DEF DiffEntity
  <2>2. \A f \in KeptFields(oe, ne) : changes(f) \subseteq DiffEntity(e, oe, ne)
    BY <2>1
  <2> QED
    BY <2>2
<1> QED
  BY <1>1, <1>2, <1>3

\* An operation is of the kind it is made of.
LEMMA OperationKind ==
  ASSUME NEW k, NEW e, NEW f
  PROVE  Operation(k, e, f).kind = k /\ Operation(k, e, f).entity = e /\ Operation(k, e, f).field = f
BY DEF Operation

-----------------------------------------------------------------------------
(***************************************************************************)
(* Fields, columns and tables.                                             *)
(***************************************************************************)
\* The fields of a valid manifest are valid.
LEMMA FieldsAreValid ==
  ASSUME NEW m, ValidManifest(m), NEW e \in DOMAIN m, NEW f \in DOMAIN m[e].fields
  PROVE  ValidField(m[e].fields[f], DOMAIN m)
BY DEF ValidManifest

\* A field whose changes need no rebuild keeps the column it has.
LEMMA ColumnKept ==
  ASSUME NEW of, NEW nf, NEW entities, NEW others,
         ValidField(of, entities), ValidField(nf, others),
         FieldChanges(of, nf) \cap RebuildKinds = {},
         of.min = nf.min, of.max = nf.max
  PROVE  /\ of.type = nf.type /\ of.required = nf.required
         /\ of.min = nf.min /\ of.max = nf.max
         /\ of.values = nf.values /\ of.ref = nf.ref
         /\ \A col : Enforces(col, of) => Enforces(col, nf)
<1>1. /\ "change_type" \notin FieldChanges(of, nf) /\ "change_required" \notin FieldChanges(of, nf)
      /\ "change_enum" \notin FieldChanges(of, nf) /\ "change_reference" \notin FieldChanges(of, nf)
  BY DEF RebuildKinds
<1>2. of.type = nf.type /\ of.required = nf.required
  BY <1>1 DEF FieldChanges, FieldOpKinds
<1>3. of.values = nf.values
  <2>1. CASE of.type = "enum"
    BY <1>1, <1>2, <2>1 DEF FieldChanges, FieldOpKinds
  <2>2. CASE of.type # "enum"
    BY <1>2, <2>2 DEF ValidField
  <2> QED
    BY <2>1, <2>2
<1>4. of.ref = nf.ref
  <2>1. CASE of.type = "reference"
    BY <1>1, <1>2, <2>1 DEF FieldChanges, FieldOpKinds
  <2>2. CASE of.type # "reference"
    BY <1>2, <2>2 DEF ValidField
  <2> QED
    BY <2>1, <2>2
<1>5. Checks(of) = Checks(nf)
  BY <1>2, <1>3 DEF Checks
<1> QED
  BY <1>2, <1>3, <1>4, <1>5 DEF Enforces

\* A column made for a field enforces it, whichever statement makes it.
LEMMA NewColumns ==
  ASSUME NEW f
  PROVE  /\ \A inlineFK : Enforces(ColumnDef(f, inlineFK), f)
         /\ Enforces(AddColumn(f), f)
BY DEF Enforces, ColumnDef, AddColumn

\* A table created, or rebuilt, for an entity enforces it.
LEMMA NewTables == ASSUME NEW ent PROVE TableConforms(TableDDL(ent), ent)
BY NewColumns DEF TableConforms, TableDDL, CreateTable

\* So do the columns of one altered in place, by ADD COLUMN and DROP COLUMN.
LEMMA NativeColumns ==
  ASSUME NEW old, NEW new, ValidManifest(old), ValidManifest(new), BoundsAgree(old, new),
         NEW e \in Kept(old, new), NEW table, ColumnsEnforce(table, old[e]),
         ~NeedsRebuild(old[e], new[e])
  PROVE  /\ ColumnsEnforce(NativeTable(table, old[e], new[e]), new[e])
         /\ \A f \in KeptFields(old[e], new[e]) :
              old[e].fields[f].unique \in BOOLEAN /\ new[e].fields[f].unique \in BOOLEAN
<1> DEFINE oe == old[e]
           ne == new[e]
           native == NativeTable(table, oe, ne)
<1>1. DOMAIN table.cols = DOMAIN oe.fields
  BY DEF ColumnsEnforce
<1>2. DOMAIN native.cols = DOMAIN ne.fields
  BY <1>1 DEF NativeTable, AddedFields, DroppedFields
<1>3. \A f \in KeptFields(oe, ne) :
        /\ oe.fields[f].unique \in BOOLEAN /\ ne.fields[f].unique \in BOOLEAN
        /\ \A col : Enforces(col, oe.fields[f]) => Enforces(col, ne.fields[f])
  <2> TAKE f \in KeptFields(oe, ne)
  <2>1. ValidField(oe.fields[f], DOMAIN old) /\ ValidField(ne.fields[f], DOMAIN new)
    BY FieldsAreValid DEF KeptFields, Kept
  <2>2. FieldChanges(oe.fields[f], ne.fields[f]) \cap RebuildKinds = {}
    BY DEF NeedsRebuild
  <2>3. oe.fields[f].min = ne.fields[f].min /\ oe.fields[f].max = ne.fields[f].max
    BY DEF BoundsAgree
  <2>4. \A col : Enforces(col, oe.fields[f]) => Enforces(col, ne.fields[f])
    BY <2>1, <2>2, <2>3, ColumnKept
  <2> QED
    BY <2>1, <2>4 DEF ValidField
<1>4. ASSUME NEW f \in DOMAIN ne.fields
      PROVE  Enforces(native.cols[f], ne.fields[f])
  <2>1. CASE f \in AddedFields(oe, ne)
    <3>1. native.cols[f] = AddColumn(ne.fields[f])
      BY <1>1, <2>1 DEF NativeTable, AddedFields, DroppedFields
    <3> QED
      BY <3>1, NewColumns
  <2>2. CASE f \in KeptFields(oe, ne)
    <3>1. native.cols[f] = table.cols[f]
      BY <1>1, <2>2 DEF NativeTable, AddedFields, DroppedFields, KeptFields
    <3>2. Enforces(table.cols[f], oe.fields[f])
      BY <2>2 DEF ColumnsEnforce, KeptFields
    <3> QED
      BY <1>3, <2>2, <3>1, <3>2
  <2> QED
    BY <2>1, <2>2 DEF AddedFields, KeptFields
<1> QED
  BY <1>2, <1>3, <1>4 DEF ColumnsEnforce

\* So does the table, with its indexes; it enforces no more than it should if it
\* did not before.
LEMMA NativeTables ==
  ASSUME NEW old, NEW new, ValidManifest(old), ValidManifest(new), BoundsAgree(old, new),
         NEW e \in Kept(old, new), NEW table, TableEnforces(table, old[e]),
         ~NeedsRebuild(old[e], new[e]), ~NativeRefused(table, old[e], new[e])
  PROVE  /\ TableEnforces(NativeTable(table, old[e], new[e]), new[e])
         /\ TableConforms(table, old[e]) => TableConforms(NativeTable(table, old[e], new[e]), new[e])
<1> DEFINE oe == old[e]
           ne == new[e]
           native == NativeTable(table, oe, ne)
<1>1. UniqueFields(oe) \subseteq table.unique /\ DOMAIN table.cols = DOMAIN oe.fields
  BY DEF TableEnforces, ColumnsEnforce
<1>2. /\ ColumnsEnforce(native, ne)
      /\ \A f \in KeptFields(oe, ne) : oe.fields[f].unique \in BOOLEAN /\ ne.fields[f].unique \in BOOLEAN
  BY NativeColumns DEF TableEnforces
<1>3. \A f \in DroppedFields(oe, ne) : f \notin table.unique
  BY DEF NativeRefused
<1>4. native.unique = (table.unique
                        \cup ({f \in AddedFields(oe, ne) : ne.fields[f].unique}
                        \cup {f \in KeptFields(oe, ne) : ~oe.fields[f].unique /\ ne.fields[f].unique}))
                      \ {f \in KeptFields(oe, ne) : oe.fields[f].unique /\ ~ne.fields[f].unique}
  BY DEF NativeTable
<1>5. \A f \in UniqueFields(ne) : f \in native.unique
  BY <1>1, <1>2, <1>4 DEF UniqueFields, AddedFields, KeptFields
<1>6. ASSUME TableConforms(table, oe)
      PROVE  native.unique = UniqueFields(ne)
  <2>1. table.unique = UniqueFields(oe)
    BY <1>6 DEF TableConforms
  <2>2. \A f : f \in native.unique <=> f \in UniqueFields(ne)
    BY <1>1, <1>2, <1>3, <2>1 DEF NativeTable, UniqueFields, AddedFields, DroppedFields, KeptFields
  <2> QED
    BY <1>4, <2>2 DEF UniqueFields
<1> QED
  BY <1>2, <1>5, <1>6 DEF TableConforms, TableEnforces, ColumnsEnforce

-----------------------------------------------------------------------------
(***************************************************************************)
(* Schemas.                                                                *)
(***************************************************************************)
\* An entity without a difference keeps the table it has.
LEMMA UntouchedTables ==
  ASSUME NEW old, NEW new, ValidManifest(old), ValidManifest(new), BoundsAgree(old, new),
         NEW e \in Kept(old, new),
         \A op \in DiffEntity(e, old[e], new[e]) : op.kind \in {"rename_entity", "rename_field"}
  PROVE  /\ DOMAIN old[e].fields = DOMAIN new[e].fields
         /\ \A f \in DOMAIN old[e].fields : FieldDigest(old[e].fields[f]) = FieldDigest(new[e].fields[f])
         /\ \A table : TableConforms(table, old[e]) => TableConforms(table, new[e])
         /\ \A table : TableEnforces(table, old[e]) => TableEnforces(table, new[e])
<1> DEFINE oe == old[e]
           ne == new[e]
<1>1. AddedFields(oe, ne) = {} /\ DroppedFields(oe, ne) = {}
  BY FieldOperations, OperationKind
<1>2. DOMAIN oe.fields = DOMAIN ne.fields /\ KeptFields(oe, ne) = DOMAIN oe.fields
  BY <1>1 DEF AddedFields, DroppedFields, KeptFields
<1>3. ASSUME NEW f \in KeptFields(oe, ne)
      PROVE  \A k \in FieldChanges(oe.fields[f], ne.fields[f]) : k \in {"rename_entity", "rename_field"}
  <2> TAKE k \in FieldChanges(oe.fields[f], ne.fields[f])
  <2>1. Operation(k, e, f) \in DiffEntity(e, oe, ne)
    BY <1>3, FieldOperations
  <2>2. Operation(k, e, f).kind \in {"rename_entity", "rename_field"}
    BY <2>1
  <2> QED
    BY <2>2, OperationKind
<1>4. ~NeedsRebuild(oe, ne)
  BY <1>1, <1>3 DEF NeedsRebuild, RebuildKinds
<1>5. ASSUME NEW f \in KeptFields(oe, ne)
      PROVE  /\ FieldDigest(oe.fields[f]) = FieldDigest(ne.fields[f])
             /\ oe.fields[f].unique = ne.fields[f].unique
             /\ \A col : Enforces(col, oe.fields[f]) => Enforces(col, ne.fields[f])
  <2>1. ValidField(oe.fields[f], DOMAIN old) /\ ValidField(ne.fields[f], DOMAIN new)
    BY FieldsAreValid DEF KeptFields, Kept
  <2>2. FieldChanges(oe.fields[f], ne.fields[f]) \cap RebuildKinds = {}
    BY <1>4 DEF NeedsRebuild
  <2>3. oe.fields[f].unique = ne.fields[f].unique
    BY <1>3 DEF FieldChanges, FieldOpKinds
  <2>4. oe.fields[f].min = ne.fields[f].min /\ oe.fields[f].max = ne.fields[f].max
    BY <1>4 DEF BoundsAgree
  <2>5. /\ oe.fields[f].type = ne.fields[f].type /\ oe.fields[f].required = ne.fields[f].required
        /\ oe.fields[f].min = ne.fields[f].min /\ oe.fields[f].max = ne.fields[f].max
        /\ oe.fields[f].values = ne.fields[f].values /\ oe.fields[f].ref = ne.fields[f].ref
        /\ \A col : Enforces(col, oe.fields[f]) => Enforces(col, ne.fields[f])
    BY <2>1, <2>2, <2>4, ColumnKept
  <2> QED
    BY <2>3, <2>5 DEF FieldDigest
<1>6. UniqueFields(oe) = UniqueFields(ne)
  BY <1>2, <1>5 DEF UniqueFields
<1> QED
  BY <1>2, <1>5, <1>6 DEF TableConforms, TableEnforces, ColumnsEnforce

\* A database that is a manifest's, and nothing else, enforces it.
LEMMA ConformingEnforces ==
  ASSUME NEW tables, NEW m, Conforms(tables, m)
  PROVE  Enforced(tables, m)
BY DEF Conforms, TableConforms, Enforced, TableEnforces, ColumnsEnforce

\* A changeset makes tables of tables.
LEMMA TablesRemain ==
  ASSUME NEW old, NEW new, NEW tables, \A e \in DOMAIN tables : IsTable(tables[e]),
         ~ChangesetRefused(tables, old, new)
  PROVE  \A e \in DOMAIN ApplyChangeset(tables, old, new) : IsTable(ApplyChangeset(tables, old, new)[e])
<1> DEFINE after == ApplyChangeset(tables, old, new)
<1>1. ASSUME NEW ent
      PROVE  IsTable(TableDDL(ent))
  <2>1. IsTable(CreateTable(ent))
    BY DEF IsTable, CreateTable
  <2> QED
    BY <2>1 DEF IsTable, TableDDL
<1>2. \A table, oe, ne : IsTable(NativeTable(table, oe, ne))
  BY DEF IsTable, NativeTable
<1>3. ASSUME NEW e \in DOMAIN after
      PROVE  IsTable(after[e])
  <2>1. CASE e \in Added(old, new)
    <3>1. after[e] = CreateEntity(e, tables, new[e])
      BY <2>1 DEF ApplyChangeset, Added, Kept, Dropped
    <3> QED
      BY <1>1, <3>1 DEF CreateEntity, IsTable
  <2>2. CASE e \in Kept(old, new)
    <3>1. after[e] = MigratedTable(e, tables[e], old, new)
      BY <2>2 DEF ApplyChangeset, Kept, Added, Dropped
    <3>2. DiffEntity(e, old[e], new[e]) = {} => e \in DOMAIN tables
      BY <2>2 DEF ApplyChangeset, Added, Kept
    <3> QED
      BY <1>1, <1>2, <3>1, <3>2 DEF MigratedTable, RebuiltTable
  <2>3. CASE e \notin Added(old, new) /\ e \notin Kept(old, new)
    BY <2>3 DEF ApplyChangeset
  <2> QED
    BY <2>1, <2>2, <2>3
<1> QED
  BY <1>3

\* The executor is sound table by table: one that enforces its entity before
\* enforces it after.
LEMMA MigratedTableIsSound ==
  ASSUME NEW old, NEW new, ValidManifest(old), ValidManifest(new), BoundsAgree(old, new),
         NEW e \in Kept(old, new), NEW tables, TableEnforces(tables[e], old[e]),
         ~ChangesetRefused(tables, old, new)
  PROVE  /\ TableEnforces(MigratedTable(e, tables[e], old, new), new[e])
         /\ TableConforms(tables[e], old[e]) =>
              TableConforms(MigratedTable(e, tables[e], old, new), new[e])
<1>1. CASE DiffEntity(e, old[e], new[e]) = {}
  BY <1>1, UntouchedTables DEF MigratedTable
<1>2. CASE DiffEntity(e, old[e], new[e]) # {} /\ NeedsRebuild(old[e], new[e])
  <2>1. TableConforms(TableDDL(new[e]), new[e])
    BY NewTables
  <2> QED
    BY <1>2, <2>1 DEF MigratedTable, RebuiltTable, TableConforms, TableEnforces, ColumnsEnforce
<1>3. CASE DiffEntity(e, old[e], new[e]) # {} /\ ~NeedsRebuild(old[e], new[e])
  <2>1. ~NativeRefused(tables[e], old[e], new[e])
    BY <1>3 DEF ChangesetRefused
  <2> QED
    BY <1>3, <2>1, NativeTables DEF MigratedTable
<1> QED
  BY <1>1, <1>2, <1>3

\* The executor is sound: a changeset that goes through leaves a database that
\* enforces the new manifest, if it enforced the old one (execute.go:20-30,
\* rebuild.go and store.go's ApplyDDL together).
THEOREM ExecutorIsSound ==
  ASSUME NEW old, NEW new, ValidManifest(old), ValidManifest(new), BoundsAgree(old, new),
         NEW tables, Conforms(tables, old), ~ChangesetRefused(tables, old, new)
  PROVE  Conforms(ApplyChangeset(tables, old, new), new)
<1> DEFINE after == ApplyChangeset(tables, old, new)
<1>1. DOMAIN tables = DOMAIN old
  BY DEF Conforms
<1>2. DOMAIN after = DOMAIN new
  BY <1>1 DEF ApplyChangeset, Added, Dropped
<1>3. ASSUME NEW e \in Added(old, new)
      PROVE  TableConforms(after[e], new[e])
  <2>1. e \in DOMAIN new /\ e \notin DOMAIN tables
    BY <1>1 DEF Added
  <2>2. after[e] = CreateEntity(e, tables, new[e])
    BY <2>1 DEF ApplyChangeset, Added, Kept, Dropped
  <2>3. after[e] = TableDDL(new[e])
    BY <2>1, <2>2 DEF CreateEntity
  <2> QED
    BY <2>3, NewTables
<1>4. ASSUME NEW e \in Kept(old, new)
      PROVE  TableConforms(after[e], new[e])
  <2>1. after[e] = MigratedTable(e, tables[e], old, new)
    BY <1>1 DEF ApplyChangeset, Kept, Added, Dropped
  <2>2. TableConforms(tables[e], old[e]) /\ TableEnforces(tables[e], old[e])
    BY ConformingEnforces DEF Conforms, Enforced, Kept
  <2> QED
    BY <2>1, <2>2, MigratedTableIsSound
<1> QED
  BY <1>2, <1>3, <1>4 DEF Conforms, Added, Kept

\* It is so as well on a database that holds more than its manifest asks for, as
\* long as what an added entity finds under its name fits it.
LEMMA ExecutorEnforces ==
  ASSUME NEW old, NEW new, ValidManifest(old), ValidManifest(new), BoundsAgree(old, new),
         NEW tables, \A e \in DOMAIN tables : IsTable(tables[e]),
         Enforced(tables, old), ~ChangesetRefused(tables, old, new), AdoptionsFit(tables, old, new)
  PROVE  Enforced(ApplyChangeset(tables, old, new), new)
<1> DEFINE after == ApplyChangeset(tables, old, new)
<1>1. \A e \in DOMAIN new : e \in DOMAIN after
  BY DEF ApplyChangeset, Added, Dropped, Enforced
<1>2. ASSUME NEW e \in Added(old, new)
      PROVE  TableEnforces(after[e], new[e])
  <2>1. after[e] = CreateEntity(e, tables, new[e])
    BY DEF ApplyChangeset, Added, Kept, Dropped
  <2>2. CASE e \in DOMAIN tables
    <3>1. ColumnsEnforce(tables[e], new[e])
      BY <2>2 DEF AdoptionsFit
    <3>2. /\ after[e].cols = tables[e].cols
          /\ UniqueFields(new[e]) \subseteq after[e].unique
      BY <2>1, <2>2 DEF CreateEntity, IsTable
    <3> QED
      BY <3>1, <3>2 DEF TableEnforces, ColumnsEnforce
  <2>3. CASE e \notin DOMAIN tables
    <3>1. after[e] = TableDDL(new[e])
      BY <2>1, <2>3 DEF CreateEntity
    <3> QED
      BY <3>1, NewTables DEF TableConforms, TableEnforces, ColumnsEnforce
  <2> QED
    BY <2>2, <2>3
<1>3. ASSUME NEW e \in Kept(old, new)
      PROVE  TableEnforces(after[e], new[e])
  <2>1. e \in DOMAIN tables /\ TableEnforces(tables[e], old[e])
    BY DEF Enforced, Kept
  <2>2. after[e] = MigratedTable(e, tables[e], old, new)
    BY <2>1 DEF ApplyChangeset, Kept, Added, Dropped
  <2> QED
    BY <2>1, <2>2, MigratedTableIsSound
<1> QED
  BY <1>1, <1>2, <1>3 DEF Enforced, Added, Kept

\* Renames alone, for which no transaction is opened, leave a database that
\* enforces the new manifest and carries its fingerprint.
LEMMA RenamesChangeNothing ==
  ASSUME NEW old, NEW new, ValidManifest(old), ValidManifest(new), BoundsAgree(old, new),
         AllNoSQL(old, new)
  PROVE  /\ Fingerprint(new) = Fingerprint(old)
         /\ \A tables : Conforms(tables, old) => Conforms(tables, new)
         /\ \A tables : Enforced(tables, old) => Enforced(tables, new)
<1>1. Added(old, new) = {} /\ Dropped(old, new) = {}
  <2>1. \A op \in Diff(old, new) : op.kind # "add_entity" /\ op.kind # "drop_entity"
    BY DEF AllNoSQL
  <2>2. ASSUME NEW e \in Added(old, new) PROVE FALSE
    <3>1. Operation("add_entity", e, "") \in Diff(old, new)
      BY EntityOperations
    <3>2. Operation("add_entity", e, "").kind # "add_entity"
      BY <2>1, <3>1
    <3> QED
      BY <3>2 DEF Operation
  <2>3. ASSUME NEW e \in Dropped(old, new) PROVE FALSE
    <3>1. Operation("drop_entity", e, "") \in Diff(old, new)
      BY EntityOperations
    <3>2. Operation("drop_entity", e, "").kind # "drop_entity"
      BY <2>1, <3>1
    <3> QED
      BY <3>2 DEF Operation
  <2> QED
    BY <2>2, <2>3
<1>2. DOMAIN old = DOMAIN new /\ Kept(old, new) = DOMAIN old
  BY <1>1 DEF Added, Dropped, Kept
<1>3. ASSUME NEW e \in DOMAIN old
      PROVE  /\ DOMAIN old[e].fields = DOMAIN new[e].fields
             /\ \A f \in DOMAIN old[e].fields :
                  FieldDigest(old[e].fields[f]) = FieldDigest(new[e].fields[f])
             /\ \A table : TableConforms(table, old[e]) => TableConforms(table, new[e])
             /\ \A table : TableEnforces(table, old[e]) => TableEnforces(table, new[e])
  <2>1. \A op \in DiffEntity(e, old[e], new[e]) : op.kind \in {"rename_entity", "rename_field"}
    BY <1>2, KeptOperations DEF AllNoSQL
  <2> QED
    BY <1>2, <2>1, UntouchedTables
<1>4. Fingerprint(new) = Fingerprint(old)
  <2>1. \A e \in DOMAIN old :
          [f \in DOMAIN old[e].fields |-> FieldDigest(old[e].fields[f])]
            = [f \in DOMAIN new[e].fields |-> FieldDigest(new[e].fields[f])]
    BY <1>3
  <2> QED
    BY <1>2, <2>1 DEF Fingerprint
<1> QED
  BY <1>2, <1>3, <1>4 DEF Conforms, Enforced

\* A manifest with the fingerprint of another, and its enums, is enforced by
\* the same databases: a boot may trust the comparison.
LEMMA FingerprintTells ==
  ASSUME NEW m1, NEW m2, Fingerprint(m1) = Fingerprint(m2), EnumsToldApart(m1, m2), NEW tables
  PROVE  /\ Conforms(tables, m1) => Conforms(tables, m2)
         /\ Enforced(tables, m1) => Enforced(tables, m2)
<1>1. DOMAIN m1 = DOMAIN m2
  BY DEF Fingerprint
<1>2. \A e \in DOMAIN m1 : Fingerprint(m1)[e] = Fingerprint(m2)[e]
  OBVIOUS
<1>3. ASSUME NEW e \in DOMAIN m1
      PROVE  /\ TableConforms(tables[e], m1[e]) => TableConforms(tables[e], m2[e])
             /\ TableEnforces(tables[e], m1[e]) => TableEnforces(tables[e], m2[e])
  <2>1. [f \in DOMAIN m1[e].fields |-> FieldDigest(m1[e].fields[f])]
          = [f \in DOMAIN m2[e].fields |-> FieldDigest(m2[e].fields[f])]
    BY <1>1, <1>2 DEF Fingerprint
  <2>2. DOMAIN m1[e].fields = DOMAIN m2[e].fields
    BY <2>1
  <2>3. \A f \in DOMAIN m1[e].fields : FieldDigest(m1[e].fields[f]) = FieldDigest(m2[e].fields[f])
    BY <2>1, <2>2
  <2>4. ASSUME NEW f \in DOMAIN m1[e].fields
        PROVE  /\ m1[e].fields[f].unique = m2[e].fields[f].unique
               /\ \A col : Enforces(col, m1[e].fields[f]) => Enforces(col, m2[e].fields[f])
    <3>1. m1[e].fields[f].values = m2[e].fields[f].values
      BY DEF EnumsToldApart
    <3> QED
      BY <2>3, <3>1 DEF FieldDigest, Enforces, Checks
  <2>5. UniqueFields(m1[e]) = UniqueFields(m2[e])
    BY <2>2, <2>4 DEF UniqueFields
  <2> QED
    BY <2>2, <2>4, <2>5 DEF TableConforms, TableEnforces, ColumnsEnforce
<1> QED
  BY <1>1, <1>3 DEF Conforms, Enforced

-----------------------------------------------------------------------------
(***************************************************************************)
(* Classification.                                                         *)
(***************************************************************************)
\* A changeset without a destructive operation drops nothing, and changes the
\* type or the values of a field only to wider ones (classify.go:12-15).
LEMMA SafeOperations ==
  ASSUME NEW old, NEW new, ~HasDestructive(old, new)
  PROVE  /\ Dropped(old, new) = {}
         /\ \A e \in Kept(old, new) : DroppedFields(old[e], new[e]) = {}
         /\ \A e \in Kept(old, new) : \A f \in KeptFields(old[e], new[e]) :
              LET before == old[e].fields[f]
                  after == new[e].fields[f]
              IN /\ before.type # after.type => IsWidening(before.type, after.type)
                 /\ before.type = "enum" /\ after.type = "enum" => before.values \subseteq after.values
<1>1. \A op \in Diff(old, new) : Classify(op, old, new) # "destructive"
  BY DEF HasDestructive, Destructive
<1>2. \A e, f : Classify(Operation("drop_entity", e, f), old, new) = "destructive"
  BY OperationKind DEF Classify
<1>3. \A e, f : Classify(Operation("drop_field", e, f), old, new) = "destructive"
  BY OperationKind DEF Classify
<1>4. \A e, f : ~IsWidening(old[e].fields[f].type, new[e].fields[f].type) =>
        Classify(Operation("change_type", e, f), old, new) = "destructive"
  BY OperationKind DEF Classify
<1>5. \A e, f : EnumRemovedValues(old[e].fields[f], new[e].fields[f]) =>
        Classify(Operation("change_enum", e, f), old, new) = "destructive"
  BY OperationKind DEF Classify
<1>6. ASSUME NEW e \in Dropped(old, new) PROVE FALSE
  <2>1. Operation("drop_entity", e, "") \in Diff(old, new)
    BY EntityOperations
  <2> QED
    BY <1>1, <1>2, <2>1
<1>7. ASSUME NEW e \in Kept(old, new), NEW f \in DroppedFields(old[e], new[e]) PROVE FALSE
  <2>1. Operation("drop_field", e, f) \in Diff(old, new)
    BY FieldOperations, KeptOperations
  <2> QED
    BY <1>1, <1>3, <2>1
<1>8. ASSUME NEW e \in Kept(old, new), NEW f \in KeptFields(old[e], new[e])
      PROVE  LET before == old[e].fields[f]
                 after == new[e].fields[f]
             IN /\ before.type # after.type => IsWidening(before.type, after.type)
                /\ before.type = "enum" /\ after.type = "enum" => before.values \subseteq after.values
  <2> DEFINE before == old[e].fields[f]
             after == new[e].fields[f]
  <2>1. \A k \in FieldChanges(before, after) : Operation(k, e, f) \in Diff(old, new)
    BY FieldOperations, KeptOperations
  <2>2. before.type # after.type => IsWidening(before.type, after.type)
    <3>1. before.type # after.type => "change_type" \in FieldChanges(before, after)
      BY DEF FieldChanges, FieldOpKinds
    <3> QED
      BY <1>1, <1>4, <2>1, <3>1
  <2>3. before.type = "enum" /\ after.type = "enum" => before.values \subseteq after.values
    <3>1. before.type = "enum" /\ after.type = "enum" /\ before.values # after.values =>
            "change_enum" \in FieldChanges(before, after)
      BY DEF FieldChanges, FieldOpKinds
    <3>2. "change_enum" \in FieldChanges(before, after) => ~EnumRemovedValues(before, after)
      BY <1>1, <1>5, <2>1
    <3> QED
      BY <3>1, <3>2 DEF EnumRemovedValues
  <2> QED
    BY <2>2, <2>3
<1> QED
  BY <1>6, <1>7, <1>8
=============================================================================
