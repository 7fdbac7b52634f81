----------------------------- MODULE IndexNames -----------------------------
(***************************************************************************)
(* Evolution, one level down: the tables and the unique indexes of a       *)
(* database under the names SQLite knows them by.  A table's unique        *)
(* columns are not a set in the code: CREATE UNIQUE INDEX IF NOT EXISTS    *)
(* and DROP INDEX go by a name put together from the ids of the entity and *)
(* the field, a rebuild by a temporary table name, and all names of a      *)
(* database share one space.  An id is the pieces between its underscores. *)
(*                                                                         *)
(* The order of statements matters where names meet, so manifests list     *)
(* their entities in a fixed order.                                        *)
(***************************************************************************)
EXTENDS Changeset

CONSTANTS
  Manifests, Witnesses, Values,   \* as in Evolution
  Pieces,                         \* an id -> its pieces
  EntityOrder                     \* the entity ids, as manifests list them

ASSUME IdsAreTold ==
  /\ \A i \in DOMAIN Pieces : Pieces[i] \in Seq(STRING)
  /\ \A i, j \in DOMAIN Pieces : Pieces[i] = Pieces[j] => i = j
  /\ \A m \in Manifests : \A e \in DOMAIN m : {e} \cup DOMAIN m[e].fields \subseteq DOMAIN Pieces

ASSUME OrderIsComplete ==
  /\ EntityOrder \in Seq(DOMAIN Pieces)
  /\ \A i, j \in DOMAIN EntityOrder : EntityOrder[i] = EntityOrder[j] => i = j
  /\ \A m \in Manifests : \A e \in DOMAIN m : \E i \in DOMAIN EntityOrder : EntityOrder[i] = e

ASSUME ManifestsAreFiles ==
  \A m \in Manifests :
    /\ ValidManifest(m)
    /\ \A e \in DOMAIN m : IsFiniteSet(DOMAIN m[e].fields)

VARIABLES
  manifest,
  db,            \* tables: entity -> column -> definition; indexes: name -> column
  fingerprint

vars == <<manifest, db, fingerprint>>

UniqueIndexName(e, f) == <<"ux">> \o Pieces[e] \o Pieces[f]

\* A mutant: the rebuilt table is built under the entity's own name.
OwnName(e) == Pieces[e]

TemporaryName(e) == <<"mig">> \o Pieces[e]

\* One step for each of some entities, in the order manifests list them.
InOrder(step(_, _), d, entities) ==
  FoldLeft(LAMBDA acc, e : IF e \in entities THEN step(acc, e) ELSE acc, d, EntityOrder)

-----------------------------------------------------------------------------
(***************************************************************************)
(* Statements.  A database whose transaction has failed is Failed; every   *)
(* statement leaves it so.                                                 *)
(***************************************************************************)
None == [x \in {} |-> {}]

Holding(tables, indexes) == [tables |-> tables, indexes |-> indexes, ok |-> TRUE]

Failed == [tables |-> None, indexes |-> None, ok |-> FALSE]

Names(d) == {Pieces[e] : e \in DOMAIN d.tables} \cup DOMAIN d.indexes

Indexed(d, e) == {f \in DOMAIN d.tables[e] : \E n \in DOMAIN d.indexes : d.indexes[n] = <<e, f>>}

Without(fn, keys) == [k \in DOMAIN fn \ keys |-> fn[k]]

With(fn, key, value) == [k \in DOMAIN fn \cup {key} |-> IF k = key THEN value ELSE fn[k]]

\* CREATE TABLE IF NOT EXISTS.
AddTable(d, e, ent) ==
  IF ~d.ok \/ e \in DOMAIN d.tables THEN d
  ELSE IF Pieces[e] \in DOMAIN d.indexes THEN Failed
  ELSE Holding(With(d.tables, e, CreateTable(ent).cols), d.indexes)

\* CREATE UNIQUE INDEX IF NOT EXISTS.
AddIndex(d, e, f) ==
  LET name == UniqueIndexName(e, f)
  IN IF ~d.ok \/ name \in DOMAIN d.indexes THEN d
     ELSE IF name \in Names(d) THEN Failed
     ELSE Holding(d.tables, With(d.indexes, name, <<e, f>>))

AddIndexes(d, e, fields) == FoldSet(LAMBDA f, acc : AddIndex(acc, e, f), d, fields)

\* DROP INDEX, of the names given.
DropIndexes(d, names) ==
  IF d.ok /\ names \subseteq DOMAIN d.indexes THEN Holding(d.tables, Without(d.indexes, names))
  ELSE Failed

\* DROP TABLE takes the table's indexes along, under whatever names.
DropTable(d, e) ==
  IF d.ok /\ e \in DOMAIN d.tables
  THEN Holding(Without(d.tables, {e}),
               Without(d.indexes, {n \in DOMAIN d.indexes : d.indexes[n][1] = e}))
  ELSE Failed

-----------------------------------------------------------------------------
(***************************************************************************)
(* Materialization at boot, and the executor.                              *)
(***************************************************************************)
CreateTables(d, m) == InOrder(LAMBDA acc, e : AddTable(acc, e, m[e]), d, DOMAIN m)

CreateIndexes(d, m) == InOrder(LAMBDA acc, e : AddIndexes(acc, e, UniqueFields(m[e])), d, DOMAIN m)

Materialize(d, m) == CreateIndexes(CreateTables(d, m), m)

\* ALTER TABLE ... ADD and DROP COLUMN, and the indexes by name.
ApplyNativeOps(d, e, oe, ne) ==
  LET dropped == DroppedFields(oe, ne)
      added == AddedFields(oe, ne)
      no_longer == {f \in KeptFields(oe, ne) : oe.fields[f].unique /\ ~ne.fields[f].unique}
      newly == {f \in UniqueFields(ne) : f \in added \/ ~oe.fields[f].unique}
      columns == [f \in DOMAIN ne.fields |->
                    IF f \in added THEN AddColumn(ne.fields[f]) ELSE d.tables[e][f]]
      held(f) == f \in Indexed(d, e) \/ (d.tables[e][f].fk # {} /\ ~d.tables[e][f].inline)
  IN IF \E f \in dropped : held(f) THEN Failed
     ELSE AddIndexes(DropIndexes(Holding([d.tables EXCEPT ![e] = columns], d.indexes),
                                 {UniqueIndexName(e, f) : f \in no_longer}),
                     e, newly)

\* A mutant: the indexes that went with the old table stay away.
RebuildWithoutIndexes(d, e, ne) ==
  IF TemporaryName(e) \in Names(d) THEN Failed
  ELSE AddTable(DropTable(d, e), e, ne)

\* A new table under a temporary name takes the old one's place.
RebuildEntity(d, e, ne) ==
  IF TemporaryName(e) \in Names(d) THEN Failed
  ELSE AddIndexes(AddTable(DropTable(d, e), e, ne), e, UniqueFields(ne))

MigrateEntity(d, e, oe, ne) ==
  IF ~d.ok \/ DiffEntity(e, oe, ne) = {} THEN d
  ELSE IF NeedsRebuild(oe, ne) THEN RebuildEntity(d, e, ne)
  ELSE ApplyNativeOps(d, e, oe, ne)

CreateEntities(d, old, new) ==
  InOrder(LAMBDA acc, e : AddIndexes(AddTable(acc, e, new[e]), e, UniqueFields(new[e])),
          d, Added(old, new))

MigrateEntities(d, old, new) ==
  InOrder(LAMBDA acc, e : MigrateEntity(acc, e, old[e], new[e]), d, Kept(old, new))

DropEntities(d, old, new) == InOrder(DropTable, d, Dropped(old, new))

Execute(d, old, new) ==
  DropEntities(MigrateEntities(CreateEntities(d, old, new), old, new), old, new)

-----------------------------------------------------------------------------
Tables ==
  [e \in DOMAIN db.tables |-> [cols |-> db.tables[e], unique |-> Indexed(db, e)]]

BySet == INSTANCE Evolution WITH tables <- Tables

EmptyDatabase == Holding(None, None)

\* The first boot of an app that boots.
Init ==
  /\ manifest \in Manifests
  /\ db = Materialize(EmptyDatabase, manifest)
  /\ db.ok
  /\ fingerprint = Fingerprint(manifest)

\* Load runs the DDL again, over the database as it is.
Load ==
  /\ db' = Materialize(db, manifest)
  /\ db'.ok
  /\ UNCHANGED <<manifest, fingerprint>>

\* The migrate command: a boot, then Apply to its end.
Migrate(new, witnesses) ==
  LET loaded == Materialize(db, manifest)
      migrated == IF AllNoSQL(manifest, new) THEN loaded ELSE Execute(loaded, manifest, new)
  IN /\ ~IsEmpty(manifest, new)
     /\ BySet!Admitted(manifest, new, witnesses)
     /\ migrated.ok
     /\ db' = migrated
     /\ fingerprint' = IF AllNoSQL(manifest, new) THEN fingerprint ELSE Fingerprint(new)
     /\ manifest' = new

Next ==
  \/ Load
  \/ \E new \in Manifests, witnesses \in Witnesses : Migrate(new, witnesses)

Spec == Init /\ [][Next]_vars

-----------------------------------------------------------------------------
(***************************************************************************)
(* Properties.                                                             *)
(***************************************************************************)

\* The columns of some manifests.
ColumnsOf(manifests) ==
  UNION {UNION {{<<e, f>> : f \in DOMAIN m[e].fields} : e \in DOMAIN m} : m \in manifests}

Columns == ColumnsOf(Manifests)

\* What the names take for granted: no index has the name of another, or of a
\* table, and no table that of another's rebuild.
NamesNeverMeet ==
  /\ \A c, d \in Columns : UniqueIndexName(c[1], c[2]) = UniqueIndexName(d[1], d[2]) => c = d
  /\ \A c \in Columns, m \in Manifests : \A e \in DOMAIN m : UniqueIndexName(c[1], c[2]) # Pieces[e]
  /\ \A m1, m2 \in Manifests :
       \A e1 \in DOMAIN m1, e2 \in DOMAIN m2 : <<"mig">> \o Pieces[e1] # Pieces[e2]

\* Where no two columns share an index name, the statements do by name what
\* Evolution says of sets: every migration, and every boot, over whatever the
\* ones before left (materialize.go:53-100, execute.go:58-270).
ImplementsEvolution == BySet!Spec

\* Names refuse nothing: a changeset the executor cannot run is one that
\* Evolution refuses too; no temporary table and no index is in the way of
\* another name (execute.go:219, materialize.go:98-100).
NamesRefuseNothing ==
  \A new \in Manifests :
    ~Execute(db, manifest, new).ok => ChangesetRefused(Tables, manifest, new)
=============================================================================
