----------------------------- MODULE Evolution -----------------------------
(***************************************************************************)
(* One app taken through any sequence of manifests by migrations that all  *)
(* run to their end: what the changeset engine of package migrate does to  *)
(* the database schema and to the recorded fingerprint, whatever the rows  *)
(* are.  Migration adds processes, files, crashes and rows.                *)
(***************************************************************************)
EXTENDS Changeset

CONSTANTS
  Manifests,    \* the manifests an operator may ask for
  Witnesses,    \* the sets of witnesses an operator may supply
  Values        \* sample values, one per distinction the checks make

ASSUME ManifestsAreValid == \A m \in Manifests : ValidManifest(m)

VARIABLES
  manifest,     \* manifest.json: the registered schema
  tables,       \* the schema of data.db
  fingerprint   \* the row of _schema_meta

vars == <<manifest, tables, fingerprint>>

\* registry.Load on a new app: create every table, adopt the fingerprint.
Init ==
  /\ manifest \in Manifests
  /\ tables = [e \in DOMAIN manifest |-> TableDDL(manifest[e])]
  /\ fingerprint = Fingerprint(manifest)

\* The gate of Apply: confirmation is given; a changeset with a destructive
\* operation also needs every witness.
Admitted(old, new, witnesses) ==
  HasDestructive(old, new) => MissingWitnesses(old, new, witnesses) = {}

Migrate(new, witnesses) ==
  /\ ~IsEmpty(manifest, new)
  /\ Admitted(manifest, new, witnesses)
  /\ IF AllNoSQL(manifest, new) THEN UNCHANGED <<tables, fingerprint>>
     ELSE /\ ~ChangesetRefused(tables, manifest, new)
          /\ tables' = ApplyChangeset(tables, manifest, new)
          /\ fingerprint' = Fingerprint(new)
  /\ manifest' = new

Next == \E new \in Manifests, witnesses \in Witnesses : Migrate(new, witnesses)

Spec == Init /\ [][Next]_vars

-----------------------------------------------------------------------------
(***************************************************************************)
(* Reference definitions for the properties: which stored values a column  *)
(* admits, and when every row of one schema maps forward to another.       *)
(***************************************************************************)
Null == <<"null">>

HasAffinity(col, v) ==
  \/ v = Null
  \/ col.affinity = "TEXT" /\ v[1] = "text"
  \/ col.affinity = "INTEGER" /\ v[1] = "integer"
  \/ col.affinity = "REAL" /\ v[1] = "real"

\* A text in a column of numbers is greater than any number.
Satisfies(affinity, v, check) ==
  IF check[1] = "in" THEN v \in check[2]
  ELSE IF v[1] = "text" /\ affinity # "TEXT" THEN check[1] = "min"
  ELSE IF check[1] = "min" THEN Magnitude(v) >= 4 * check[2]
  ELSE Magnitude(v) <= 4 * check[2]

Admits(col, v) ==
  /\ HasAffinity(col, v)
  /\ IF v = Null THEN ~col.notNull ELSE \A check \in col.checks : Satisfies(col.affinity, v, check)

\* What column affinity makes of a value copied into the column.
Stored(col, v) == IF col.affinity = "REAL" /\ v[1] = "integer" THEN Real(4 * v[2]) ELSE v

ColumnMapsForward(col, newCol) ==
  /\ \A v \in Values \cup {Null} : Admits(col, v) => Admits(newCol, Stored(newCol, v))
  /\ newCol.fk \subseteq col.fk

\* A column that existing rows gain: each row needs a value, and a unique
\* column cannot give them all the same one.
ColumnFillsForward(field) ==
  /\ field.required => HasDefault(field)
  /\ field.unique => ~HasDefault(field)

RowsMapForward(before, after, new) ==
  \A e \in DOMAIN before :
    /\ e \in DOMAIN after
    /\ \A c \in DOMAIN before[e].cols :
         /\ c \in DOMAIN after[e].cols
         /\ ColumnMapsForward(before[e].cols[c], after[e].cols[c])
         /\ c \in after[e].unique => c \in before[e].unique
    /\ \A c \in DOMAIN after[e].cols \ DOMAIN before[e].cols :
         ColumnFillsForward(new[e].fields[c])

-----------------------------------------------------------------------------
(***************************************************************************)
(* Properties.                                                             *)
(***************************************************************************)

\* The database enforces exactly what its manifest declares, however many
\* migrations led to it: columns, nullability, checks, foreign keys and unique
\* indexes (store.go:140-146, migrate's native and rebuild paths together).
SchemaConforms == Conforms(tables, manifest)

\* What a migration leaves behind is an app the next boot serves: the column
\* check passes and the recorded fingerprint is the manifest's
\* (boot.go:38-60, execute.go:24-30).
NextBootAccepts ==
  /\ VerifySchema(tables, manifest)
  /\ fingerprint = Fingerprint(manifest)

\* Whatever the manifest asked for, the executor can reach it on an app with no
\* rows, except by the drop of a column that a unique index or a table-level
\* foreign key mentions (execute.go:146-196).
RefusedOnlyForDrops ==
  \A new \in Manifests :
    ChangesetRefused(tables, manifest, new) =>
      \E op \in Diff(manifest, new) :
        /\ op.kind = "drop_field"
        /\ LET f == manifest[op.entity].fields[op.field] IN f.unique \/ f.type = "reference"

\* The classification boundary (classify.go:12-15): when every operation of a
\* changeset is safe, every row the old schema admits maps forward, with no
\* value lost and none refused by the new schema.
SafeMapsForward ==
  \A new \in Manifests :
    (~HasDestructive(manifest, new) /\ ~ChangesetRefused(tables, manifest, new))
    => RowsMapForward(tables, ApplyChangeset(tables, manifest, new), new)
=============================================================================
