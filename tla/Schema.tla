------------------------------- MODULE Schema -------------------------------
(***************************************************************************)
(* The manifest model and the SQLite schema it is lowered to: packages     *)
(* schema, validate (entities and fields), materialize, and the boot-time  *)
(* column check of package store.                                          *)
(*                                                                         *)
(* A manifest is a function from stable entity ids to entities; an entity  *)
(* has a display name and a function from stable field ids to fields.  The *)
(* order of entities and fields is abstracted away: Fingerprint sorts it   *)
(* out, and it only orders the statements of one transaction.              *)
(*                                                                         *)
(* An optional member of the code (a nil *float64, HasDefault = false, a   *)
(* field that is no reference) is a set with at most one element.          *)
(***************************************************************************)
EXTENDS Integers, FiniteSets, Sequences, SequencesExt

FieldTypes == {"text", "integer", "real", "boolean", "datetime", "enum", "reference"}

OnDeleteActions == {"set_null", "restrict", "cascade"}

ReservedNames == {"id", "created_at", "updated_at"}

IsOptional(s) == \A x, y \in s : x = y

-----------------------------------------------------------------------------
(***************************************************************************)
(* Values.  A text is <<"text", length, number, pieces>>: its length in    *)
(* characters, the integer SQLite's CAST finds at its start, and the       *)
(* pieces (numbers) its commas divide it into.  A real is counted in       *)
(* quarters, so that 3 stands for 0.75.                                    *)
(***************************************************************************)
Text(len, num, pieces) == <<"text", len, num, pieces>>
Integer(n) == <<"integer", n>>
Real(quarters) == <<"real", quarters>>
Bool(b) == <<"bool", b>>

\* What min and max bound, in quarters: the length of a text, the value of a
\* number.
Magnitude(v) == IF v[1] = "real" THEN v[2] ELSE 4 * v[2]

InBounds(f, v) == /\ \A b \in f.min : Magnitude(v) >= 4 * b
                  /\ \A b \in f.max : Magnitude(v) <= 4 * b

-----------------------------------------------------------------------------
(***************************************************************************)
(* The validation gate (validate.Manifest): which members a type allows    *)
(* (manifest.schema.json), then the semantic checks.                       *)
(***************************************************************************)
ValidDefault(f, v) ==
  \/ f.type = "text" /\ v[1] = "text" /\ InBounds(f, v)
  \/ f.type = "integer" /\ v[1] = "integer" /\ InBounds(f, v)
  \/ f.type = "real" /\ v[1] = "real" /\ InBounds(f, v)
  \/ f.type = "enum" /\ v \in f.values
  \/ f.type = "boolean" /\ v[1] = "bool"
  \/ f.type = "datetime" /\ v[1] = "text"

ValidField(f, entities) ==
  /\ f.type \in FieldTypes
  /\ f.required \in BOOLEAN /\ f.unique \in BOOLEAN
  /\ IsOptional(f.default) /\ IsOptional(f.min) /\ IsOptional(f.max) /\ IsOptional(f.ref)
  /\ f.name \notin ReservedNames
  /\ f.type \notin {"text", "integer", "real"} => f.min = {} /\ f.max = {} /\ ~f.unique
  /\ (f.type = "enum") <=> (f.values # {})
  /\ (f.type = "reference") <=> (f.ref # {})
  /\ \A lo \in f.min, hi \in f.max : lo <= hi
  /\ \A r \in f.ref : r.target \in entities /\ r.onDelete \in OnDeleteActions
  /\ \A v \in f.default : ValidDefault(f, v)

ValidManifest(m) ==
  /\ DOMAIN m # {}
  /\ \A e1, e2 \in DOMAIN m : m[e1].name = m[e2].name => e1 = e2
  /\ \A e \in DOMAIN m :
       LET fields == m[e].fields
       IN /\ DOMAIN fields # {}
          /\ DOMAIN fields \cap ReservedNames = {}
          /\ \A f, g \in DOMAIN fields : fields[f].name = fields[g].name => f = g
          /\ \A f \in DOMAIN fields : ValidField(fields[f], DOMAIN m)

HasDefault(f) == f.default # {}

-----------------------------------------------------------------------------
(***************************************************************************)
(* The fingerprint: a digest of exactly the members listed below, under    *)
(* stable ids.  SHA-256 is taken to be injective, so the digest is the     *)
(* canonical representation itself, in which the values of an enum are     *)
(* sorted and then joined by commas.                                       *)
(***************************************************************************)
Precedes(s, t) ==
  \E n \in 0..Len(s) : /\ n < Len(t) /\ SubSeq(s, 1, n) = SubSeq(t, 1, n)
                       /\ n < Len(s) => s[n + 1] < t[n + 1]

JoinedByCommas(values) == FlattenSeq(SetToSortSeq({v[4] : v \in values}, Precedes))

FieldDigest(f) ==
  [type |-> f.type, required |-> f.required, unique |-> f.unique,
   min |-> f.min, max |-> f.max, values |-> JoinedByCommas(f.values), ref |-> f.ref]

Fingerprint(m) ==
  [e \in DOMAIN m |-> [f \in DOMAIN m[e].fields |-> FieldDigest(m[e].fields[f])]]

\* What the comparison of two fingerprints takes for granted: no two enums
\* join to one list.
EnumsToldApart(m1, m2) ==
  Fingerprint(m1) = Fingerprint(m2) =>
    \A e \in DOMAIN m1 : \A f \in DOMAIN m1[e].fields :
      m1[e].fields[f].values = m2[e].fields[f].values

-----------------------------------------------------------------------------
(***************************************************************************)
(* Materialization: the column a field becomes and the table an entity     *)
(* becomes.  dflt is a DEFAULT clause, which materialize never emits and   *)
(* a migration's ADD COLUMN does; inline is TRUE for a foreign key written *)
(* on the column (ADD COLUMN) rather than as a table constraint.           *)
(***************************************************************************)
Affinity(type) == CASE type \in {"integer", "boolean"} -> "INTEGER"
                    [] type = "real" -> "REAL"
                    [] OTHER -> "TEXT"

Checks(f) ==
  CASE f.type = "boolean" -> {<<"in", {Integer(0), Integer(1)}>>}
    [] f.type = "enum" -> {<<"in", f.values>>}
    [] f.type \in {"text", "integer", "real"} ->
         {<<"min", b>> : b \in f.min} \cup {<<"max", b>> : b \in f.max}
    [] OTHER -> {}

ColumnDef(f, inlineFK) ==
  [affinity |-> Affinity(f.type), notNull |-> f.required, checks |-> Checks(f),
   fk |-> f.ref, inline |-> inlineFK /\ f.ref # {}, dflt |-> {}]

UniqueFields(ent) == {f \in DOMAIN ent.fields : ent.fields[f].unique}

\* CREATE TABLE alone, and with the unique indexes that follow it.
CreateTable(ent) ==
  [cols |-> [f \in DOMAIN ent.fields |-> ColumnDef(ent.fields[f], FALSE)], unique |-> {}]

TableDDL(ent) == [CreateTable(ent) EXCEPT !.unique = UniqueFields(ent)]

-----------------------------------------------------------------------------
(***************************************************************************)
(* Does a database enforce a manifest?  Enforces, Conforms and Enforced    *)
(* are the reference definitions the code's own checks are measured        *)
(* against; VerifySchema is the code's check, which reads column names     *)
(* only.                                                                   *)
(***************************************************************************)
Enforces(col, f) ==
  /\ col.affinity = Affinity(f.type)
  /\ col.notNull = f.required
  /\ col.checks = Checks(f)
  /\ col.fk = f.ref

TableConforms(table, ent) ==
  /\ DOMAIN table.cols = DOMAIN ent.fields
  /\ table.unique = UniqueFields(ent)
  /\ \A f \in DOMAIN ent.fields : Enforces(table.cols[f], ent.fields[f])

Conforms(tables, m) ==
  /\ DOMAIN tables = DOMAIN m
  /\ \A e \in DOMAIN m : TableConforms(tables[e], m[e])

IsTable(table) == table = [cols |-> table.cols, unique |-> table.unique]

\* The same, where a database may hold more than the manifest asks for: tables
\* of no entity, unique indexes of no field.
ColumnsEnforce(table, ent) ==
  /\ DOMAIN table.cols = DOMAIN ent.fields
  /\ \A f \in DOMAIN ent.fields : Enforces(table.cols[f], ent.fields[f])

TableEnforces(table, ent) == ColumnsEnforce(table, ent) /\ UniqueFields(ent) \subseteq table.unique

Enforced(tables, m) == \A e \in DOMAIN m : e \in DOMAIN tables /\ TableEnforces(tables[e], m[e])

VerifySchema(tables, m) ==
  \A e \in DOMAIN m : /\ e \in DOMAIN tables
                      /\ DOMAIN tables[e].cols = DOMAIN m[e].fields
=============================================================================
