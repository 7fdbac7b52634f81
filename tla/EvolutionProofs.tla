-------------------------- MODULE EvolutionProofs --------------------------
(***************************************************************************)
(* Theorems about Evolution and RowMigration, for every universe of valid  *)
(* manifests in which a field keeps its bounds unless its table is         *)
(* rebuilt: however many migrations an app has been through, its database  *)
(* is the one its manifest declares, only the drop of a column can be      *)
(* refused, each value is what its witness is declared to make of it, and  *)
(* the rows are rows of the manifest as long as backfills are of their     *)
(* field's type.                                                           *)
(*                                                                         *)
(* The schema needs EvolutionInv.  The rows need RowInv, which speaks of   *)
(* the database rather than the manifest: each value is one its column     *)
(* holds, and the indexes and foreign keys hold.  On the way to it are     *)
(* SQLite's conversions, the expressions of a rebuild class by class, and  *)
(* what the witness gate leaves of the witnesses where they are used.      *)
(*                                                                         *)
(* The last two sections are about safe changesets, with the schema alone  *)
(* and with the rows there are.                                            *)
(***************************************************************************)
EXTENDS RowMigration, ChangesetProofs

\* The manifests' side of it: Diff does not compare bounds.
BoundsAreKept == \A old, new \in Manifests : BoundsAgree(old, new)

\* What each migration hands to the next.
EvolutionInv ==
  /\ manifest \in Manifests
  /\ Conforms(tables, manifest)
  /\ fingerprint = Fingerprint(manifest)

-----------------------------------------------------------------------------
\* A new app has the database of its manifest.
LEMMA EvolutionInit == Init => EvolutionInv
BY NewTables DEF Init, EvolutionInv, Conforms

\* A migration leaves the database of its manifest, with and without SQL, whatever
\* its witnesses.
LEMMA MigrateKeeps ==
  ASSUME BoundsAreKept, EvolutionInv, NEW new \in Manifests, NEW witnesses, Migrate(new, witnesses)
  PROVE  EvolutionInv'
<1>1. /\ manifest' = new
      /\ ValidManifest(manifest) /\ ValidManifest(new) /\ BoundsAgree(manifest, new)
  BY ManifestsAreValid DEF Migrate, EvolutionInv, BoundsAreKept
<1>2. CASE AllNoSQL(manifest, new)
  <2>1. tables' = tables /\ fingerprint' = fingerprint
    BY <1>2 DEF Migrate
  <2>2. Fingerprint(new) = Fingerprint(manifest) /\ Conforms(tables, new)
    BY <1>1, <1>2, RenamesChangeNothing DEF EvolutionInv
  <2> QED
    BY <1>1, <2>1, <2>2 DEF EvolutionInv
<1>3. CASE ~AllNoSQL(manifest, new)
  <2>1. /\ ~ChangesetRefused(tables, manifest, new)
        /\ tables' = ApplyChangeset(tables, manifest, new)
        /\ fingerprint' = Fingerprint(new)
    BY <1>3 DEF Migrate
  <2>2. Conforms(tables', new)
    BY <1>1, <2>1, ExecutorIsSound DEF EvolutionInv
  <2> QED
    BY <1>1, <2>1, <2>2 DEF EvolutionInv
<1> QED
  BY <1>2, <1>3

LEMMA EvolutionStep ==
  ASSUME BoundsAreKept, EvolutionInv, [Next]_vars
  PROVE  EvolutionInv'
<1>1. CASE UNCHANGED vars
  BY <1>1 DEF EvolutionInv, vars
<1>2. ASSUME NEW new \in Manifests, NEW witnesses \in Witnesses, Migrate(new, witnesses)
      PROVE  EvolutionInv'
  BY <1>2, MigrateKeeps
<1> QED
  BY <1>1, <1>2 DEF Next

\* The invariant holds for good.
LEMMA AlwaysEvolved == ASSUME BoundsAreKept PROVE Spec => []EvolutionInv
<1>1. EvolutionInv /\ [Next]_vars => EvolutionInv'
  BY EvolutionStep
<1> QED
  BY EvolutionInit, <1>1, PTL DEF Spec

\* The database enforces its manifest, however many migrations led to it
\* (store.go:140-146, the native and the rebuild path together).
THEOREM SchemaAlwaysConforms == ASSUME BoundsAreKept PROVE Spec => []SchemaConforms
<1>1. EvolutionInv => SchemaConforms
  BY DEF EvolutionInv, SchemaConforms
<1> QED
  BY <1>1, AlwaysEvolved, PTL

\* The next boot accepts what a migration leaves behind (boot.go:38-60).
THEOREM NextBootAlwaysAccepts == ASSUME BoundsAreKept PROVE Spec => []NextBootAccepts
<1>1. EvolutionInv => NextBootAccepts
  BY DEF EvolutionInv, NextBootAccepts, Conforms, TableConforms, VerifySchema
<1> QED
  BY <1>1, AlwaysEvolved, PTL

\* On the database of its manifest no changeset adds a column twice, or looks for
\* an index or a column that is not there.
LEMMA RefusedForDrops ==
  ASSUME EvolutionInv, NEW new \in Manifests, ChangesetRefused(tables, manifest, new)
  PROVE  \E op \in Diff(manifest, new) :
           /\ op.kind = "drop_field"
           /\ LET f == manifest[op.entity].fields[op.field] IN f.unique \/ f.type = "reference"
<1>1. DOMAIN tables = DOMAIN manifest /\ ValidManifest(manifest) /\ ValidManifest(new)
  BY ManifestsAreValid DEF EvolutionInv, Conforms
<1>2. PICK e \in Kept(manifest, new) :
        \/ ~NeedsRebuild(manifest[e], new[e]) /\ NativeRefused(tables[e], manifest[e], new[e])
        \/ ~(KeptFields(manifest[e], new[e]) \subseteq DOMAIN tables[e].cols)
  BY <1>1 DEF ChangesetRefused, Added, Kept, Dropped
<1> DEFINE oe == manifest[e]
           ne == new[e]
           table == tables[e]
<1>3. TableConforms(table, oe)
  BY DEF EvolutionInv, Conforms, Kept
<1>4. DOMAIN table.cols = DOMAIN oe.fields /\ table.unique = UniqueFields(oe)
  BY <1>3 DEF TableConforms
<1>5. PICK f \in DroppedFields(oe, ne) : f \in table.unique \/ table.cols[f].fk # {}
  <2>1. NativeRefused(table, oe, ne)
    BY <1>2, <1>4 DEF KeptFields
  <2>2. AddedFields(oe, ne) \cap DOMAIN table.cols = {}
    BY <1>4 DEF AddedFields
  <2>3. \A f \in KeptFields(oe, ne) : oe.fields[f].unique => f \in table.unique
    BY <1>4 DEF KeptFields, UniqueFields
  <2>4. \A f \in DroppedFields(oe, ne) : f \in DOMAIN table.cols
    BY <1>4 DEF DroppedFields
  <2> QED
    BY <2>1, <2>2, <2>3, <2>4 DEF NativeRefused
<1>6. oe.fields[f].unique \/ oe.fields[f].type = "reference"
  <2>1. f \in DOMAIN oe.fields /\ ValidField(oe.fields[f], DOMAIN manifest)
    BY <1>1, FieldsAreValid DEF DroppedFields, Kept
  <2>2. CASE f \in table.unique
    BY <1>4, <2>2 DEF UniqueFields
  <2>3. CASE table.cols[f].fk # {}
    BY <1>3, <2>1, <2>3 DEF TableConforms, Enforces, ValidField
  <2> QED
    BY <1>5, <2>2, <2>3
<1>7. Operation("drop_field", e, f) \in Diff(manifest, new)
  BY FieldOperations, KeptOperations
<1> QED
  BY <1>6, <1>7 DEF Operation

\* However an app came to its schema, SQLite refuses a changeset, as far as no row
\* is concerned, only for the drop of a column that an index or a foreign key
\* mentions (execute.go:146-196).
THEOREM OnlyDropsAreRefused == ASSUME BoundsAreKept PROVE Spec => []RefusedOnlyForDrops
<1>1. EvolutionInv => RefusedOnlyForDrops
  BY RefusedForDrops DEF RefusedOnlyForDrops
<1> QED
  BY <1>1, AlwaysEvolved, PTL

-----------------------------------------------------------------------------
(***************************************************************************)
(* Values.  What SQLite's conversions make of one, and what they leave of  *)
(* it: a conversion that is not exact is a CAST, and of a witness.         *)
(***************************************************************************)
\* Every number and truth value has a text.
ScalarsAreRendered ==
  /\ \A n \in Int : {Integer(n), Real(n)} \subseteq DOMAIN Rendered
  /\ {Bool(TRUE), Bool(FALSE)} \subseteq DOMAIN Rendered

Affinities == {"INTEGER", "REAL", "TEXT"}

\* The storage class of a column's values.
OfAffinity(affinity, v) ==
  \/ affinity = "INTEGER" /\ v[1] = "integer"
  \/ affinity = "REAL" /\ v[1] = "real"
  \/ affinity = "TEXT" /\ v[1] = "text"

\* A value is NULL, an integer, a real or a text, and no two of them.
LEMMA Classes ==
  /\ \A n : Integer(n)[1] = "integer" /\ Integer(n)[2] = n /\ Integer(n) # Null
  /\ \A n : Real(n)[1] = "real" /\ Real(n)[2] = n /\ Real(n) # Null
  /\ \A n \in Int : Storable(Integer(n)) /\ Storable(Real(n))
  /\ Null[1] = "null" /\ Storable(Null)
  /\ \A v : IsText(v) => v # Null /\ Storable(v)
BY DEF Integer, Real, Null, Storable, IsNumeric, IsText

\* A stored number is the one its parts make.
LEMMA Numbers ==
  ASSUME NEW v, Storable(v), v # Null
  PROVE  /\ v[1] = "integer" => v = Integer(v[2]) /\ v[2] \in Int
         /\ v[1] = "real" => v = Real(v[2]) /\ v[2] \in Int
         /\ v[1] \notin {"integer", "real"} => IsText(v)
         /\ v[1] \in {"integer", "real", "text"}
         /\ v \in Numerals => IsText(v)
BY NumeralsAreTexts DEF Storable, IsNumeric, IsText, Integer, Real

\* The number a CAST finds.
LEMMA QuartersOf ==
  /\ \A n : Quarters(Integer(n)) = 4 * n
  /\ \A n : Quarters(Real(n)) = n
  /\ \A v : IsText(v) => Quarters(v) = IF v \in DOMAIN Leading THEN Leading[v] ELSE 4 * v[3]
BY DEF Quarters, Integer, Real, IsText

LEMMA QuartersAreInt ==
  ASSUME NEW v, Storable(v), v # Null
  PROVE  Quarters(v) \in Int
<1>1. CASE v[1] = "integer"
  BY <1>1, Numbers, QuartersOf
<1>2. CASE v[1] = "real"
  BY <1>2, Numbers, QuartersOf
<1>3. CASE IsText(v)
  <2>1. v[3] \in Int
    BY <1>3 DEF IsText
  <2> QED
    BY <1>3, <2>1, QuartersOf, LeadingNumbers
<1> QED
  BY <1>1, <1>2, <1>3, Numbers

\* Truncation cuts off a fraction, and rounding yields the nearest integer.
LEMMA Nearby ==
  ASSUME NEW h \in Int
  PROVE  /\ Truncate(h) \in Int /\ IsCut(h, Truncate(h))
         /\ Round(h) \in Int /\ IsNearest(h, Round(h))
         /\ h % 4 = 0 => h \div 4 \in Int /\ 4 * (h \div 4) = h
<1>1. \A k \in Int : k \div 4 \in Int /\ k % 4 \in 0..3 /\ k = 4 * (k \div 4) + (k % 4)
  OBVIOUS
<1>2. Truncate(h) \in Int /\ IsCut(h, Truncate(h))
  BY <1>1 DEF Truncate, IsCut
<1>3. Round(h) \in Int /\ IsNearest(h, Round(h))
  BY <1>1 DEF Round, IsNearest
<1> QED
  BY <1>1, <1>2, <1>3

\* Numbers compare by what they are worth, texts that are none as texts.
LEMMA Comparisons ==
  /\ \A n : Comparable(Integer(n)) = <<"number", 4 * n>>
  /\ \A n : Comparable(Real(n)) = <<"number", n>>
  /\ \A v : IsText(v) /\ v \notin Numerals => Comparable(v) = v /\ ~IsNumber(v)
  /\ \A v : v \in Numerals => Comparable(v) = <<"number", Quarters(v)>> /\ IsNumber(v)
<1>1. \A n : IsNumber(Integer(n)) /\ IsNumber(Real(n))
  BY Classes DEF IsNumber
<1>2. \A v : v \in Numerals => IsText(v) /\ IsNumber(v)
  BY NumeralsAreTexts DEF IsNumber
<1>3. \A v : IsText(v) /\ v \notin Numerals => ~IsNumber(v)
  BY DEF IsNumber, IsText
<1> QED
  BY <1>1, <1>2, <1>3, QuartersOf DEF Comparable

\* The text of a number is worth the number.
LEMMA RenderingKeeps ==
  ASSUME ScalarsAreRendered, NEW v, Storable(v), v # Null, v[1] # "text"
  PROVE  /\ IsText(Rendered[v]) /\ Rendered[v] \in Numerals
         /\ Comparable(Rendered[v]) = Comparable(v)
<1>1. v[1] \in {"integer", "real"} /\ v \in DOMAIN Rendered
  BY Numbers DEF ScalarsAreRendered
<1>2. Rendered[v] \in Numerals /\ Quarters(Rendered[v]) = Quarters(v)
  BY <1>1, Numbers, RenderedIsExact DEF IsNumeric, Integer, Real
<1>3. Comparable(v) = <<"number", Quarters(v)>>
  BY <1>1 DEF Comparable, IsNumber
<1> QED
  BY <1>2, <1>3, Comparisons, NumeralsAreTexts

\* A CAST stores the class it is to, and nulls stay.
LEMMA CastTo ==
  ASSUME ScalarsAreRendered, NEW v, Storable(v)
  PROVE  /\ \A affinity : Cast(Null, affinity) = Null
         /\ v # Null =>
              /\ Cast(v, "INTEGER") = Integer(WholePart(v)) /\ WholePart(v) \in Int
              /\ Cast(v, "REAL") = Real(Quarters(v))
              /\ IsText(Cast(v, "TEXT")) /\ Comparable(Cast(v, "TEXT")) = Comparable(v)
              /\ v[1] = "text" => Cast(v, "TEXT") = v
         /\ \A affinity \in Affinities :
              /\ Storable(Cast(v, affinity))
              /\ v # Null => Cast(v, affinity) # Null /\ OfAffinity(affinity, Cast(v, affinity))
<1>1. \A affinity : Cast(Null, affinity) = Null
  BY DEF Cast
<1>2. ASSUME v # Null
      PROVE  /\ Cast(v, "INTEGER") = Integer(WholePart(v)) /\ WholePart(v) \in Int
             /\ Cast(v, "REAL") = Real(Quarters(v)) /\ Quarters(v) \in Int
             /\ IsText(Cast(v, "TEXT")) /\ Comparable(Cast(v, "TEXT")) = Comparable(v)
             /\ v[1] = "text" => Cast(v, "TEXT") = v
  <2>1. Quarters(v) \in Int
    BY <1>2, QuartersAreInt
  <2>2. Cast(v, "INTEGER") = Integer(WholePart(v)) /\ Cast(v, "REAL") = Real(Quarters(v))
    BY <1>2 DEF Cast
  <2>3. Cast(v, "TEXT") = IF v[1] = "text" THEN v ELSE Rendered[v]
    BY <1>2 DEF Cast
  <2>4. v[1] = "text" => IsText(v)
    BY <1>2, Numbers
  <2>5. v[1] # "text" => IsText(Rendered[v]) /\ Comparable(Rendered[v]) = Comparable(v)
    BY <1>2, RenderingKeeps
  <2>6. WholePart(v) \in Int
    BY <2>1, <2>4, Nearby DEF WholePart, IsText
  <2> QED
    BY <2>1, <2>2, <2>3, <2>4, <2>5, <2>6
<1>3. ASSUME v # Null, NEW affinity \in Affinities
      PROVE  Storable(Cast(v, affinity)) /\ Cast(v, affinity) # Null /\ OfAffinity(affinity, Cast(v, affinity))
  <2>1. IsText(Cast(v, "TEXT")) => Cast(v, "TEXT")[1] = "text"
    BY DEF IsText
  <2> QED
    BY <1>2, <1>3, <2>1, Classes DEF Affinities, OfAffinity
<1> QED
  BY <1>1, <1>2, <1>3, Classes

\* Copying a value into a column keeps what it is worth, if not its class; a value
\* of the column's class is copied as it is, and so is a number an integer column
\* has a class for.
LEMMA AffinityKeeps ==
  ASSUME ScalarsAreRendered, NEW v, Storable(v), NEW affinity \in Affinities
  PROVE  LET stored == WithAffinity(affinity, v)
         IN /\ Storable(stored)
            /\ stored = Null <=> v = Null
            /\ v # Null => Comparable(stored) = Comparable(v)
            /\ v # Null /\ OfAffinity(affinity, v) => stored = v
            /\ v # Null /\ (affinity = "TEXT" \/ (IsNumber(v) /\ (affinity = "REAL" \/ Quarters(v) % 4 = 0))) =>
                 OfAffinity(affinity, stored)
            /\ WithAffinity(affinity, stored) = stored
<1> DEFINE stored == WithAffinity(affinity, v)
<1>1. CASE v = Null
  <2>1. ~IsNumber(Null)
    <3>1. Null \notin Numerals
      BY NumeralsAreTexts, Classes
    <3> QED
      BY <3>1, Classes DEF IsNumber
  <2>2. stored = Null /\ stored = v
    BY <1>1, <2>1 DEF WithAffinity, Cast
  <2> HIDE DEF stored
  <2>3. WithAffinity(affinity, stored) = stored
    BY <2>2 DEF stored
  <2> QED
    BY <1>1, <2>2, <2>3, Classes DEF stored
<1>2. CASE v # Null /\ affinity = "TEXT"
  <2>1. stored = Cast(v, "TEXT")
    BY <1>2 DEF WithAffinity
  <2>2. IsText(stored) /\ Comparable(stored) = Comparable(v) /\ (v[1] = "text" => stored = v)
    BY <1>2, <2>1, CastTo
  <2>3. stored # Null /\ Storable(stored) /\ stored[1] = "text"
    BY <2>2, Classes DEF IsText
  <2> HIDE DEF stored
  <2>4. WithAffinity(affinity, stored) = stored
    BY <1>2, <2>3 DEF WithAffinity, Cast
  <2> QED
    BY <1>2, <2>2, <2>3, <2>4 DEF OfAffinity, stored
<1>3. CASE v # Null /\ affinity # "TEXT" /\ ~IsNumber(v)
  <2>1. stored = v
    BY <1>3 DEF WithAffinity
  <2> HIDE DEF stored
  <2>2. WithAffinity(affinity, stored) = stored
    BY <2>1 DEF stored
  <2> QED
    BY <1>3, <2>1, <2>2 DEF stored
<1>4. CASE v # Null /\ affinity # "TEXT" /\ IsNumber(v)
  <2> DEFINE h == Quarters(v)
  <2>1. h \in Int /\ Comparable(v) = <<"number", h>>
    BY <1>4, QuartersAreInt DEF Comparable
  <2>2. CASE affinity = "INTEGER" /\ h % 4 = 0
    <3>1. stored = Integer(h \div 4)
      BY <1>4, <2>2 DEF WithAffinity
    <3>2. h \div 4 \in Int /\ 4 * (h \div 4) = h
      BY <2>1, <2>2, Nearby
    <3>3. Storable(stored) /\ stored # Null /\ stored[1] = "integer"
      BY <3>1, <3>2, Classes
    <3>4. Comparable(stored) = <<"number", h>>
      BY <3>1, <3>2, Comparisons
    <3>5. ASSUME v[1] = "integer" PROVE stored = v
      <4>1. v = Integer(v[2]) /\ v[2] \in Int
        BY <1>4, <3>5, Numbers
      <4>2. h = 4 * v[2]
        BY <4>1, QuartersOf
      <4>3. h \div 4 = v[2]
        BY <2>1, <3>2, <4>1, <4>2
      <4> QED
        BY <3>1, <4>1, <4>3
    <3>6. WithAffinity(affinity, Integer(h \div 4)) = Integer(h \div 4)
      <4> DEFINE k == h \div 4
      <4>1. k \in Int /\ (4 * k) % 4 = 0 /\ (4 * k) \div 4 = k
        BY <3>2
      <4>2. IsNumber(Integer(k)) /\ Quarters(Integer(k)) = 4 * k
        BY Classes, QuartersOf DEF IsNumber
      <4> HIDE DEF k
      <4>3. WithAffinity(affinity, Integer(k)) = Integer(k)
        BY <2>2, <4>1, <4>2 DEF WithAffinity
      <4> QED
        BY <4>3 DEF k
    <3> QED
      BY <1>4, <2>1, <2>2, <3>1, <3>3, <3>4, <3>5, <3>6 DEF OfAffinity
  <2>3. CASE ~(affinity = "INTEGER" /\ h % 4 = 0)
    <3>1. stored = Real(h)
      BY <1>4, <2>3 DEF WithAffinity
    <3>2. Storable(stored) /\ stored # Null /\ stored[1] = "real"
      BY <2>1, <3>1, Classes
    <3>3. Comparable(stored) = <<"number", h>>
      BY <3>1, Comparisons
    <3>4. v[1] = "real" => stored = v
      BY <1>4, <3>1, Numbers, QuartersOf
    <3>5. v[1] = "integer" => h % 4 = 0
      <4>1. ASSUME v[1] = "integer" PROVE v[2] \in Int /\ h = 4 * v[2]
        BY <1>4, <4>1, Numbers, QuartersOf
      <4> QED
        BY <4>1
    <3>6. WithAffinity(affinity, Real(h)) = Real(h)
      <4>1. IsNumber(Real(h)) /\ Quarters(Real(h)) = h
        BY Classes, QuartersOf DEF IsNumber
      <4> HIDE DEF h
      <4> QED
        BY <1>4, <2>3, <4>1 DEF WithAffinity
    <3> QED
      BY <1>4, <2>1, <2>3, <3>1, <3>2, <3>3, <3>4, <3>5, <3>6 DEF OfAffinity, Affinities
  <2> QED
    BY <2>2, <2>3
<1> QED
  BY <1>1, <1>2, <1>3, <1>4

-----------------------------------------------------------------------------
(***************************************************************************)
(* Witnesses.  What the gate asks for is there where the rebuild uses it.  *)
(***************************************************************************)
\* A witness whose values are a manifest's and JSON's.
SoundWitness(w) ==
  /\ Storable(w.value) \/ IsBool(w.value)
  /\ \A v \in DOMAIN w.remap : IsText(v) /\ IsText(w.remap[v])
  /\ w.kind = "coerce" => w.mode \in {"truncate", "round", "fail"}

\* A destructive operation that needs a witness has one of its kind.
LEMMA NeededIsGiven ==
  ASSUME NEW old, NEW new, NEW witnesses, Admitted(old, new, Kinds(witnesses)),
         NEW op \in Diff(old, new), Classify(op, old, new) = "destructive",
         NEW kind, WitnessNeeded(op, old, new) = {kind}
  PROVE  op.field \in DOMAIN witnesses /\ witnesses[op.field].kind = kind
<1>1. HasDestructive(old, new)
  BY DEF HasDestructive, Destructive
<1>2. op \notin MissingWitnesses(old, new, Kinds(witnesses))
  BY <1>1 DEF Admitted
<1>3. Witness(op, Kinds(witnesses)) = {kind}
  BY <1>2 DEF MissingWitnesses
<1>4. kind \in Witness(op, Kinds(witnesses))
  BY <1>3
<1> QED
  BY <1>4 DEF Witness, Kinds

\* Those an operation carries are among those there are.
LEMMA CarriedAreSound ==
  ASSUME NEW oe, NEW ne, NEW witnesses, \A f \in DOMAIN witnesses : SoundWitness(witnesses[f])
  PROVE  \A f \in DOMAIN Carried(oe, ne, witnesses) : SoundWitness(Carried(oe, ne, witnesses)[f])
BY DEF Carried

\* The witness a field has.
LEMMA WitnessIsOne ==
  ASSUME NEW witnesses, NEW f
  PROVE  /\ f \in DOMAIN witnesses =>
              /\ (CHOOSE w \in WitnessOf(f, witnesses) : TRUE) = witnesses[f]
              /\ \A kind : OfKind(f, witnesses, kind) = IF witnesses[f].kind = kind THEN {witnesses[f]} ELSE {}
         /\ f \notin DOMAIN witnesses => \A kind : OfKind(f, witnesses, kind) = {}
<1>1. CASE f \in DOMAIN witnesses
  <2>1. WitnessOf(f, witnesses) = {witnesses[f]}
    BY <1>1 DEF WitnessOf
  <2> QED
    BY <1>1, <2>1 DEF OfKind
<1>2. CASE f \notin DOMAIN witnesses
  BY <1>2 DEF WitnessOf, OfKind
<1> QED
  BY <1>1, <1>2

\* What the witness of a changed or a new field is, if the changeset is admitted.
Witnessed(f, oe, ne, witnesses) ==
  LET carried == Carried(oe, ne, witnesses)
      of == oe.fields[f]
      nf == ne.fields[f]
      Given(kind) == /\ f \in DOMAIN witnesses /\ f \in DOMAIN carried
                     /\ carried[f] = witnesses[f] /\ witnesses[f].kind = kind
  IN /\ f \in KeptFields(oe, ne) /\ of.type # nf.type /\ ~IsWidening(of.type, nf.type) => Given("coerce")
     /\ f \in KeptFields(oe, ne) /\ nf.required /\ ~of.required => Given("backfill")
     /\ f \in AddedFields(oe, ne) /\ NeedsBackfill(nf) => Given("backfill")

LEMMA AdmittedIsWitnessed ==
  ASSUME NEW old, NEW new, NEW witnesses, Admitted(old, new, Kinds(witnesses)),
         NEW e \in Kept(old, new), NEW f
  PROVE  Witnessed(f, old[e], new[e], witnesses)
<1> DEFINE oe == old[e]
           ne == new[e]
           of == oe.fields[f]
           nf == ne.fields[f]
           carried == Carried(oe, ne, witnesses)
           Given(kind) == /\ f \in DOMAIN witnesses /\ f \in DOMAIN carried
                          /\ carried[f] = witnesses[f] /\ witnesses[f].kind = kind
<1>1. ASSUME NEW k, NEW kind, Operation(k, e, f) \in Diff(old, new),
             Operation(k, "", f) \in DiffEntity("", oe, ne),
             Classify(Operation(k, e, f), old, new) = "destructive",
             WitnessNeeded(Operation(k, e, f), old, new) = {kind}
      PROVE  Given(kind)
  <2>1. Operation(k, e, f).field = f
    BY DEF Operation
  <2> DEFINE op == Operation(k, e, f)
  <2>2. op \in Diff(old, new) /\ Classify(op, old, new) = "destructive" /\ WitnessNeeded(op, old, new) = {kind}
    BY <1>1
  <2> HIDE DEF op
  <2>3. op.field \in DOMAIN witnesses /\ witnesses[op.field].kind = kind
    BY <2>2, NeededIsGiven
  <2>4. f \in DOMAIN witnesses /\ witnesses[f].kind = kind
    BY <2>1, <2>3 DEF op
  <2>5. Operation(k, "", f) \in DiffEntity("", oe, ne) /\ Operation(k, "", f).field = f
    BY <1>1 DEF Operation
  <2>6. f \in {x.field : x \in DiffEntity("", oe, ne)}
    BY <2>5
  <2>7. f \in DOMAIN carried /\ carried[f] = witnesses[f]
    BY <2>4, <2>6 DEF Carried
  <2> QED
    BY <2>4, <2>7
<1>2. ASSUME f \in KeptFields(oe, ne), NEW k \in FieldChanges(of, nf)
      PROVE  Operation(k, e, f) \in Diff(old, new) /\ Operation(k, "", f) \in DiffEntity("", oe, ne)
  BY <1>2, FieldOperations, KeptOperations
<1>3. f \in KeptFields(oe, ne) /\ of.type # nf.type /\ ~IsWidening(of.type, nf.type) => Given("coerce")
  <2> SUFFICES ASSUME f \in KeptFields(oe, ne), of.type # nf.type, ~IsWidening(of.type, nf.type)
               PROVE  Given("coerce")
    OBVIOUS
  <2>1. "change_type" \in FieldChanges(of, nf)
    BY DEF FieldChanges, FieldOpKinds
  <2>2. Classify(Operation("change_type", e, f), old, new) = "destructive"
    BY OperationKind DEF Classify
  <2>3. WitnessNeeded(Operation("change_type", e, f), old, new) = {"coerce"}
    <3> DEFINE op == Operation("change_type", e, f)
    <3>1. op.kind = "change_type" /\ op.entity = e /\ op.field = f
      BY OperationKind
    <3> HIDE DEF op
    <3>2. WitnessNeeded(op, old, new) = {"coerce"}
      BY <3>1 DEF WitnessNeeded
    <3> QED
      BY <3>2 DEF op
  <2> QED
    BY <1>1, <1>2, <2>1, <2>2, <2>3
<1>4. f \in KeptFields(oe, ne) /\ nf.required /\ ~of.required => Given("backfill")
  <2> SUFFICES ASSUME f \in KeptFields(oe, ne), nf.required, ~of.required
               PROVE  Given("backfill")
    OBVIOUS
  <2>1. "change_required" \in FieldChanges(of, nf)
    BY DEF FieldChanges, FieldOpKinds
  <2>2. Classify(Operation("change_required", e, f), old, new) = "destructive"
    BY OperationKind DEF Classify
  <2>3. WitnessNeeded(Operation("change_required", e, f), old, new) = {"backfill"}
    BY OperationKind DEF WitnessNeeded
  <2> QED
    BY <1>1, <1>2, <2>1, <2>2, <2>3
<1>5. f \in AddedFields(oe, ne) /\ NeedsBackfill(nf) => Given("backfill")
  <2> SUFFICES ASSUME f \in AddedFields(oe, ne), NeedsBackfill(nf)
               PROVE  Given("backfill")
    OBVIOUS
  <2>1. Operation("add_field", e, f) \in Diff(old, new) /\ Operation("add_field", "", f) \in DiffEntity("", oe, ne)
    BY FieldOperations, KeptOperations
  <2>2. Classify(Operation("add_field", e, f), old, new) = "destructive"
    BY OperationKind DEF Classify
  <2>3. WitnessNeeded(Operation("add_field", e, f), old, new) = {"backfill"}
    BY OperationKind DEF WitnessNeeded
  <2> QED
    BY <1>1, <2>1, <2>2, <2>3
<1> QED
  BY <1>3, <1>4, <1>5 DEF Witnessed

-----------------------------------------------------------------------------
(***************************************************************************)
(* The expressions of a rebuild, and what is stored of them.               *)
(***************************************************************************)
LEMMA TypesHaveAffinities ==
  /\ \A type : Affinity(type) \in Affinities
  /\ Affinity("integer") = "INTEGER" /\ Affinity("boolean") = "INTEGER" /\ Affinity("real") = "REAL"
  /\ \A type \in {"text", "datetime", "enum", "reference"} : Affinity(type) = "TEXT"
BY DEF Affinity, Affinities

\* The literal of a default or of a backfill can be stored, and is of its field's
\* class if the value is.
LEMMA Literals ==
  ASSUME ScalarsAreRendered, NEW type \in FieldTypes, NEW value, Storable(value) \/ IsBool(value)
  PROVE  LET literal == SqlLiteral(value, type)
         IN /\ Storable(literal) /\ (literal = Null <=> value = Null)
            /\ value # Null /\ Suits(type, value) => OfAffinity(Affinity(type), literal)
<1> DEFINE literal == SqlLiteral(value, type)
<1>0. \A b : Bool(b)[1] = "bool"
  BY DEF Bool
<1>1. IsBool(value) => value # Null /\ value[1] = "bool"
  BY <1>0, Classes DEF IsBool
<1>2. CASE value = Null
  <2>1. literal = Null
    BY <1>2, Classes DEF SqlLiteral
  <2> QED
    BY <1>2, <2>1, Classes
<1>3. CASE value # Null /\ type \in {"integer", "real"} /\ value[1] \in {"integer", "real"}
  <2>1. Storable(value)
    BY <1>1, <1>3
  <2>2. Quarters(value) \in Int
    BY <1>3, <2>1, QuartersAreInt
  <2>3. literal = IF type = "integer" THEN Integer(Truncate(Quarters(value))) ELSE Real(Quarters(value))
    BY <1>3 DEF SqlLiteral
  <2> QED
    BY <1>3, <2>2, <2>3, Nearby, Classes, TypesHaveAffinities DEF OfAffinity
<1>4. CASE value # Null /\ type = "boolean" /\ value[1] = "bool"
  <2>1. literal = Integer(IF value[2] THEN 1 ELSE 0)
    BY <1>4 DEF SqlLiteral
  <2>2. (IF value[2] THEN 1 ELSE 0) \in Int
    OBVIOUS
  <2> QED
    BY <1>4, <2>1, <2>2, Classes, TypesHaveAffinities DEF OfAffinity
<1>5. CASE /\ value # Null
           /\ ~(type \in {"integer", "real"} /\ value[1] \in {"integer", "real"})
           /\ ~(type = "boolean" /\ value[1] = "bool")
  <2>1. literal = IF value[1] = "text" THEN value ELSE Rendered[value]
    BY <1>5 DEF SqlLiteral
  <2>2. IsText(literal)
    <3>1. CASE value[1] = "text"
      BY <1>1, <1>5, <2>1, <3>1, Numbers
    <3>2. CASE value[1] # "text" /\ Storable(value)
      BY <1>5, <2>1, <3>2, RenderingKeeps
    <3>3. CASE IsBool(value)
      <4>1. value \in DOMAIN Rendered
        BY <3>3 DEF ScalarsAreRendered, IsBool
      <4> QED
        BY <1>1, <2>1, <3>3, <4>1, RenderedIsExact
    <3> QED
      BY <3>1, <3>2, <3>3
  <2>3. Storable(literal) /\ literal # Null /\ literal[1] = "text"
    BY <2>2, Classes DEF IsText
  <2>4. Suits(type, value) => type \in {"text", "datetime", "enum", "reference"}
    BY <1>5 DEF Suits, FieldTypes
  <2> QED
    BY <1>5, <2>3, <2>4, TypesHaveAffinities DEF OfAffinity
<1> QED
  BY <1>2, <1>3, <1>4, <1>5

\* A value a field's column stores as it is, and one of the column's class.
Settled(type, v) == Storable(v) /\ WithAffinity(Affinity(type), v) = v

Fits(type, v) == Storable(v) /\ (v # Null => OfAffinity(Affinity(type), v))

LEMMA FittingIsStored ==
  ASSUME ScalarsAreRendered, NEW type, NEW v, Fits(type, v)
  PROVE  Settled(type, v)
<1>1. v = Null => WithAffinity(Affinity(type), v) = v
  BY AffinityKeeps, TypesHaveAffinities, Classes
<1> QED
  BY <1>1, AffinityKeeps, TypesHaveAffinities DEF Fits, Settled

\* What is written into a column is settled.
LEMMA WritingSettles ==
  ASSUME ScalarsAreRendered, NEW type, NEW v, Storable(v)
  PROVE  Settled(type, WithAffinity(Affinity(type), v))
BY AffinityKeeps, TypesHaveAffinities DEF Settled

\* A value a manifest may give as a default.
LEMMA DefaultsSuit ==
  ASSUME NEW field, NEW entities, ValidField(field, entities), \A v \in field.values : IsText(v),
         NEW value \in field.default
  PROVE  field.type \in FieldTypes /\ Suits(field.type, value) /\ value # Null
<1>1. ValidDefault(field, value) /\ field.type \in FieldTypes
  BY DEF ValidField
<1>2. value[1] # "null" => value # Null
  BY Classes
<1>3. field.type = "enum" => value # Null
  BY <1>1, Classes DEF ValidDefault
<1> QED
  BY <1>1, <1>2, <1>3 DEF ValidDefault, Suits

\* A new field is filled with its default, its backfill or nothing.
LEMMA FilledFits ==
  ASSUME ScalarsAreRendered, NEW f, NEW new, NEW entities, ValidField(new, entities),
         \A v \in new.values : IsText(v),
         \A v \in new.default : Storable(v) \/ IsBool(v),
         NEW carried,
         NeedsBackfill(new) =>
           f \in DOMAIN carried /\ (Storable(carried[f].value) \/ IsBool(carried[f].value))
  PROVE  /\ Storable(FilledIn(f, new, carried))
         /\ (NeedsBackfill(new) => Suits(new.type, carried[f].value)) =>
              Fits(new.type, FilledIn(f, new, carried))
<1>0. new.type \in FieldTypes
  BY DEF ValidField
<1>1. CASE HasDefault(new)
  <2> DEFINE value == CHOOSE v \in new.default : TRUE
  <2>1. value \in new.default
    BY <1>1 DEF HasDefault
  <2>2. FilledIn(f, new, carried) = SqlLiteral(value, new.type)
    BY <1>1 DEF FilledIn
  <2>3. Suits(new.type, value) /\ value # Null
    BY <2>1, DefaultsSuit
  <2> HIDE DEF value
  <2> QED
    BY <1>0, <2>1, <2>2, <2>3, Literals DEF Fits
<1>2. CASE ~HasDefault(new) /\ new.required
  <2>1. f \in DOMAIN carried /\ (Storable(carried[f].value) \/ IsBool(carried[f].value))
        /\ NeedsBackfill(new)
    BY <1>2 DEF NeedsBackfill
  <2>2. FilledIn(f, new, carried) = SqlLiteral(carried[f].value, new.type)
    BY <1>2, <2>1, WitnessIsOne DEF FilledIn
  <2> QED
    BY <1>0, <2>1, <2>2, Literals DEF Fits
<1>3. CASE ~HasDefault(new) /\ ~new.required
  BY <1>3, Classes DEF FilledIn, Fits
<1> QED
  BY <1>1, <1>2, <1>3

\* A remap of the value, if its field has one.
Remaps(f, v, new, carried) ==
  {w \in OfKind(f, carried, "remap") : new.type = "enum" /\ v \in DOMAIN w.remap}

\* A field that keeps its type keeps its values, but for the nulls that are
\* backfilled and the enum values that are remapped.
SameValue(f, v, old, new, carried, after) ==
  /\ v = Null => after = IF new.required /\ ~old.required
                         THEN WithAffinity(Affinity(new.type), SqlLiteral(carried[f].value, new.type))
                         ELSE Null
  /\ v # Null => IF Remaps(f, v, new, carried) # {}
                 THEN f \in DOMAIN carried /\ carried[f] \in Remaps(f, v, new, carried)
                      /\ after = carried[f].remap[v]
                 ELSE after = v

LEMMA SelectsSame ==
  ASSUME ScalarsAreRendered, NEW f, NEW v, NEW old, NEW new,
         new.type \in FieldTypes, old.type = new.type, Settled(old.type, v),
         NEW carried, \A g \in DOMAIN carried : SoundWitness(carried[g]),
         new.required /\ ~old.required => f \in DOMAIN carried /\ carried[f].kind = "backfill"
  PROVE  LET after == WithAffinity(Affinity(new.type), SelectExpr(f, v, old, new, carried))
         IN /\ Settled(new.type, after)
            /\ SameValue(f, v, old, new, carried, after)
            /\ /\ Fits(old.type, v)
               /\ new.required /\ ~old.required => Suits(new.type, carried[f].value)
               => Fits(new.type, after)
<1> DEFINE selected == SelectExpr(f, v, old, new, carried)
           after == WithAffinity(Affinity(new.type), selected)
           witness == CHOOSE w \in WitnessOf(f, carried) : TRUE
           remapped == IF new.type = "enum" /\ OfKind(f, carried, "remap") # {}
                       THEN RemapExpr(v, witness) ELSE v
           filled == SqlLiteral(carried[f].value, new.type)
           suited == new.required /\ ~old.required => Suits(new.type, carried[f].value)
<1>0. Storable(v) /\ WithAffinity(Affinity(new.type), v) = v
  BY DEF Settled
<1>1. selected = IF new.required /\ ~old.required THEN Coalesce(remapped, witness, new.type) ELSE remapped
  BY DEF SelectExpr, IsWidening
<1>2. f \in DOMAIN carried => witness = carried[f]
  BY WitnessIsOne
<1>3. IF Remaps(f, v, new, carried) # {}
      THEN f \in DOMAIN carried /\ carried[f] \in Remaps(f, v, new, carried) /\ remapped = carried[f].remap[v]
           /\ IsText(v) /\ IsText(remapped)
      ELSE remapped = v
  <2>1. CASE f \in DOMAIN carried /\ carried[f].kind = "remap"
    <3>1. OfKind(f, carried, "remap") = {carried[f]}
      BY <2>1, WitnessIsOne
    <3>2. \A x \in DOMAIN carried[f].remap : IsText(x) /\ IsText(carried[f].remap[x])
      BY <2>1 DEF SoundWitness
    <3>3. CASE new.type = "enum" /\ v \in DOMAIN carried[f].remap
      <4>1. carried[f] \in Remaps(f, v, new, carried)
        BY <3>1, <3>3 DEF Remaps
      <4>2. remapped = carried[f].remap[v]
        BY <1>2, <2>1, <3>1, <3>3 DEF RemapExpr
      <4> QED
        BY <2>1, <3>2, <3>3, <4>1, <4>2
    <3>4. CASE ~(new.type = "enum" /\ v \in DOMAIN carried[f].remap)
      <4>1. Remaps(f, v, new, carried) = {}
        BY <3>1, <3>4 DEF Remaps
      <4>2. remapped = v
        BY <1>2, <2>1, <3>4 DEF RemapExpr
      <4> QED
        BY <4>1, <4>2
    <3> QED
      BY <3>3, <3>4
  <2>2. CASE ~(f \in DOMAIN carried /\ carried[f].kind = "remap")
    <3>1. OfKind(f, carried, "remap") = {}
      BY <2>2, WitnessIsOne
    <3>2. Remaps(f, v, new, carried) = {}
      BY <3>1 DEF Remaps
    <3> QED
      BY <3>1, <3>2
  <2> QED
    BY <2>1, <2>2
<1> HIDE DEF remapped, witness
<1>4. /\ Settled(new.type, remapped) /\ (v = Null => remapped = Null) /\ (v # Null => remapped # Null)
      /\ Fits(old.type, v) => Fits(new.type, remapped)
  <2>1. CASE Remaps(f, v, new, carried) # {}
    <3>1. new.type = "enum"
      BY <2>1 DEF Remaps
    <3>2. IsText(v) /\ IsText(remapped)
      BY <1>3, <2>1
    <3>3. Fits(new.type, remapped)
      BY <3>1, <3>2, Classes, TypesHaveAffinities DEF Fits, OfAffinity, IsText
    <3> QED
      BY <3>2, <3>3, Classes, FittingIsStored
  <2>2. CASE Remaps(f, v, new, carried) = {}
    BY <1>0, <1>3, <2>2 DEF Settled
  <2> QED
    BY <2>1, <2>2
<1>5. new.required /\ ~old.required =>
        /\ Storable(filled) /\ Remaps(f, v, new, carried) = {}
        /\ Suits(new.type, carried[f].value) => Fits(new.type, filled)
  <2> SUFFICES ASSUME new.required /\ ~old.required
               PROVE  /\ Storable(filled) /\ Remaps(f, v, new, carried) = {}
                      /\ Suits(new.type, carried[f].value) => Fits(new.type, filled)
    OBVIOUS
  <2>1. OfKind(f, carried, "remap") = {}
    BY WitnessIsOne
  <2>2. Storable(carried[f].value) \/ IsBool(carried[f].value)
    BY DEF SoundWitness
  <2>3. Storable(filled) /\ (Suits(new.type, carried[f].value) => Fits(new.type, filled))
    BY <2>2, Literals DEF Fits
  <2> QED
    BY <2>1, <2>3 DEF Remaps
<1> HIDE DEF filled
<1>6. CASE new.required /\ ~old.required
  <2>1. selected = IF v = Null THEN filled ELSE v
    BY <1>1, <1>2, <1>3, <1>5, <1>6 DEF Coalesce, filled
  <2>2. Storable(selected)
    BY <1>0, <1>5, <1>6, <2>1
  <2>3. Settled(new.type, after)
    BY <2>2, WritingSettles
  <2>4. v # Null => after = v
    BY <1>0, <2>1
  <2>5. ASSUME Fits(old.type, v), suited
        PROVE  Fits(new.type, after)
    <3>1. Fits(new.type, selected)
      BY <1>5, <1>6, <2>1, <2>5
    <3> QED
      BY <3>1, FittingIsStored DEF Settled
  <2> QED
    BY <1>5, <1>6, <2>1, <2>3, <2>4, <2>5 DEF SameValue, filled
<1>7. CASE ~(new.required /\ ~old.required)
  <2>1. selected = remapped
    BY <1>1, <1>7
  <2>2. after = remapped /\ Settled(new.type, after)
    BY <1>4, <2>1 DEF Settled
  <2> QED
    BY <1>3, <1>4, <1>7, <2>2 DEF SameValue
<1> QED
  BY <1>6, <1>7

\* A widened field keeps what its values are worth.
LEMMA SelectsWider ==
  ASSUME ScalarsAreRendered, NEW f, NEW v, NEW old, NEW new,
         IsWidening(old.type, new.type), Storable(v), NEW carried
  PROVE  LET after == WithAffinity(Affinity(new.type), SelectExpr(f, v, old, new, carried))
         IN /\ Settled(new.type, after)
            /\ Comparable(after) = Comparable(v) /\ (v = Null <=> after = Null)
            /\ Fits(old.type, v) => Fits(new.type, after)
<1>1. old.type = "integer" /\ new.type = "real"
  BY DEF IsWidening
<1>2. SelectExpr(f, v, old, new, carried) = v
  BY <1>1 DEF SelectExpr
<1>3. Fits(old.type, v) /\ v # Null => IsNumber(v)
  BY <1>1, TypesHaveAffinities DEF Fits, OfAffinity, IsNumber
<1>4. v = Null => WithAffinity(Affinity(new.type), v) = v
  BY AffinityKeeps, TypesHaveAffinities
<1> QED
  BY <1>1, <1>2, <1>3, <1>4, AffinityKeeps, WritingSettles, TypesHaveAffinities DEF Fits

\* A narrowed field has what its witness makes of its values; where the witness is
\* to fail, the guard has found no value that would not come back.
LEMMA SelectsNarrower ==
  ASSUME ScalarsAreRendered, NEW f, NEW v, NEW old, NEW new,
         new.type \in FieldTypes, old.type # new.type, ~IsWidening(old.type, new.type), Storable(v),
         NEW carried, f \in DOMAIN carried, carried[f].kind = "coerce", SoundWitness(carried[f]),
         carried[f].mode = "fail" => ~LossGuard(v, new.type)
  PROVE  LET after == WithAffinity(Affinity(new.type), SelectExpr(f, v, old, new, carried))
         IN Fits(new.type, after) /\ Coerced(v, carried[f], new.type, after)
<1> DEFINE w == carried[f]
           affinity == Affinity(new.type)
           selected == SelectExpr(f, v, old, new, carried)
           after == WithAffinity(affinity, selected)
<1>1. selected = CoerceExpr(v, new.type, w.mode)
  BY WitnessIsOne DEF SelectExpr
<1>2. affinity \in Affinities
  BY TypesHaveAffinities
<1>3. CASE v = Null
  <2>1. selected = Null
    BY <1>1, <1>3 DEF CoerceExpr
  <2>2. after = Null
    BY <1>2, <2>1, AffinityKeeps, Classes
  <2> QED
    BY <1>3, <2>2, Classes DEF Fits, Coerced
<1>4. CASE v # Null /\ w.mode = "fail"
  <2>1. selected = v
    BY <1>1, <1>4 DEF CoerceExpr
  <2>2. after # Null /\ Storable(after) /\ Comparable(after) = Comparable(v)
    BY <1>2, <1>4, <2>1, AffinityKeeps
  <2>3. Comparable(v) = Comparable(Cast(v, affinity))
    BY <1>4 DEF LossGuard
  <2>4. OfAffinity(affinity, after)
    <3> HIDE DEF affinity, after
    <3>0. after = WithAffinity(affinity, v)
      BY <2>1 DEF after
    <3>1. affinity = "TEXT" \/ (IsNumber(v) /\ (affinity = "REAL" \/ Quarters(v) % 4 = 0)) =>
            OfAffinity(affinity, after)
      BY <1>2, <1>4, <3>0, AffinityKeeps
    <3>2. ASSUME NEW n, Comparable(v) = <<"number", n>>
          PROVE  IsNumber(v) /\ Quarters(v) = n
      <4>1. IsNumber(v)
        <5>1. ~IsNumber(v) => Comparable(v) = v
          BY DEF Comparable
        <5>2. v # <<"number", n>>
          BY <1>2, <1>4, Numbers
        <5> QED
          BY <3>2, <5>1, <5>2
      <4>2. Comparable(v) = <<"number", Quarters(v)>>
        BY <4>1 DEF Comparable
      <4> QED
        BY <3>2, <4>1, <4>2
    <3>3. CASE affinity = "REAL"
      <4>1. Comparable(v) = <<"number", Quarters(v)>>
        BY <1>2, <1>4, <2>3, <3>3, CastTo, Comparisons
      <4>2. IsNumber(v)
        BY <3>2, <4>1
      <4> QED
        BY <3>1, <3>3, <4>2
    <3>4. CASE affinity = "INTEGER"
      <4> DEFINE k == WholePart(v)
      <4>1. k \in Int
        BY <1>4, CastTo
      <4>2. Comparable(v) = <<"number", 4 * k>>
        BY <1>2, <1>4, <2>3, <3>4, CastTo, Comparisons
      <4>3. IsNumber(v) /\ Quarters(v) = 4 * k
        BY <3>2, <4>2
      <4> HIDE DEF k
      <4>4. (4 * k) % 4 = 0
        BY <4>1
      <4> QED
        BY <3>1, <3>4, <4>3, <4>4
    <3>5. CASE affinity = "TEXT"
      BY <3>1, <3>5
    <3>6. affinity = "INTEGER" \/ affinity = "REAL" \/ affinity = "TEXT"
      BY <1>2 DEF Affinities
    <3> QED
      BY <3>3, <3>4, <3>5, <3>6
  <2> QED
    BY <1>4, <2>2, <2>4 DEF Fits, Coerced
<1>5. CASE v # Null /\ w.mode # "fail"
  <2> DEFINE h == Quarters(v)
  <2>1. h \in Int
    BY <1>2, <1>5, QuartersAreInt
  <2>2. \/ w.mode = "round" /\ new.type = "integer" /\ selected = Integer(Round(h))
        \/ ~(w.mode = "round" /\ new.type = "integer") /\ selected = Cast(v, affinity)
    BY <1>1, <1>5 DEF CoerceExpr
  <2>3. Storable(selected) /\ selected # Null /\ OfAffinity(affinity, selected)
    <3>1. CASE w.mode = "round" /\ new.type = "integer"
      <4>1. selected = Integer(Round(h)) /\ affinity = "INTEGER"
        BY <2>2, <3>1, TypesHaveAffinities
      <4> QED
        BY <2>1, <4>1, Nearby, Classes DEF OfAffinity
    <3>2. CASE ~(w.mode = "round" /\ new.type = "integer")
      BY <1>2, <1>5, <2>2, <3>2, CastTo
    <3> QED
      BY <3>1, <3>2
  <2>4. after = selected
    BY <1>2, <2>3, AffinityKeeps
  <2>5. CASE affinity = "TEXT"
    <3>1. after = Cast(v, "TEXT")
      BY <2>2, <2>4, <2>5, TypesHaveAffinities
    <3>2. after[1] = "text" /\ Comparable(after) = Comparable(v)
      BY <1>2, <1>5, <3>1, CastTo DEF IsText
    <3>3. new.type # "real"
      BY <2>5, TypesHaveAffinities
    <3> QED
      BY <1>5, <2>3, <2>4, <2>5, <3>2, <3>3 DEF Fits, Coerced
  <2>6. CASE affinity = "REAL"
    <3>1. after = Real(h)
      BY <1>2, <1>5, <2>2, <2>4, <2>6, CastTo, TypesHaveAffinities
    <3> QED
      BY <1>5, <2>3, <2>4, <2>6, <3>1 DEF Fits, Coerced
  <2>7. CASE affinity = "INTEGER"
    <3>1. new.type # "real"
      BY <2>7, TypesHaveAffinities
    <3>2. CASE w.mode = "round" /\ new.type = "integer"
      <4>1. after = Integer(Round(h)) /\ after[2] = Round(h) /\ IsNearest(h, after[2])
        BY <2>1, <2>2, <2>4, <3>2, Classes, Nearby
      <4> QED
        BY <1>5, <2>3, <2>4, <2>7, <3>1, <3>2, <4>1 DEF Fits, Coerced
    <3>3. CASE ~(w.mode = "round" /\ new.type = "integer")
      <4>1. after = Integer(WholePart(v)) /\ after[2] = WholePart(v)
        BY <1>5, <2>2, <2>4, <2>7, <3>3, CastTo, Classes
      <4>2. IsWholeOf(v, WholePart(v))
        <5> HIDE DEF after
        <5>1. IsCut(h, Truncate(h))
          BY <2>1, Nearby
        <5> QED
          BY <5>1 DEF IsWholeOf, WholePart
      <4> QED
        BY <1>5, <2>3, <2>4, <2>7, <3>1, <3>3, <4>1, <4>2 DEF Fits, Coerced
    <3> QED
      BY <3>2, <3>3
  <2> QED
    BY <1>2, <2>5, <2>6, <2>7 DEF Affinities
<1> QED
  BY <1>3, <1>4, <1>5

-----------------------------------------------------------------------------
(***************************************************************************)
(* Rows.  What a migration makes of a value, by either path.               *)
(***************************************************************************)
\* The guard of coerce=fail has looked at the row.
Guarded(row, oe, ne, witnesses) ==
  \A f \in KeptFields(oe, ne) :
    (ne.fields[f].type # oe.fields[f].type /\ {w \in OfKind(f, witnesses, "coerce") : w.mode = "fail"} # {})
      => ~LossGuard(row[f], ne.fields[f].type)

\* A field that is backfilled is with a value of its type.
Suited(f, oe, ne, witnesses) ==
  f \in Backfilled(oe, ne) \cap DOMAIN witnesses /\ witnesses[f].kind = "backfill"
    => Suits(ne.fields[f].type, witnesses[f].value)

LEMMA ValuesMigrate ==
  ASSUME ScalarsAreRendered, NEW old \in Manifests, NEW new \in Manifests, BoundsAgree(old, new),
         NEW witnesses, \A g \in DOMAIN witnesses : SoundWitness(witnesses[g]),
         Admitted(old, new, Kinds(witnesses)),
         NEW e \in Kept(old, new), NEW row,
         \A g \in DOMAIN old[e].fields : Settled(old[e].fields[g].type, row[g]),
         Guarded(row, old[e], new[e], witnesses),
         NEW f \in DOMAIN new[e].fields
  PROVE  LET carried == Carried(old[e], new[e], witnesses)
             nf == new[e].fields[f]
             value == MigratedRow(row, old[e], new[e], carried)[f]
         IN /\ Settled(nf.type, value)
            /\ /\ Suited(f, old[e], new[e], witnesses)
               /\ f \in KeptFields(old[e], new[e]) => Fits(old[e].fields[f].type, row[f])
               => Fits(nf.type, value)
            /\ /\ f \in KeptFields(old[e], new[e])
               /\ row[f] = Null => ~old[e].fields[f].required
               /\ nf.type = "enum" /\ value # Null => value \in nf.values
               => Maps(f, row[f], old[e].fields[f], nf, carried, NeedsRebuild(old[e], new[e]), value)
            /\ /\ f \in KeptFields(old[e], new[e])
               /\ ~NeedsRebuild(old[e], new[e])
               => value = row[f]
<1> DEFINE oe == old[e]
           ne == new[e]
           of == oe.fields[f]
           nf == ne.fields[f]
           carried == Carried(oe, ne, witnesses)
           value == MigratedRow(row, oe, ne, carried)[f]
           v == row[f]
<1>1. /\ ValidField(nf, DOMAIN new) /\ (\A x \in nf.values : IsText(x))
      /\ \A x \in nf.default : Storable(x) \/ IsBool(x)
  BY ManifestsAreValid, FieldsAreValid, MembersAreValues DEF Kept
<1>2. \A g \in DOMAIN carried : SoundWitness(carried[g])
  BY CarriedAreSound
<1>3. Witnessed(f, oe, ne, witnesses)
  BY AdmittedIsWitnessed
<1>4. nf.type \in FieldTypes
  BY <1>1 DEF ValidField
<1>5. f \in KeptFields(oe, ne) => Settled(of.type, v) /\ Storable(v)
  BY DEF KeptFields, Settled
<1>6. CASE f \notin DOMAIN oe.fields
  <2>1. f \in AddedFields(oe, ne) /\ f \notin KeptFields(oe, ne)
    BY <1>6 DEF AddedFields, KeptFields
  <2>2. CASE NeedsRebuild(oe, ne)
    <3>1. value = WithAffinity(Affinity(nf.type), FilledIn(f, nf, carried))
      BY <1>6, <2>2 DEF MigratedRow, RebuiltRow
    <3>2. NeedsBackfill(nf) => /\ f \in DOMAIN carried
                               /\ Storable(carried[f].value) \/ IsBool(carried[f].value)
      BY <1>2, <1>3, <2>1 DEF Witnessed, SoundWitness
    <3>3. NeedsBackfill(nf) /\ Suited(f, oe, ne, witnesses) => Suits(nf.type, carried[f].value)
      <4>1. NeedsBackfill(nf) => f \in Backfilled(oe, ne)
        BY <1>6 DEF NeedsBackfill, Backfilled
      <4>2. NeedsBackfill(nf) =>
              f \in DOMAIN witnesses /\ witnesses[f].kind = "backfill" /\ carried[f] = witnesses[f]
        BY <1>3, <2>1 DEF Witnessed
      <4> QED
        BY <4>1, <4>2 DEF Suited
    <3> DEFINE filled == FilledIn(f, nf, carried)
    <3>4. Storable(filled) /\ (Suited(f, oe, ne, witnesses) => Fits(nf.type, filled))
      BY <1>1, <3>2, <3>3, FilledFits
    <3> HIDE DEF filled
    <3>5. Settled(nf.type, value) /\ (Fits(nf.type, filled) => value = filled)
      BY <3>1, <3>4, WritingSettles, FittingIsStored DEF filled, Settled
    <3> QED
      BY <2>1, <3>4, <3>5
  <2>3. CASE ~NeedsRebuild(oe, ne) /\ HasDefault(nf)
    <3> DEFINE default == CHOOSE x \in nf.default : TRUE
    <3>1. default \in nf.default
      BY <2>3 DEF HasDefault
    <3>2. value = WithAffinity(Affinity(nf.type), SqlLiteral(default, nf.type))
      BY <1>6, <2>3 DEF MigratedRow, NativeRow
    <3> HIDE DEF default
    <3>3. Suits(nf.type, default) /\ default # Null
      BY <1>1, <3>1, DefaultsSuit
    <3>4. Fits(nf.type, SqlLiteral(default, nf.type))
      BY <1>1, <1>4, <3>1, <3>3, Literals DEF Fits
    <3> QED
      BY <2>1, <3>2, <3>4, FittingIsStored DEF Settled
  <2>4. CASE ~NeedsRebuild(oe, ne) /\ ~HasDefault(nf)
    <3>1. value = Null
      BY <1>6, <2>4 DEF MigratedRow, NativeRow
    <3> QED
      BY <2>1, <3>1, Classes, FittingIsStored DEF Fits
  <2> QED
    BY <2>2, <2>3, <2>4
<1>7. CASE f \in DOMAIN oe.fields /\ ~NeedsRebuild(oe, ne)
  <2>1. f \in KeptFields(oe, ne)
    BY <1>7 DEF KeptFields
  <2>2. value = v
    BY <1>7 DEF MigratedRow, NativeRow
  <2>3. of.type = nf.type /\ of.required = nf.required
    <3>1. ValidField(of, DOMAIN old)
      BY <1>7, ManifestsAreValid, FieldsAreValid DEF Kept
    <3>2. FieldChanges(of, nf) \cap RebuildKinds = {}
      BY <1>7, <2>1 DEF NeedsRebuild
    <3>3. of.min = nf.min /\ of.max = nf.max
      BY <1>7, <2>1 DEF BoundsAgree
    <3> QED
      BY <1>1, <3>1, <3>2, <3>3, ColumnKept
  <2>4. ASSUME v = Null => ~of.required, nf.type = "enum" /\ value # Null => value \in nf.values
        PROVE  Maps(f, v, of, nf, carried, FALSE, value)
    <3>1. ~IsWidening(of.type, nf.type)
      BY <2>3 DEF IsWidening
    <3> QED
      BY <2>2, <2>3, <2>4, <3>1 DEF Maps
  <2>5. NeedsRebuild(oe, ne) = FALSE
    BY <1>7 DEF NeedsRebuild
  <2> QED
    BY <1>5, <1>7, <2>1, <2>2, <2>3, <2>4, <2>5
<1>8. CASE f \in DOMAIN oe.fields /\ NeedsRebuild(oe, ne)
  <2>1. f \in KeptFields(oe, ne)
    BY <1>8 DEF KeptFields
  <2>2. value = WithAffinity(Affinity(nf.type), SelectExpr(f, v, of, nf, carried))
    BY <1>8 DEF MigratedRow, RebuiltRow
  <2> HIDE DEF value
  <2>3. CASE of.type = nf.type
    <3> DEFINE remapping == Remaps(f, v, nf, carried)
    <3>1. nf.required /\ ~of.required =>
            /\ f \in DOMAIN carried /\ carried[f].kind = "backfill"
            /\ f \in DOMAIN witnesses /\ carried[f] = witnesses[f]
      BY <1>3, <2>1 DEF Witnessed
    <3>0. Suited(f, oe, ne, witnesses) =>
            (nf.required /\ ~of.required => Suits(nf.type, carried[f].value))
      <4>1. nf.required /\ ~of.required => f \in Backfilled(oe, ne)
        BY <1>8 DEF Backfilled
      <4> QED
        BY <3>1, <4>1 DEF Suited
    <3>2. /\ Settled(nf.type, value) /\ SameValue(f, v, of, nf, carried, value)
          /\ Suited(f, oe, ne, witnesses) /\ Fits(of.type, v) => Fits(nf.type, value)
      <4>1. Settled(of.type, v) /\ \A g \in DOMAIN carried : SoundWitness(carried[g])
        BY <1>2, <1>5, <2>1
      <4> DEFINE suited == nf.required /\ ~of.required => Suits(nf.type, carried[f].value)
                 after == WithAffinity(Affinity(nf.type), SelectExpr(f, v, of, nf, carried))
      <4>2. /\ Settled(nf.type, after) /\ SameValue(f, v, of, nf, carried, after)
            /\ suited /\ Fits(of.type, v) => Fits(nf.type, after)
        <5> HIDE DEF of, nf, carried, v
        <5> QED
          BY <1>4, <2>3, <3>1, <4>1, SelectsSame
      <4> QED
        BY <2>2, <3>0, <4>2
    <3>3. {w \in OfKind(f, carried, "remap") : NeedsRebuild(oe, ne) /\ nf.type = "enum" /\ v \in DOMAIN w.remap}
            = remapping
      BY <1>8 DEF Remaps
    <3>4. nf.required /\ ~of.required => carried[f] \in OfKind(f, carried, "backfill")
      BY <3>1, WitnessIsOne
    <3>5. ~IsWidening(of.type, nf.type)
      BY <2>3 DEF IsWidening
    <3> HIDE DEF remapping
    <3>6. ASSUME v = Null => ~of.required, nf.type = "enum" /\ value # Null => value \in nf.values
          PROVE  Maps(f, v, of, nf, carried, NeedsRebuild(oe, ne), value)
      <4>1. CASE v = Null
        BY <2>3, <3>2, <3>4, <3>5, <3>6, <4>1 DEF Maps, SameValue
      <4>2. CASE v # Null
        <5>1. IF remapping # {} THEN \E w \in remapping : value = w.remap[v]
              ELSE value = v /\ (nf.type = "enum" => v \in nf.values)
          BY <3>2, <3>6, <4>2 DEF SameValue, remapping
        <5> QED
          BY <2>3, <3>3, <3>5, <4>2, <5>1 DEF Maps
      <4> QED
        BY <4>1, <4>2
    <3> QED
      BY <1>8, <2>1, <3>2, <3>6 DEF value
  <2>4. CASE IsWidening(of.type, nf.type)
    <3>1. /\ Settled(nf.type, value) /\ Comparable(value) = Comparable(v)
          /\ Fits(of.type, v) => Fits(nf.type, value)
      BY <1>5, <2>1, <2>2, <2>4, SelectsWider
    <3>2. of.type # nf.type
      BY <2>4 DEF IsWidening
    <3>3. Maps(f, v, of, nf, carried, NeedsRebuild(oe, ne), value)
      BY <2>4, <3>1, <3>2 DEF Maps
    <3> QED
      BY <1>8, <2>1, <3>1, <3>3 DEF value
  <2>5. CASE of.type # nf.type /\ ~IsWidening(of.type, nf.type)
    <3>1. f \in DOMAIN witnesses /\ f \in DOMAIN carried /\ carried[f] = witnesses[f] /\ witnesses[f].kind = "coerce"
      BY <1>3, <2>1, <2>5 DEF Witnessed
    <3>2. carried[f].mode = "fail" => ~LossGuard(v, nf.type)
      <4>1. OfKind(f, witnesses, "coerce") = {witnesses[f]}
        BY <3>1, WitnessIsOne
      <4> QED
        BY <2>1, <2>5, <3>1, <4>1 DEF Guarded
    <3>3. Fits(nf.type, value) /\ Coerced(v, carried[f], nf.type, value)
      BY <1>2, <1>4, <1>5, <2>1, <2>2, <2>5, <3>1, <3>2, SelectsNarrower
    <3>4. carried[f] \in OfKind(f, carried, "coerce")
      BY <3>1, WitnessIsOne
    <3>5. Maps(f, v, of, nf, carried, NeedsRebuild(oe, ne), value)
      BY <2>5, <3>3, <3>4 DEF Maps
    <3> QED
      BY <1>8, <3>3, <3>5, FittingIsStored DEF value
  <2> QED
    BY <2>3, <2>4, <2>5
<1> QED
  BY <1>6, <1>7, <1>8

-----------------------------------------------------------------------------
(***************************************************************************)
(* The inductive invariant: the rows fit the tables.  StoredRowsHold asks  *)
(* about the manifest; what a migration reads is the database.  A backfill *)
(* of another type leaves a value that its column holds and that is not of *)
(* the column's class: what holds of every value is FitRows, and the class *)
(* as long as there was no such backfill.                                  *)
(***************************************************************************)
\* A value a column holds as it is.
Sits(col, v) == Storable(v) /\ WithAffinity(col.affinity, v) = v /\ ChecksHold(col, v)

FitRows(db, defs) ==
  /\ DOMAIN db = DOMAIN defs
  /\ \A e \in DOMAIN db : \A i \in DOMAIN db[e] : \A f \in DOMAIN defs[e].cols :
       Sits(defs[e].cols[f], db[e][i][f])
  /\ IndexesHold(db, defs)
  /\ ForeignKeyCheck(db, defs)

TypedRows(db, defs) ==
  \A e \in DOMAIN db : \A i \in DOMAIN db[e] : \A f \in DOMAIN defs[e].cols :
    db[e][i][f] # Null => OfAffinity(defs[e].cols[f].affinity, db[e][i][f])

RowInv ==
  /\ EvolutionInv
  /\ FitRows(rows, tables)
  /\ typed => TypedRows(rows, tables)

\* What a column holds is settled in its field, and what it admits is of the class
\* of the field as well.
LEMMA SittingMeans ==
  ASSUME NEW col, NEW field, Enforces(col, field), NEW v
  PROVE  /\ Sits(col, v) <=> Settled(field.type, v) /\ ChecksHold(col, v)
         /\ Sits(col, v) /\ v = Null => ~field.required
         /\ Storable(v) /\ Admits(col, v) => Fits(field.type, v) /\ ChecksHold(col, v)
<1>1. HasAffinity(col, v) => (v = Null \/ OfAffinity(col.affinity, v))
  BY DEF HasAffinity, OfAffinity
<1>2. Admits(col, v) => HasAffinity(col, v) /\ ChecksHold(col, v)
  BY DEF Admits, ChecksHold
<1>3. v = Null /\ ChecksHold(col, v) => ~col.notNull
  BY DEF ChecksHold
<1>4. col.affinity = Affinity(field.type) /\ col.notNull = field.required
  BY DEF Enforces
<1> QED
  BY <1>1, <1>2, <1>3, <1>4 DEF Fits, Sits, Settled

\* What a migration reads of the rows.
LEMMA RowsBefore ==
  ASSUME RowInv, NEW e \in DOMAIN manifest, NEW i \in DOMAIN rows[e]
  PROVE  \A f \in DOMAIN manifest[e].fields :
           /\ f \in DOMAIN tables[e].cols /\ Enforces(tables[e].cols[f], manifest[e].fields[f])
           /\ Sits(tables[e].cols[f], rows[e][i][f])
           /\ Settled(manifest[e].fields[f].type, rows[e][i][f])
           /\ typed => Fits(manifest[e].fields[f].type, rows[e][i][f])
           /\ rows[e][i][f] = Null => ~manifest[e].fields[f].required
<1> TAKE f \in DOMAIN manifest[e].fields
<1>1. DOMAIN rows = DOMAIN tables /\ DOMAIN tables = DOMAIN manifest /\ TableConforms(tables[e], manifest[e])
  BY DEF RowInv, EvolutionInv, FitRows, Conforms
<1>2. f \in DOMAIN tables[e].cols /\ Enforces(tables[e].cols[f], manifest[e].fields[f])
  BY <1>1 DEF TableConforms
<1>3. Sits(tables[e].cols[f], rows[e][i][f])
  BY <1>1, <1>2 DEF RowInv, FitRows
<1>4. typed => Fits(manifest[e].fields[f].type, rows[e][i][f])
  BY <1>1, <1>2, <1>3 DEF RowInv, TypedRows, Fits, Enforces, Sits
<1> QED
  BY <1>2, <1>3, <1>4, SittingMeans

\* No row is dropped with a table.
LEMMA RowsStay ==
  ASSUME NEW db, NEW old, NEW new, NEW witnesses, NEW e \in DOMAIN new
  PROVE  LET after == MigratedRows(db, old, new, witnesses)
         IN /\ DOMAIN after = DOMAIN new
            /\ e \notin DOMAIN old => DOMAIN after[e] = {}
            /\ e \in DOMAIN old =>
                 /\ DOMAIN after[e] = DOMAIN db[e]
                 /\ \A i \in DOMAIN db[e] :
                      after[e][i] = MigratedRow(db[e][i], old[e], new[e], Carried(old[e], new[e], witnesses))
<1>1. DroppedWithTable(e, db, old, new) = {}
  BY DEF DroppedWithTable
<1> QED
  BY <1>1 DEF MigratedRows

\* What a migration makes of each value there is.
LEMMA ValuesAfter ==
  ASSUME ScalarsAreRendered, BoundsAreKept, RowInv, NEW new \in Manifests,
         NEW witnesses, \A g \in DOMAIN witnesses : SoundWitness(witnesses[g]),
         Admitted(manifest, new, Kinds(witnesses)),
         EnforceCoerceFail(rows, manifest, new, witnesses),
         NEW e \in Kept(manifest, new), NEW i \in DOMAIN rows[e], NEW f \in DOMAIN new[e].fields
  PROVE  LET carried == Carried(manifest[e], new[e], witnesses)
             nf == new[e].fields[f]
             v == rows[e][i][f]
             value == MigratedRows(rows, manifest, new, witnesses)[e][i][f]
         IN /\ Settled(nf.type, value)
            /\ typed /\ WellTyped(manifest, new, witnesses) => Fits(nf.type, value)
            /\ /\ f \in KeptFields(manifest[e], new[e])
               /\ v = Null => ~manifest[e].fields[f].required
               /\ nf.type = "enum" /\ value # Null => value \in nf.values
               => Maps(f, v, manifest[e].fields[f], nf, carried, NeedsRebuild(manifest[e], new[e]), value)
            /\ /\ f \in KeptFields(manifest[e], new[e])
               /\ ~NeedsRebuild(manifest[e], new[e])
               => value = v
<1> DEFINE oe == manifest[e]
           ne == new[e]
           row == rows[e][i]
<1>1. e \in DOMAIN manifest /\ e \in DOMAIN new /\ manifest \in Manifests /\ BoundsAgree(manifest, new)
  BY DEF Kept, RowInv, EvolutionInv, BoundsAreKept
<1>2. /\ \A g \in DOMAIN oe.fields : Settled(oe.fields[g].type, row[g])
      /\ typed => \A g \in DOMAIN oe.fields : Fits(oe.fields[g].type, row[g])
  BY <1>1, RowsBefore
<1>3. Guarded(row, oe, ne, witnesses)
  <2> SUFFICES ASSUME NEW g \in KeptFields(oe, ne), ne.fields[g].type # oe.fields[g].type,
                      {w \in OfKind(g, witnesses, "coerce") : w.mode = "fail"} # {}
               PROVE  ~LossGuard(row[g], ne.fields[g].type)
    BY DEF Guarded
  <2>1. "change_type" \in FieldChanges(oe.fields[g], ne.fields[g])
    BY DEF FieldChanges, FieldOpKinds
  <2>2. NeedsRebuild(oe, ne)
    BY <2>1 DEF NeedsRebuild, RebuildKinds
  <2>3. e \in RebuiltEntities(manifest, new)
    BY <2>2 DEF RebuiltEntities
  <2> QED
    BY <2>3 DEF EnforceCoerceFail
<1>4. MigratedRows(rows, manifest, new, witnesses)[e][i]
        = MigratedRow(row, oe, ne, Carried(oe, ne, witnesses))
  BY <1>1, RowsStay
<1>5. /\ WellTyped(manifest, new, witnesses) => Suited(f, oe, ne, witnesses)
      /\ typed => (f \in KeptFields(oe, ne) => Fits(oe.fields[f].type, row[f]))
  BY <1>2 DEF WellTyped, Suited, KeptFields
<1> HIDE DEF row
<1> QED
  BY <1>1, <1>2, <1>3, <1>4, <1>5, ValuesMigrate DEF row

\* The rows of an accepted migration fit its tables.
LEMMA AcceptedRowsFit ==
  ASSUME ScalarsAreRendered, BoundsAreKept, RowInv, NEW new \in Manifests,
         NEW witnesses, \A g \in DOMAIN witnesses : SoundWitness(witnesses[g]),
         Admitted(manifest, new, Kinds(witnesses)),
         ~ChangesetRefused(tables, manifest, new), RowsAccepted(rows, manifest, new, witnesses)
  PROVE  LET after == MigratedRows(rows, manifest, new, witnesses)
             defs == ApplyChangeset(tables, manifest, new)
         IN /\ FitRows(after, defs)
            /\ typed /\ WellTyped(manifest, new, witnesses) => TypedRows(after, defs)
<1> DEFINE after == MigratedRows(rows, manifest, new, witnesses)
           defs == ApplyChangeset(tables, manifest, new)
<1>1. /\ manifest \in Manifests /\ ValidManifest(manifest) /\ ValidManifest(new)
      /\ BoundsAgree(manifest, new) /\ Conforms(tables, manifest)
  BY ManifestsAreValid DEF RowInv, EvolutionInv, BoundsAreKept
<1>2. Conforms(defs, new)
  BY <1>1, ExecutorIsSound
<1>3. DOMAIN defs = DOMAIN new /\ DOMAIN after = DOMAIN new
  BY <1>2 DEF Conforms, MigratedRows
<1>4. /\ EnforceCoerceFail(rows, manifest, new, witnesses) /\ ColumnsHold(after, defs, manifest, new)
      /\ IndexesHold(after, defs) /\ ForeignKeyCheck(after, defs)
  BY DEF RowsAccepted
<1>5. ASSUME NEW e \in DOMAIN after, NEW i \in DOMAIN after[e], NEW f \in DOMAIN defs[e].cols
      PROVE  /\ Sits(defs[e].cols[f], after[e][i][f])
             /\ typed /\ WellTyped(manifest, new, witnesses) /\ after[e][i][f] # Null =>
                  OfAffinity(defs[e].cols[f].affinity, after[e][i][f])
  <2> DEFINE value == after[e][i][f]
             col == defs[e].cols[f]
             oe == manifest[e]
             ne == new[e]
             nf == ne.fields[f]
  <2>1. e \in Kept(manifest, new) /\ i \in DOMAIN rows[e]
    BY <1>3, RowsStay DEF Kept
  <2>2. f \in DOMAIN ne.fields /\ Enforces(col, nf)
    BY <1>2, <1>3 DEF Conforms, TableConforms
  <2>3. /\ Settled(nf.type, value)
        /\ typed /\ WellTyped(manifest, new, witnesses) => Fits(nf.type, value)
        /\ f \in KeptFields(oe, ne) /\ ~NeedsRebuild(oe, ne) => value = rows[e][i][f]
    BY <1>4, <2>1, <2>2, ValuesAfter
  <2> HIDE DEF after, defs
  <2>4. ChecksHold(col, value)
    <3>1. CASE f \in CheckedColumns(e, manifest, new)
      BY <1>3, <1>4, <3>1 DEF ColumnsHold
    <3>2. CASE f \notin CheckedColumns(e, manifest, new)
      <4> DEFINE of == oe.fields[f]
      <4>1. e \in DOMAIN manifest
        BY <2>1 DEF Kept
      <4>2. ~NeedsRebuild(oe, ne) /\ f \notin AddedFields(oe, ne)
        BY <2>2, <3>2, <4>1 DEF CheckedColumns
      <4>3. f \in KeptFields(oe, ne) /\ f \in DOMAIN oe.fields
        BY <2>2, <4>2 DEF AddedFields, KeptFields
      <4>4. Enforces(tables[e].cols[f], of) /\ Sits(tables[e].cols[f], rows[e][i][f])
        BY <2>1, <4>1, <4>3, RowsBefore
      <4>5. ChecksHold(tables[e].cols[f], value)
        BY <2>3, <4>2, <4>3, <4>4 DEF Sits
      <4>6. Enforces(tables[e].cols[f], nf)
        <5>1. ValidField(of, DOMAIN manifest) /\ ValidField(nf, DOMAIN new)
          BY <1>1, <1>3, <2>2, <4>1, <4>3, FieldsAreValid
        <5>2. FieldChanges(of, nf) \cap RebuildKinds = {}
          BY <4>2, <4>3 DEF NeedsRebuild
        <5>3. of.min = nf.min /\ of.max = nf.max
          BY <1>1, <2>1, <4>2, <4>3 DEF BoundsAgree
        <5> QED
          BY <4>4, <5>1, <5>2, <5>3, ColumnKept
      <4> QED
        BY <2>2, <4>5, <4>6 DEF Enforces, ChecksHold
    <3> QED
      BY <3>1, <3>2
  <2>5. Sits(col, value)
    BY <2>2, <2>3, <2>4, SittingMeans
  <2> QED
    BY <2>2, <2>3, <2>5 DEF Fits, Enforces
<1> QED
  BY <1>3, <1>4, <1>5 DEF FitRows, TypedRows

\* Witnesses of operators are sound.
LEMMA WitnessesAreSound ==
  ASSUME NEW witnesses \in RowWitnesses
  PROVE  \A g \in DOMAIN witnesses : SoundWitness(witnesses[g])
BY WitnessesAreValues DEF SoundWitness

LEMMA RowInvInit == RowInit => RowInv
<1> SUFFICES ASSUME RowInit
             PROVE  RowInv
  OBVIOUS
<1>1. EvolutionInv
  BY EvolutionInit DEF RowInit
<1>2. DOMAIN rows = DOMAIN manifest /\ \A e \in DOMAIN rows : DOMAIN rows[e] = {}
  BY DEF RowInit
<1>3. DOMAIN tables = DOMAIN manifest
  BY <1>1 DEF EvolutionInv, Conforms
<1> QED
  BY <1>1, <1>2, <1>3 DEF RowInv, FitRows, TypedRows, IndexesHold, ForeignKeyCheck

\* A row that is inserted has been checked.
LEMMA InsertKeeps ==
  ASSUME ScalarsAreRendered, RowInv, NEW e \in DOMAIN manifest, NEW i \in RowIds,
         NEW row \in [DOMAIN manifest[e].fields -> Values \cup RowIds \cup {Null}], Insert(e, i, row)
  PROVE  RowInv'
<1>1. manifest' = manifest /\ tables' = tables /\ fingerprint' = fingerprint /\ typed' = typed
  BY DEF Insert
<1>2. DOMAIN rows = DOMAIN tables /\ DOMAIN tables = DOMAIN manifest /\ TableConforms(tables[e], manifest[e])
  BY DEF RowInv, EvolutionInv, FitRows, Conforms
<1>3. /\ DOMAIN rows' = DOMAIN rows
      /\ \A d \in DOMAIN rows : d # e => rows'[d] = rows[d]
      /\ DOMAIN rows'[e] = DOMAIN rows[e] \cup {i}
      /\ rows'[e][i] = row
      /\ \A j \in DOMAIN rows[e] : j # i => rows'[e][j] = rows[e][j]
  BY <1>2 DEF Insert
<1>4. IndexesHold(rows', tables) /\ ForeignKeyCheck(rows', tables)
  BY DEF Insert
<1>5. ASSUME NEW d \in DOMAIN rows', NEW j \in DOMAIN rows'[d], NEW f \in DOMAIN tables[d].cols
      PROVE  /\ Sits(tables[d].cols[f], rows'[d][j][f])
             /\ typed /\ rows'[d][j][f] # Null => OfAffinity(tables[d].cols[f].affinity, rows'[d][j][f])
  <2>1. CASE d = e /\ j = i
    <3>1. f \in DOMAIN row /\ row[f] \in Values \cup RowIds \cup {Null}
      BY <1>2, <2>1 DEF TableConforms
    <3>2. Storable(row[f])
      BY <3>1, ValuesAreStorable, RowIdsAreTexts, Classes
    <3>3. Admits(tables[e].cols[f], row[f])
      BY <3>1 DEF Insert
    <3>4. Enforces(tables[e].cols[f], manifest[e].fields[f])
      BY <1>2, <2>1 DEF TableConforms
    <3>5. Fits(manifest[e].fields[f].type, row[f]) /\ Sits(tables[e].cols[f], row[f])
      BY <3>2, <3>3, <3>4, SittingMeans, FittingIsStored
    <3> QED
      BY <1>3, <2>1, <3>4, <3>5 DEF Fits, Enforces
  <2>2. CASE ~(d = e /\ j = i)
    <3>1. d \in DOMAIN rows /\ j \in DOMAIN rows[d] /\ rows'[d][j] = rows[d][j]
      BY <1>3, <2>2
    <3> QED
      BY <3>1 DEF RowInv, FitRows, TypedRows
  <2> QED
    BY <2>1, <2>2
<1>6. FitRows(rows', tables) /\ (typed => TypedRows(rows', tables))
  BY <1>2, <1>3, <1>4, <1>5 DEF FitRows, TypedRows
<1> QED
  BY <1>1, <1>6 DEF RowInv, EvolutionInv

\* So have those of a migration.
LEMMA MigrateRowsKeeps ==
  ASSUME ScalarsAreRendered, BoundsAreKept, RowInv,
         NEW new \in Manifests, NEW witnesses \in RowWitnesses, MigrateRows(new, witnesses)
  PROVE  RowInv'
<1>1. EvolutionInv'
  BY MigrateKeeps DEF MigrateRows, RowInv
<1>2. CASE AllNoSQL(manifest, new)
  <2>1. rows' = rows /\ typed' = typed /\ tables' = tables
    BY <1>2 DEF MigrateRows, Migrate
  <2> QED
    BY <1>1, <2>1 DEF RowInv
<1>3. CASE ~AllNoSQL(manifest, new)
  <2>1. /\ Runs(new, witnesses)
        /\ rows' = MigratedRows(rows, manifest, new, witnesses)
        /\ typed' = (typed /\ WellTyped(manifest, new, witnesses))
        /\ tables' = ApplyChangeset(tables, manifest, new)
    BY <1>3 DEF MigrateRows, Migrate
  <2>2. /\ FitRows(rows', tables')
        /\ typed /\ WellTyped(manifest, new, witnesses) => TypedRows(rows', tables')
    BY <2>1, WitnessesAreSound, AcceptedRowsFit DEF Runs
  <2> QED
    BY <1>1, <2>1, <2>2 DEF RowInv
<1> QED
  BY <1>2, <1>3

LEMMA RowInvStep ==
  ASSUME ScalarsAreRendered, BoundsAreKept, RowInv, [RowNext]_rowVars
  PROVE  RowInv'
<1>1. CASE UNCHANGED rowVars
  BY <1>1 DEF RowInv, EvolutionInv, rowVars
<1>2. CASE RowNext
  BY <1>2, MigrateRowsKeeps, InsertKeeps DEF RowNext
<1> QED
  BY <1>1, <1>2

LEMMA RowInvHolds == ASSUME ScalarsAreRendered, BoundsAreKept PROVE RowSpec => []RowInv
<1>1. RowInv /\ [RowNext]_rowVars => RowInv'
  BY RowInvStep
<1> QED
  BY RowInvInit, <1>1, PTL DEF RowSpec

-----------------------------------------------------------------------------
(***************************************************************************)
(* What the invariant says of the rows.                                    *)
(***************************************************************************)
\* A CHECK says what the manifest says, of a value of the field's class.
LEMMA ChecksMean ==
  ASSUME NEW field, NEW entities, ValidField(field, entities), NEW col, Enforces(col, field),
         NEW v, Sits(col, v)
  PROVE  /\ v # Null /\ field.type = "enum" => v \in field.values
         /\ Fits(field.type, v) => Holds(field, v)
<1>1. v = Null => ~field.required
  BY SittingMeans
<1>2. CASE v = Null
  BY <1>1, <1>2 DEF Holds
<1>3. CASE v # Null
  <2>1. \A check \in Checks(field) : Satisfies(Affinity(field.type), v, check)
    BY <1>3 DEF Sits, ChecksHold, Enforces
  <2>2. field.type \in FieldTypes /\ (Fits(field.type, v) => OfAffinity(Affinity(field.type), v))
    BY <1>3 DEF ValidField, Fits
  <2>3. ASSUME field.type \in {"text", "integer", "real"}, Fits(field.type, v)
        PROVE  InBounds(field, v)
    <3>1. \A b \in field.min : Satisfies(Affinity(field.type), v, <<"min", b>>)
      BY <2>1, <2>3 DEF Checks
    <3>2. \A b \in field.max : Satisfies(Affinity(field.type), v, <<"max", b>>)
      BY <2>1, <2>3 DEF Checks
    <3>3. v[1] = "text" => Affinity(field.type) = "TEXT"
      BY <2>2, <2>3 DEF OfAffinity
    <3> QED
      BY <3>1, <3>2, <3>3 DEF Satisfies, InBounds
  <2>4. ASSUME field.type = "boolean"
        PROVE  v[2] \in {0, 1}
    <3>1. Satisfies(Affinity(field.type), v, <<"in", {Integer(0), Integer(1)}>>)
      BY <2>1, <2>4 DEF Checks
    <3>2. v \in {Integer(0), Integer(1)}
      BY <3>1 DEF Satisfies
    <3> QED
      BY <3>2, Classes
  <2>5. ASSUME field.type = "enum"
        PROVE  v \in field.values
    <3>1. Satisfies(Affinity(field.type), v, <<"in", field.values>>)
      BY <2>1, <2>5 DEF Checks
    <3> QED
      BY <3>1 DEF Satisfies
  <2>6. Fits(field.type, v) =>
          /\ field.type \in {"integer", "boolean"} => v[1] = "integer"
          /\ field.type = "real" => v[1] = "real"
          /\ field.type \notin {"integer", "boolean", "real"} => v[1] = "text"
    BY <2>2, TypesHaveAffinities DEF OfAffinity, FieldTypes
  <2> QED
    BY <1>3, <2>3, <2>4, <2>5, <2>6 DEF Holds
<1> QED
  BY <1>2, <1>3

\* However many migrations led to it, the rows are rows of the manifest (execute.go
\* and witness.go: every expression of a rebuild, every literal, every default), as
\* long as every backfill was a value of its field's type.
THEOREM RowsAreOfTheManifest ==
  ASSUME ScalarsAreRendered, BoundsAreKept PROVE RowSpec => []TypedRowsHold
<1>1. RowInv => TypedRowsHold
  <2> SUFFICES ASSUME RowInv, typed, NEW e \in DOMAIN manifest, NEW f \in DOMAIN manifest[e].fields,
                      NEW i \in DOMAIN rows[e]
               PROVE  LET field == manifest[e].fields[f]
                          v == rows[e][i][f]
                      IN /\ Holds(field, v)
                         /\ \A r \in field.ref : v # Null => v \in DOMAIN rows[r.target]
                         /\ field.unique /\ v # Null =>
                              \A j \in DOMAIN rows[e] : rows[e][j][f] = v => i = j
    BY DEF TypedRowsHold, StoredRowsHold
  <2> DEFINE field == manifest[e].fields[f]
             v == rows[e][i][f]
  <2>1. DOMAIN rows = DOMAIN tables /\ DOMAIN tables = DOMAIN manifest /\ TableConforms(tables[e], manifest[e])
    BY DEF RowInv, EvolutionInv, FitRows, Conforms
  <2>2. ValidField(field, DOMAIN manifest)
    BY ManifestsAreValid, FieldsAreValid DEF RowInv, EvolutionInv
  <2>3. /\ f \in DOMAIN tables[e].cols /\ Enforces(tables[e].cols[f], field)
        /\ Sits(tables[e].cols[f], v) /\ Fits(field.type, v)
    BY RowsBefore
  <2>4. Holds(field, v)
    BY <2>2, <2>3, ChecksMean
  <2>5. \A r \in field.ref : v # Null => v \in DOMAIN rows[r.target]
    BY <2>1, <2>3 DEF RowInv, FitRows, ForeignKeyCheck, Enforces
  <2>6. ASSUME field.unique, v # Null, NEW j \in DOMAIN rows[e], rows[e][j][f] = v
        PROVE  i = j
    <3>1. f \in tables[e].unique
      BY <2>1, <2>6 DEF TableConforms, UniqueFields
    <3> QED
      BY <2>1, <2>6, <3>1 DEF RowInv, FitRows, IndexesHold
  <2> QED
    BY <2>4, <2>5, <2>6
<1> QED
  BY <1>1, RowInvHolds, PTL

\* No row comes or goes with a migration of an entity that stays, and a new entity
\* has none (rebuildEntity, with foreign keys off).
THEOREM RowsAreKept ==
  ASSUME ScalarsAreRendered, BoundsAreKept PROVE RowSpec => RowsKept
<1> DEFINE Stays == manifest' # manifest =>
      \A e \in DOMAIN manifest' :
        DOMAIN rows'[e] = IF e \in DOMAIN manifest THEN DOMAIN rows[e] ELSE {}
<1>1. RowInv /\ [RowNext]_rowVars => [Stays]_rowVars
  <2> SUFFICES ASSUME RowInv, RowNext, manifest' # manifest
               PROVE  \A e \in DOMAIN manifest' :
                        DOMAIN rows'[e] = IF e \in DOMAIN manifest THEN DOMAIN rows[e] ELSE {}
    OBVIOUS
  <2>1. PICK new \in Manifests, witnesses \in RowWitnesses : MigrateRows(new, witnesses)
    BY DEF RowNext, Insert
  <2>2. manifest' = new
    BY <2>1 DEF MigrateRows, Migrate
  <2>3. CASE AllNoSQL(manifest, new)
    <3>1. rows' = rows
      BY <2>1, <2>3 DEF MigrateRows
    <3>2. Conforms(tables, manifest) /\ Conforms(tables, new)
      BY <2>3, ManifestsAreValid, RenamesChangeNothing DEF RowInv, EvolutionInv, BoundsAreKept
    <3>3. DOMAIN new = DOMAIN manifest
      BY <3>2 DEF Conforms
    <3> QED
      BY <2>2, <3>1, <3>3
  <2>4. CASE ~AllNoSQL(manifest, new)
    <3>1. rows' = MigratedRows(rows, manifest, new, witnesses)
      BY <2>1, <2>4 DEF MigrateRows
    <3> DEFINE after == MigratedRows(rows, manifest, new, witnesses)
    <3>2. ASSUME NEW e \in DOMAIN new
          PROVE  DOMAIN after[e] = IF e \in DOMAIN manifest THEN DOMAIN rows[e] ELSE {}
      <4>1. /\ e \notin DOMAIN manifest => DOMAIN after[e] = {}
            /\ e \in DOMAIN manifest => DOMAIN after[e] = DOMAIN rows[e]
        BY RowsStay
      <4> HIDE DEF after
      <4> QED
        BY <4>1
    <3> HIDE DEF after
    <3> QED
      BY <2>2, <3>1, <3>2 DEF after
  <2> QED
    BY <2>3, <2>4
<1>2. RowsKept <=> [][Stays]_rowVars
  BY DEF RowsKept
<1> QED
  BY <1>1, RowInvHolds, PTL DEF RowSpec, RowsKept

\* Each value a migration would leave is what its witness is declared to make of it
\* (witness.go:10-60).
THEOREM WitnessesMeanWhatTheySay ==
  ASSUME ScalarsAreRendered, BoundsAreKept PROVE RowSpec => []ValuesMapAsDeclared
<1>1. RowInv => ValuesMapAsDeclared
  <2> SUFFICES ASSUME RowInv, NEW new \in Manifests, NEW witnesses \in RowWitnesses, Runs(new, witnesses),
                      NEW e \in Kept(manifest, new), NEW f \in KeptFields(manifest[e], new[e]),
                      NEW i \in DOMAIN rows[e] \cap DOMAIN MigratedRows(rows, manifest, new, witnesses)[e]
               PROVE  Maps(f, rows[e][i][f], manifest[e].fields[f], new[e].fields[f],
                           Carried(manifest[e], new[e], witnesses), NeedsRebuild(manifest[e], new[e]),
                           MigratedRows(rows, manifest, new, witnesses)[e][i][f])
    BY DEF ValuesMapAsDeclared
  <2> DEFINE after == MigratedRows(rows, manifest, new, witnesses)
             defs == ApplyChangeset(tables, manifest, new)
             nf == new[e].fields[f]
             value == after[e][i][f]
  <2>1. /\ Admitted(manifest, new, Kinds(witnesses))
        /\ ~ChangesetRefused(tables, manifest, new) /\ RowsAccepted(rows, manifest, new, witnesses)
        /\ EnforceCoerceFail(rows, manifest, new, witnesses)
    BY DEF Runs, RowsAccepted
  <2>2. \A g \in DOMAIN witnesses : SoundWitness(witnesses[g])
    BY WitnessesAreSound
  <2>3. e \in DOMAIN manifest /\ e \in DOMAIN new /\ f \in DOMAIN manifest[e].fields
        /\ f \in DOMAIN new[e].fields
    BY DEF Kept, KeptFields
  <2>4. rows[e][i][f] = Null => ~manifest[e].fields[f].required
    BY <2>3, RowsBefore
  <2>5. nf.type = "enum" /\ value # Null => value \in nf.values
    <3>1. FitRows(after, defs)
      BY <2>1, <2>2, AcceptedRowsFit
    <3>2. Conforms(defs, new)
      BY <2>1, ManifestsAreValid, ExecutorIsSound DEF RowInv, EvolutionInv, BoundsAreKept
    <3>3. f \in DOMAIN defs[e].cols /\ Enforces(defs[e].cols[f], nf)
      BY <2>3, <3>2 DEF Conforms, TableConforms
    <3>4. e \in DOMAIN after /\ i \in DOMAIN after[e]
      BY <2>3, RowsStay
    <3> HIDE DEF after, defs
    <3>5. Sits(defs[e].cols[f], value)
      BY <3>1, <3>3, <3>4 DEF FitRows
    <3> QED
      BY <2>3, <3>3, <3>5, ManifestsAreValid, FieldsAreValid, ChecksMean
  <2> QED
    BY <2>1, <2>2, <2>3, <2>4, <2>5, ValuesAfter
<1> QED
  BY <1>1, RowInvHolds, PTL

-----------------------------------------------------------------------------
(***************************************************************************)
(* Safe changesets.  Classify looks at one operation at a time; here are   *)
(* all operations of a changeset together, and the rows there are.         *)
(***************************************************************************)
SafetyOverlooksNothing == \A old, new \in Manifests : NothingTightened(old, new)

\* What a field may become by safe operations.
Widens(of, nf) ==
  /\ of.type = nf.type \/ IsWidening(of.type, nf.type)
  /\ nf.required => of.required
  /\ nf.unique => of.unique
  /\ of.values \subseteq nf.values
  /\ nf.ref = of.ref
  /\ nf.min \subseteq of.min /\ nf.max \subseteq of.max

LEMMA SafeFields ==
  ASSUME SafetyOverlooksNothing, NEW old \in Manifests, NEW new \in Manifests, ~HasDestructive(old, new)
  PROVE  /\ Dropped(old, new) = {}
         /\ \A e \in Kept(old, new) :
              /\ DroppedFields(old[e], new[e]) = {}
              /\ \A f \in KeptFields(old[e], new[e]) : Widens(old[e].fields[f], new[e].fields[f])
              /\ \A f \in AddedFields(old[e], new[e]) :
                   /\ ~NeedsBackfill(new[e].fields[f])
                   /\ new[e].fields[f].unique => ~HasDefault(new[e].fields[f])
<1>1. \A op \in Diff(old, new) : Classify(op, old, new) # "destructive"
  BY DEF HasDestructive, Destructive
<1>2. ASSUME NEW e \in Kept(old, new), NEW f \in KeptFields(old[e], new[e])
      PROVE  Widens(old[e].fields[f], new[e].fields[f])
  <2> DEFINE of == old[e].fields[f]
             nf == new[e].fields[f]
  <2>1. \A k \in FieldChanges(of, nf) : Operation(k, e, f) \in Diff(old, new)
    BY FieldOperations, KeptOperations
  <2>2. \A k \in FieldChanges(of, nf) : Classify(Operation(k, e, f), old, new) # "destructive"
    BY <1>1, <2>1
  <2>3. ValidField(of, DOMAIN old) /\ ValidField(nf, DOMAIN new)
    BY ManifestsAreValid, FieldsAreValid DEF Kept, KeptFields
  <2>4. /\ Dropped(old, new) = {}
        /\ of.type # nf.type => IsWidening(of.type, nf.type)
        /\ of.type = "enum" /\ nf.type = "enum" => of.values \subseteq nf.values
    BY SafeOperations
  <2>5. nf.required => of.required
    <3> SUFFICES ASSUME nf.required, ~of.required
                 PROVE  FALSE
      OBVIOUS
    <3>1. "change_required" \in FieldChanges(of, nf)
      BY DEF FieldChanges, FieldOpKinds
    <3>2. Classify(Operation("change_required", e, f), old, new) = "destructive"
      BY OperationKind DEF Classify
    <3> QED
      BY <2>2, <3>1, <3>2
  <2>6. nf.unique => of.unique
    <3> SUFFICES ASSUME nf.unique, ~of.unique
                 PROVE  FALSE
      OBVIOUS
    <3>1. "change_unique" \in FieldChanges(of, nf)
      BY DEF FieldChanges, FieldOpKinds
    <3>2. Classify(Operation("change_unique", e, f), old, new) = "destructive"
      BY OperationKind DEF Classify
    <3> QED
      BY <2>2, <3>1, <3>2
  <2>7. "change_reference" \notin FieldChanges(of, nf)
    <3>1. Classify(Operation("change_reference", e, f), old, new) = "destructive"
      BY OperationKind DEF Classify
    <3> QED
      BY <2>2, <3>1
  <2>8. nf.ref = of.ref
    <3>1. CASE of.type = "reference" /\ nf.type = "reference"
      BY <2>7, <3>1 DEF FieldChanges, FieldOpKinds
    <3>2. CASE ~(of.type = "reference" /\ nf.type = "reference")
      <4>1. of.type # "reference" /\ nf.type # "reference"
        BY <2>4, <3>2 DEF IsWidening
      <4> QED
        BY <2>3, <4>1 DEF ValidField
    <3> QED
      BY <3>1, <3>2
  <2>9. of.values \subseteq nf.values
    <3>1. CASE of.type = "enum"
      <4>1. nf.type = "enum"
        BY <2>4, <3>1 DEF IsWidening
      <4> QED
        BY <2>4, <3>1, <4>1
    <3>2. CASE of.type # "enum"
      BY <2>3, <3>2 DEF ValidField
    <3> QED
      BY <3>1, <3>2
  <2>10. nf.min \subseteq of.min /\ nf.max \subseteq of.max
    BY DEF SafetyOverlooksNothing, NothingTightened
  <2> QED
    BY <2>4, <2>5, <2>6, <2>8, <2>9, <2>10 DEF Widens
<1>3. ASSUME NEW e \in Kept(old, new), NEW f \in AddedFields(old[e], new[e])
      PROVE  ~NeedsBackfill(new[e].fields[f])
  <2>1. Operation("add_field", e, f) \in Diff(old, new)
    BY FieldOperations, KeptOperations
  <2>2. NeedsBackfill(new[e].fields[f]) => Classify(Operation("add_field", e, f), old, new) = "destructive"
    BY OperationKind DEF Classify
  <2> QED
    BY <1>1, <2>1, <2>2
<1> QED
  BY <1>2, <1>3, SafeOperations DEF SafetyOverlooksNothing, NothingTightened

\* Two values are worth the same to a bound.
WorthTheSame(value, v) ==
  \/ value = v
  \/ value[1] # "text" /\ v[1] # "text" /\ Magnitude(value) = Magnitude(v)

\* A value copied to the column of a wider field, as it is stored there.
LEMMA WiderColumns ==
  ASSUME NEW of, NEW nf, NEW entities, NEW others, ValidField(of, entities), ValidField(nf, others),
         Widens(of, nf), NEW col, Enforces(col, of), NEW newCol, Enforces(newCol, nf),
         NEW v, v # Null, ChecksHold(col, v), NEW value, value # Null,
         IF of.type = nf.type THEN value = v ELSE WorthTheSame(value, v)
  PROVE  ChecksHold(newCol, value)
<1>1. /\ \A check \in Checks(of) : Satisfies(Affinity(of.type), v, check)
      /\ newCol.checks = Checks(nf) /\ newCol.affinity = Affinity(nf.type)
  BY DEF ChecksHold, Enforces
<1>2. CASE of.type = nf.type
  <2>1. value = v
    BY <1>2
  <2>2. ASSUME NEW check \in Checks(nf)
        PROVE  Satisfies(Affinity(nf.type), value, check)
    <3>1. CASE nf.type = "boolean"
      BY <1>1, <1>2, <2>1, <3>1 DEF Checks
    <3>2. CASE nf.type = "enum"
      <4>1. check = <<"in", nf.values>> /\ <<"in", of.values>> \in Checks(of)
        BY <1>2, <3>2 DEF Checks
      <4>2. Satisfies(Affinity(of.type), v, <<"in", of.values>>)
        BY <1>1, <4>1
      <4> QED
        BY <2>1, <4>1, <4>2 DEF Satisfies, Widens
    <3>3. CASE nf.type \in {"text", "integer", "real"}
      <4>1. Checks(nf) \subseteq Checks(of)
        BY <1>2, <3>3 DEF Checks, Widens
      <4> QED
        BY <1>1, <1>2, <2>1, <4>1
    <3>4. CASE nf.type \notin {"boolean", "enum", "text", "integer", "real"}
      BY <3>4 DEF Checks
    <3> QED
      BY <3>1, <3>2, <3>3, <3>4
  <2> QED
    BY <1>1, <2>2 DEF ChecksHold
<1>3. CASE of.type # nf.type
  <2>1. of.type = "integer" /\ nf.type = "real"
    BY <1>3 DEF Widens, IsWidening
  <2>2. Affinity(of.type) = "INTEGER" /\ Affinity(nf.type) = "REAL"
    BY <2>1, TypesHaveAffinities
  <2>3. ASSUME NEW check \in Checks(nf)
        PROVE  Satisfies(Affinity(nf.type), value, check)
    <3>1. Checks(nf) \subseteq Checks(of) /\ check[1] \in {"min", "max"}
      BY <2>1 DEF Checks, Widens
    <3>2. Satisfies("INTEGER", v, check)
      BY <1>1, <2>2, <3>1
    <3> QED
      BY <1>3, <2>2, <3>1, <3>2 DEF Satisfies, WorthTheSame
  <2> QED
    BY <1>1, <2>3 DEF ChecksHold
<1> QED
  BY <1>2, <1>3

\* A null is admitted where one was.
LEMMA WiderNulls ==
  ASSUME NEW of, NEW nf, Widens(of, nf), NEW col, Enforces(col, of), NEW newCol, Enforces(newCol, nf),
         Admits(col, Null)
  PROVE  Admits(newCol, Null)
BY DEF Admits, HasAffinity, Enforces, Widens

\* The boundary of the classification: what is called safe maps every value
\* forward that the old columns admit (classify.go:12-15).
THEOREM SafeChangesetsMapForward ==
  ASSUME BoundsAreKept, SafetyOverlooksNothing PROVE Spec => []SafeMapsForward
<1>1. EvolutionInv => SafeMapsForward
  <2> SUFFICES ASSUME EvolutionInv, NEW new \in Manifests, ~HasDestructive(manifest, new),
                      ~ChangesetRefused(tables, manifest, new)
               PROVE  RowsMapForward(tables, ApplyChangeset(tables, manifest, new), new)
    BY DEF SafeMapsForward
  <2> DEFINE after == ApplyChangeset(tables, manifest, new)
  <2>1. manifest \in Manifests /\ ValidManifest(manifest) /\ ValidManifest(new) /\ Conforms(tables, manifest)
    BY ManifestsAreValid DEF EvolutionInv
  <2>2. Conforms(after, new)
    BY <2>1, ExecutorIsSound DEF BoundsAreKept
  <2>3. /\ DOMAIN tables = DOMAIN manifest /\ DOMAIN after = DOMAIN new
        /\ DOMAIN manifest \subseteq DOMAIN new
    BY <2>1, <2>2, SafeFields DEF Conforms, Dropped
  <2> HIDE DEF after
  <2>4. ASSUME NEW e \in DOMAIN tables
        PROVE  /\ e \in DOMAIN after
               /\ \A c \in DOMAIN tables[e].cols :
                    /\ c \in DOMAIN after[e].cols
                    /\ ColumnMapsForward(tables[e].cols[c], after[e].cols[c])
                    /\ c \in after[e].unique => c \in tables[e].unique
               /\ \A c \in DOMAIN after[e].cols \ DOMAIN tables[e].cols : ColumnFillsForward(new[e].fields[c])
    <3> DEFINE oe == manifest[e]
               ne == new[e]
    <3>1. e \in Kept(manifest, new) /\ e \in DOMAIN manifest /\ e \in DOMAIN new
      BY <2>3 DEF Kept
    <3>2. TableConforms(tables[e], oe) /\ TableConforms(after[e], ne)
      BY <2>1, <2>2, <3>1 DEF Conforms
    <3>3. /\ DOMAIN tables[e].cols = DOMAIN oe.fields /\ DOMAIN after[e].cols = DOMAIN ne.fields
          /\ tables[e].unique = UniqueFields(oe) /\ after[e].unique = UniqueFields(ne)
      BY <3>2 DEF TableConforms
    <3>4. /\ DroppedFields(oe, ne) = {}
          /\ \A f \in KeptFields(oe, ne) : Widens(oe.fields[f], ne.fields[f])
          /\ \A f \in AddedFields(oe, ne) : /\ ~NeedsBackfill(ne.fields[f])
                                            /\ ne.fields[f].unique => ~HasDefault(ne.fields[f])
      BY <2>1, <3>1, SafeFields
    <3>5. ASSUME NEW c \in DOMAIN tables[e].cols
          PROVE  /\ c \in DOMAIN after[e].cols
                 /\ ColumnMapsForward(tables[e].cols[c], after[e].cols[c])
                 /\ c \in after[e].unique => c \in tables[e].unique
      <4> DEFINE of == oe.fields[c]
                 nf == ne.fields[c]
                 col == tables[e].cols[c]
                 newCol == after[e].cols[c]
      <4>1. c \in KeptFields(oe, ne) /\ c \in DOMAIN oe.fields /\ c \in DOMAIN ne.fields
        BY <3>3, <3>4 DEF DroppedFields, KeptFields
      <4>2. Widens(of, nf) /\ Enforces(col, of) /\ Enforces(newCol, nf)
        BY <3>2, <3>4, <4>1 DEF TableConforms
      <4>3. ValidField(of, DOMAIN manifest) /\ ValidField(nf, DOMAIN new)
        BY <2>1, <3>1, <4>1, FieldsAreValid
      <4>4. newCol.fk \subseteq col.fk
        BY <4>2 DEF Enforces, Widens
      <4>5. c \in after[e].unique => c \in tables[e].unique
        BY <3>3, <4>1, <4>2 DEF UniqueFields, Widens
      <4> HIDE DEF of, nf, col, newCol
      <4>6. ASSUME NEW v \in Values \cup {Null}, Admits(col, v)
            PROVE  Admits(newCol, Stored(newCol, v))
        <5>1. CASE v = Null
          <6>1. Stored(newCol, v) = Null
            BY <5>1, Classes DEF Stored
          <6> QED
            BY <4>2, <4>6, <5>1, <6>1, WiderNulls
        <5>2. CASE v # Null /\ of.type = nf.type
          <6>1. newCol.affinity = col.affinity
            BY <4>2, <5>2 DEF Enforces
          <6>2. HasAffinity(newCol, v)
            BY <4>6, <6>1 DEF Admits, HasAffinity
          <6>3. Stored(newCol, v) = v
            BY <5>2, <6>2 DEF HasAffinity, Stored
          <6>4. ChecksHold(col, v)
            BY <4>6 DEF Admits, ChecksHold
          <6>5. ChecksHold(newCol, v)
            BY <4>2, <4>3, <5>2, <6>4, WiderColumns
          <6> QED
            BY <6>2, <6>3, <6>5 DEF Admits, ChecksHold
        <5>3. CASE v # Null /\ of.type # nf.type
          <6>1. of.type = "integer" /\ nf.type = "real"
            BY <4>2, <5>3 DEF Widens, IsWidening
          <6>2. col.affinity = "INTEGER" /\ newCol.affinity = "REAL"
            BY <4>2, <6>1, TypesHaveAffinities DEF Enforces
          <6>3. v[1] = "integer"
            BY <4>6, <5>3, <6>2 DEF Admits, HasAffinity
          <6> DEFINE value == Real(4 * v[2])
          <6>4. Stored(newCol, v) = value
            BY <6>2, <6>3 DEF Stored
          <6>5. /\ HasAffinity(newCol, value) /\ value # Null /\ value[1] = "real"
                /\ Magnitude(value) = Magnitude(v)
            BY <6>2, <6>3, Classes DEF HasAffinity, Magnitude
          <6>6. ChecksHold(col, v)
            BY <4>6 DEF Admits, ChecksHold
          <6> HIDE DEF value
          <6>7. ChecksHold(newCol, value)
            BY <4>2, <4>3, <5>3, <6>3, <6>5, <6>6, WiderColumns DEF WorthTheSame
          <6> QED
            BY <6>4, <6>5, <6>7 DEF Admits, ChecksHold
        <5> QED
          BY <5>1, <5>2, <5>3
      <4>7. ColumnMapsForward(col, newCol)
        BY <4>4, <4>6 DEF ColumnMapsForward
      <4> QED
        BY <3>3, <4>1, <4>5, <4>7 DEF col, newCol
    <3>6. ASSUME NEW c \in DOMAIN after[e].cols \ DOMAIN tables[e].cols
          PROVE  ColumnFillsForward(ne.fields[c])
      <4>1. c \in AddedFields(oe, ne)
        BY <3>3 DEF AddedFields
      <4> QED
        BY <3>4, <4>1 DEF ColumnFillsForward, NeedsBackfill
    <3> QED
      BY <2>3, <3>1, <3>5, <3>6
  <2> QED
    BY <2>4 DEF RowsMapForward, after
<1> QED
  BY <1>1, AlwaysEvolved, PTL

-----------------------------------------------------------------------------
(***************************************************************************)
(* The same of the rows there are: a safe changeset runs.                  *)
(***************************************************************************)
\* The literal of a valid default passes the checks of its column.
LEMMA DefaultsHold ==
  ASSUME NEW field, NEW entities, ValidField(field, entities), \A v \in field.values : IsText(v),
         NEW value \in field.default, Storable(value) \/ IsBool(value)
  PROVE  \A check \in Checks(field) :
           Satisfies(Affinity(field.type), SqlLiteral(value, field.type), check)
<1> DEFINE literal == SqlLiteral(value, field.type)
<1>1. ValidDefault(field, value) /\ field.type \in FieldTypes
  BY DEF ValidField
<1>2. value[1] \in {"integer", "real", "text"} => Storable(value) /\ value # Null
  <2>1. Bool(TRUE)[1] = "bool" /\ Bool(FALSE)[1] = "bool"
    BY DEF Bool
  <2> QED
    BY <2>1, Classes DEF IsBool
<1>3. \A k \in Int : Truncate(4 * k) = k
  <2>1. \A k \in Int : (4 * k) \div 4 = k /\ (-(4 * k)) \div 4 = -k
    OBVIOUS
  <2> QED
    BY <2>1 DEF Truncate
<1>4. CASE field.type \in {"text", "integer", "real"}
  <2>1. value[1] = field.type /\ InBounds(field, value)
    BY <1>1, <1>4 DEF ValidDefault
  <2>2. literal = value
    <3>1. CASE field.type = "integer"
      <4>1. value = Integer(value[2]) /\ value[2] \in Int
        BY <1>2, <2>1, <3>1, Numbers
      <4>2. literal = Integer(Truncate(Quarters(value)))
        BY <1>2, <2>1, <3>1 DEF SqlLiteral
      <4>3. Quarters(value) = 4 * value[2]
        BY <4>1, QuartersOf
      <4> QED
        BY <1>3, <4>1, <4>2, <4>3
    <3>2. CASE field.type = "real"
      <4>1. value = Real(value[2])
        BY <1>2, <2>1, <3>2, Numbers
      <4>2. literal = Real(Quarters(value))
        BY <1>2, <2>1, <3>2 DEF SqlLiteral
      <4> QED
        BY <4>1, <4>2, QuartersOf
    <3>3. CASE field.type = "text"
      BY <1>2, <2>1, <3>3 DEF SqlLiteral
    <3> QED
      BY <1>4, <3>1, <3>2, <3>3
  <2>3. ASSUME NEW check \in Checks(field)
        PROVE  Satisfies(Affinity(field.type), value, check)
    <3>0. value[1] = "text" => Affinity(field.type) = "TEXT"
      BY <1>4, <2>1, TypesHaveAffinities
    <3>1. check \in {<<"min", b>> : b \in field.min} \cup {<<"max", b>> : b \in field.max}
      BY <1>4 DEF Checks
    <3>2. \A b \in field.min : Satisfies(Affinity(field.type), value, <<"min", b>>)
      BY <2>1, <3>0 DEF InBounds, Satisfies
    <3>3. \A b \in field.max : Satisfies(Affinity(field.type), value, <<"max", b>>)
      BY <2>1, <3>0 DEF InBounds, Satisfies
    <3> QED
      BY <3>1, <3>2, <3>3
  <2> QED
    BY <2>2, <2>3
<1>5. CASE field.type = "boolean"
  <2>1. value[1] = "bool" /\ value # Null
    BY <1>1, <1>5, Classes DEF ValidDefault
  <2>2. literal = Integer(IF value[2] THEN 1 ELSE 0)
    BY <1>5, <2>1 DEF SqlLiteral
  <2>3. literal \in {Integer(0), Integer(1)}
    BY <2>2
  <2>4. Checks(field) = {<<"in", {Integer(0), Integer(1)}>>}
    BY <1>5 DEF Checks
  <2> QED
    BY <2>3, <2>4 DEF Satisfies
<1>6. CASE field.type = "enum"
  <2>1. value \in field.values
    BY <1>1, <1>6 DEF ValidDefault
  <2>2. value[1] = "text" /\ value # Null
    BY <2>1, Classes DEF IsText
  <2>3. literal = value
    BY <1>6, <2>2 DEF SqlLiteral
  <2>4. Checks(field) = {<<"in", field.values>>}
    BY <1>6 DEF Checks
  <2> QED
    BY <2>1, <2>3, <2>4 DEF Satisfies
<1>7. CASE field.type \in {"datetime", "reference"}
  BY <1>7 DEF Checks
<1> QED
  BY <1>1, <1>4, <1>5, <1>6, <1>7 DEF FieldTypes

\* Without witnesses there is nothing to remap, to backfill or to coerce with.
LEMMA NoneCarried ==
  /\ DOMAIN NoWitnesses = {}
  /\ \A oe, ne, f, kind : OfKind(f, Carried(oe, ne, NoWitnesses), kind) = {}
  /\ \A f, kind : OfKind(f, NoWitnesses, kind) = {}
<1>1. DOMAIN NoWitnesses = {}
  BY DEF NoWitnesses
<1>2. \A oe, ne : DOMAIN Carried(oe, ne, NoWitnesses) = {}
  BY <1>1 DEF Carried
<1> QED
  BY <1>1, <1>2 DEF OfKind, WitnessOf

\* What a rebuild without witnesses makes of a value whose field widens.
Widened(old, new, v) == IF old.type = new.type \/ ~IsNumber(v) THEN v ELSE Real(Quarters(v))

LEMMA NullIsNoNumber == ~IsNumber(Null)
<1>1. Null \notin Numerals
  BY NumeralsAreTexts, Classes
<1> QED
  BY <1>1, Classes DEF IsNumber

LEMMA SelectsWidened ==
  ASSUME ScalarsAreRendered, NEW f, NEW v, NEW old, NEW new, Widens(old, new), Settled(old.type, v),
         NEW carried, OfKind(f, carried, "remap") = {}
  PROVE  WithAffinity(Affinity(new.type), SelectExpr(f, v, old, new, carried)) = Widened(old, new, v)
<1>1. CASE old.type = new.type
  <2>1. ~(new.required /\ ~old.required)
    BY DEF Widens
  <2>2. SelectExpr(f, v, old, new, carried) = v
    BY <1>1, <2>1 DEF SelectExpr, IsWidening
  <2> QED
    BY <1>1, <2>2 DEF Widened, Settled
<1>2. CASE old.type # new.type
  <2>1. old.type = "integer" /\ new.type = "real"
    BY <1>2 DEF Widens, IsWidening
  <2>2. SelectExpr(f, v, old, new, carried) = v
    BY <2>1 DEF SelectExpr, IsWidening
  <2>3. WithAffinity("REAL", v) = IF IsNumber(v) THEN Real(Quarters(v)) ELSE v
    BY DEF WithAffinity
  <2> QED
    BY <1>2, <2>1, <2>2, <2>3, TypesHaveAffinities DEF Widened
<1> QED
  BY <1>1, <1>2

\* Different values stay different.
LEMMA WidenedDiffer ==
  ASSUME NEW old, NEW new, Widens(old, new), NEW v, NEW u, Settled(old.type, v), Settled(old.type, u),
         Widened(old, new, v) = Widened(old, new, u)
  PROVE  v = u
<1>1. CASE old.type = new.type
  BY <1>1 DEF Widened
<1>2. CASE old.type # new.type
  <2>1. old.type = "integer"
    BY <1>2 DEF Widens, IsWidening
  <2>2. \A x \in {v, u} : /\ Widened(old, new, x) = IF IsNumber(x) THEN Real(Quarters(x)) ELSE x
                          /\ WithAffinity("INTEGER", x) = x
    BY <1>2, <2>1, TypesHaveAffinities DEF Settled, Widened
  <2>3. \A x : x = Real(x[2]) => IsNumber(x)
    BY Classes DEF IsNumber
  <2>4. IsNumber(v) <=> IsNumber(u)
    BY <2>2, <2>3, Classes
  <2>5. CASE ~IsNumber(v)
    BY <2>2, <2>4, <2>5
  <2>6. CASE IsNumber(v)
    <3>0. Real(Quarters(v)) = Real(Quarters(u))
      BY <2>2, <2>4, <2>6
    <3>1. Quarters(v) = Quarters(u)
      BY <3>0, Classes
    <3>2. WithAffinity("INTEGER", v) = WithAffinity("INTEGER", u)
      BY <2>4, <2>6, <3>1 DEF WithAffinity
    <3> QED
      BY <2>2, <3>2
  <2> QED
    BY <2>5, <2>6
<1> QED
  BY <1>1, <1>2

\* A value of the rows after a safe changeset: widened, or filled in by a default.
LEMMA SafeValues ==
  ASSUME ScalarsAreRendered, BoundsAreKept, SafetyOverlooksNothing, RowInv, NEW new \in Manifests,
         ~HasDestructive(manifest, new),
         NEW e \in Kept(manifest, new), NEW i \in DOMAIN rows[e], NEW f \in DOMAIN new[e].fields
  PROVE  LET nf == new[e].fields[f]
             value == MigratedRows(rows, manifest, new, NoWitnesses)[e][i][f]
         IN /\ f \in KeptFields(manifest[e], new[e]) =>
                 value = Widened(manifest[e].fields[f], nf, rows[e][i][f])
            /\ f \in AddedFields(manifest[e], new[e]) =>
                 IF HasDefault(nf) THEN \E default \in nf.default : value = SqlLiteral(default, nf.type)
                 ELSE value = Null
<1> DEFINE oe == manifest[e]
           ne == new[e]
           of == oe.fields[f]
           nf == ne.fields[f]
           carried == Carried(oe, ne, NoWitnesses)
           row == rows[e][i]
           v == row[f]
           value == MigratedRow(row, oe, ne, carried)[f]
<1>1. /\ e \in DOMAIN manifest /\ e \in DOMAIN new /\ manifest \in Manifests
      /\ MigratedRows(rows, manifest, new, NoWitnesses)[e][i] = MigratedRow(row, oe, ne, carried)
  BY RowsStay DEF Kept, RowInv, EvolutionInv
<1>2. OfKind(f, carried, "remap") = {}
  BY NoneCarried
<1>3. ASSUME f \in KeptFields(oe, ne)
      PROVE  value = Widened(of, nf, v)
  <2>1. f \in DOMAIN oe.fields /\ Widens(of, nf)
    BY <1>1, <1>3, SafeFields DEF KeptFields
  <2>2. Settled(of.type, v)
    BY <1>1, <2>1, RowsBefore
  <2>3. CASE NeedsRebuild(oe, ne)
    <3>1. value = WithAffinity(Affinity(nf.type), SelectExpr(f, v, of, nf, carried))
      BY <2>1, <2>3 DEF MigratedRow, RebuiltRow
    <3> HIDE DEF of, nf, v, carried, value
    <3> QED
      BY <1>2, <2>1, <2>2, <3>1, SelectsWidened
  <2>4. CASE ~NeedsRebuild(oe, ne)
    <3>1. value = v
      BY <2>1, <2>4 DEF MigratedRow, NativeRow
    <3>2. "change_type" \notin FieldChanges(of, nf)
      BY <1>3, <2>4 DEF NeedsRebuild, RebuildKinds
    <3>3. of.type = nf.type
      BY <3>2 DEF FieldChanges, FieldOpKinds
    <3> QED
      BY <3>1, <3>3 DEF Widened
  <2> QED
    BY <2>3, <2>4
<1>4. ASSUME f \in AddedFields(oe, ne)
      PROVE  IF HasDefault(nf) THEN \E default \in nf.default : value = SqlLiteral(default, nf.type)
             ELSE value = Null
  <2>1. f \notin DOMAIN oe.fields /\ ~NeedsBackfill(nf)
    BY <1>1, <1>4, SafeFields DEF AddedFields
  <2>2. CASE HasDefault(nf)
    <3> DEFINE default == CHOOSE x \in nf.default : TRUE
    <3>1. default \in nf.default
      BY <2>2 DEF HasDefault
    <3>2. /\ ValidField(nf, DOMAIN new) /\ (\A x \in nf.values : IsText(x))
          /\ \A x \in nf.default : Storable(x) \/ IsBool(x)
      BY <1>1, ManifestsAreValid, FieldsAreValid, MembersAreValues
    <3>3. FilledIn(f, nf, carried) = SqlLiteral(default, nf.type)
      BY <2>2 DEF FilledIn
    <3>4. value = WithAffinity(Affinity(nf.type), SqlLiteral(default, nf.type))
      BY <2>1, <2>2, <3>3 DEF MigratedRow, RebuiltRow, NativeRow
    <3>5. Fits(nf.type, SqlLiteral(default, nf.type))
      <4> HIDE DEF default, nf
      <4>1. Suits(nf.type, default) /\ default # Null /\ nf.type \in FieldTypes
        BY <3>1, <3>2, DefaultsSuit
      <4> QED
        BY <3>1, <3>2, <4>1, Literals DEF Fits
    <3> HIDE DEF default
    <3> QED
      BY <2>2, <3>1, <3>4, <3>5, FittingIsStored DEF Settled
  <2>3. CASE ~HasDefault(nf)
    <3>1. ~nf.required
      BY <2>1, <2>3 DEF NeedsBackfill
    <3>2. FilledIn(f, nf, carried) = Null
      BY <2>3, <3>1 DEF FilledIn
    <3>3. WithAffinity(Affinity(nf.type), Null) = Null
      BY AffinityKeeps, TypesHaveAffinities, Classes
    <3>4. value = Null
      BY <2>1, <2>3, <3>2, <3>3 DEF MigratedRow, RebuiltRow, NativeRow
    <3> QED
      BY <2>3, <3>4
  <2> QED
    BY <2>2, <2>3
<1> HIDE DEF value
<1> QED
  BY <1>1, <1>3, <1>4 DEF value

\* What an empty set of witnesses lets through.
LEMMA SafeWithoutWitnesses ==
  ASSUME NEW old, NEW new, ~HasDestructive(old, new), NEW db
  PROVE  /\ Admitted(old, new, Kinds(NoWitnesses))
         /\ \A g \in DOMAIN NoWitnesses : SoundWitness(NoWitnesses[g])
         /\ EnforceCoerceFail(db, old, new, NoWitnesses)
BY NoneCarried DEF Admitted, EnforceCoerceFail

\* Each value passes the checks of its new column.
LEMMA SafeColumnsHold ==
  ASSUME ScalarsAreRendered, BoundsAreKept, SafetyOverlooksNothing, RowInv, NEW new \in Manifests,
         ~HasDestructive(manifest, new), NEW defs, Conforms(defs, new),
         NEW e \in Kept(manifest, new), NEW i \in DOMAIN rows[e], NEW f \in DOMAIN new[e].fields
  PROVE  ChecksHold(defs[e].cols[f], MigratedRows(rows, manifest, new, NoWitnesses)[e][i][f])
<1> DEFINE oe == manifest[e]
           ne == new[e]
           of == oe.fields[f]
           nf == ne.fields[f]
           v == rows[e][i][f]
           col == tables[e].cols[f]
           newCol == defs[e].cols[f]
           value == MigratedRows(rows, manifest, new, NoWitnesses)[e][i][f]
<1>1. /\ e \in DOMAIN manifest /\ e \in DOMAIN new /\ manifest \in Manifests
      /\ ValidField(nf, DOMAIN new) /\ (\A x \in nf.values : IsText(x))
      /\ \A x \in nf.default : Storable(x) \/ IsBool(x)
  BY ManifestsAreValid, FieldsAreValid, MembersAreValues DEF Kept, RowInv, EvolutionInv
<1>2. Enforces(newCol, nf)
  BY <1>1 DEF Conforms, TableConforms
<1>4. CASE f \in KeptFields(oe, ne)
  <2>1. f \in DOMAIN oe.fields /\ Widens(of, nf) /\ ValidField(of, DOMAIN manifest)
    BY <1>1, <1>4, SafeFields, ManifestsAreValid, FieldsAreValid DEF KeptFields
  <2>2. Enforces(col, of) /\ Sits(col, v) /\ Storable(v) /\ ChecksHold(col, v)
    BY <1>1, <2>1, RowsBefore DEF Sits
  <2>3. value = Widened(of, nf, v)
    BY <1>4, SafeValues
  <2> HIDE DEF of, nf, v, col, newCol, value
  <2>4. CASE v = Null
    <3>1. value = Null
      BY <2>3, <2>4, NullIsNoNumber DEF Widened
    <3>2. ~newCol.notNull
      BY <1>2, <2>1, <2>2, <2>4 DEF ChecksHold, Enforces, Widens, nf, newCol
    <3>3. ChecksHold(newCol, value)
      BY <3>1, <3>2 DEF ChecksHold
    <3> QED
      BY <3>3 DEF newCol, value
  <2>5. CASE v # Null
    <3>1. value # Null /\ IF of.type = nf.type THEN value = v ELSE WorthTheSame(value, v)
      <4>1. CASE of.type = nf.type \/ ~IsNumber(v)
        BY <2>3, <2>5, <4>1 DEF Widened, WorthTheSame
      <4>2. CASE of.type # nf.type /\ IsNumber(v)
        <5>1. value = Real(Quarters(v))
          BY <2>3, <4>2 DEF Widened
        <5>2. v[1] # "text"
          <6>1. of.type = "integer" /\ Affinity(of.type) = "INTEGER"
            BY <2>1, <4>2, TypesHaveAffinities DEF Widens, IsWidening
          <6>2. WithAffinity("INTEGER", v) = v
            BY <2>2, <6>1 DEF Sits, Enforces
          <6> QED
            BY <4>2, <6>2, Classes DEF WithAffinity
        <5>3. v = Integer(v[2]) \/ v = Real(v[2])
          BY <2>2, <2>5, <5>2, Numbers DEF IsText
        <5>4. Magnitude(value) = Magnitude(v)
          BY <5>1, <5>3, QuartersOf, Classes DEF Magnitude
        <5> QED
          BY <4>2, <5>1, <5>2, <5>4, Classes DEF WorthTheSame
      <4> QED
        BY <4>1, <4>2
    <3>2. ChecksHold(newCol, value)
      BY <1>1, <1>2, <2>1, <2>2, <2>5, <3>1, WiderColumns DEF nf, newCol
    <3> QED
      BY <3>2 DEF newCol, value
  <2> QED
    BY <2>4, <2>5
<1>5. CASE f \notin KeptFields(oe, ne)
  <2>1. f \in AddedFields(oe, ne)
    BY <1>5 DEF KeptFields, AddedFields
  <2>2. CASE HasDefault(nf)
    <3>1. PICK default \in nf.default : value = SqlLiteral(default, nf.type)
      BY <2>1, <2>2, SafeValues
    <3> HIDE DEF nf, value, newCol
    <3>2. Storable(default) \/ IsBool(default)
      BY <1>1 DEF nf
    <3>3. ValidField(nf, DOMAIN new) /\ \A x \in nf.values : IsText(x)
      BY <1>1 DEF nf
    <3>4. \A check \in Checks(nf) : Satisfies(Affinity(nf.type), value, check)
      BY <3>1, <3>2, <3>3, DefaultsHold
    <3>5. default # Null /\ nf.type \in FieldTypes
      BY <3>3, DefaultsSuit
    <3>6. value # Null
      BY <3>1, <3>2, <3>3, <3>5, Literals
    <3> QED
      BY <1>2, <3>4, <3>6 DEF ChecksHold, Enforces, value, newCol
  <2>3. CASE ~HasDefault(nf)
    <3>1. value = Null
      BY <2>1, <2>3, SafeValues
    <3>2. ~nf.required
      BY <1>1, <2>1, <2>3, SafeFields DEF NeedsBackfill
    <3> QED
      BY <1>2, <3>1, <3>2 DEF ChecksHold, Enforces
  <2> QED
    BY <2>2, <2>3
<1> QED
  BY <1>4, <1>5

\* A field that is unique was, or its values are all null.
LEMMA SafeIndexesHold ==
  ASSUME ScalarsAreRendered, BoundsAreKept, SafetyOverlooksNothing, RowInv, NEW new \in Manifests,
         ~HasDestructive(manifest, new), NEW defs, Conforms(defs, new)
  PROVE  IndexesHold(MigratedRows(rows, manifest, new, NoWitnesses), defs)
<1> DEFINE after == MigratedRows(rows, manifest, new, NoWitnesses)
<1> SUFFICES ASSUME NEW e \in DOMAIN after, NEW f \in defs[e].unique, NEW i \in DOMAIN after[e],
                    NEW j \in DOMAIN after[e], after[e][i][f] # Null, after[e][i][f] = after[e][j][f]
             PROVE  i = j
  BY DEF IndexesHold
<1> DEFINE oe == manifest[e]
           ne == new[e]
           of == oe.fields[f]
           nf == ne.fields[f]
<1>1. e \in DOMAIN new
  BY DEF MigratedRows
<1>2. e \in DOMAIN manifest /\ i \in DOMAIN rows[e] /\ j \in DOMAIN rows[e]
  BY <1>1, RowsStay
<1>3. /\ manifest \in Manifests /\ e \in Kept(manifest, new)
      /\ TableConforms(defs[e], ne) /\ TableConforms(tables[e], oe) /\ DOMAIN rows = DOMAIN manifest
  BY <1>1, <1>2 DEF RowInv, EvolutionInv, FitRows, Conforms, Kept
<1>4. f \in DOMAIN ne.fields /\ nf.unique
  BY <1>3 DEF TableConforms, UniqueFields
<1>5. f \in KeptFields(oe, ne)
  <2> SUFFICES ASSUME f \notin KeptFields(oe, ne)
               PROVE  FALSE
    OBVIOUS
  <2>1. f \in AddedFields(oe, ne)
    BY <1>4 DEF KeptFields, AddedFields
  <2>2. ~HasDefault(nf)
    BY <1>3, <1>4, <2>1, SafeFields
  <2> QED
    BY <1>2, <1>3, <1>4, <2>1, <2>2, SafeValues
<1>6. f \in DOMAIN oe.fields /\ Widens(of, nf)
  BY <1>3, <1>5, SafeFields DEF KeptFields
<1>7. f \in tables[e].unique
  BY <1>3, <1>4, <1>6 DEF TableConforms, UniqueFields, Widens
<1>8. /\ after[e][i][f] = Widened(of, nf, rows[e][i][f])
      /\ after[e][j][f] = Widened(of, nf, rows[e][j][f])
  BY <1>2, <1>3, <1>4, <1>5, SafeValues
<1>9. Settled(of.type, rows[e][i][f]) /\ Settled(of.type, rows[e][j][f])
  BY <1>2, <1>6, RowsBefore
<1> HIDE DEF after, of, nf
<1>10. rows[e][i][f] = rows[e][j][f]
  BY <1>6, <1>8, <1>9, WidenedDiffer
<1>11. rows[e][i][f] # Null
  BY <1>8, NullIsNoNumber DEF Widened
<1> QED
  BY <1>2, <1>3, <1>7, <1>10, <1>11 DEF RowInv, FitRows, IndexesHold

\* A reference that is new is null, and the row another one names stays.
LEMMA SafeForeignKeys ==
  ASSUME ScalarsAreRendered, BoundsAreKept, SafetyOverlooksNothing, RowInv, NEW new \in Manifests,
         ~HasDestructive(manifest, new), NEW defs, Conforms(defs, new)
  PROVE  ForeignKeyCheck(MigratedRows(rows, manifest, new, NoWitnesses), defs)
<1> DEFINE after == MigratedRows(rows, manifest, new, NoWitnesses)
<1> SUFFICES ASSUME NEW e \in DOMAIN after, NEW f \in DOMAIN defs[e].cols, NEW r \in defs[e].cols[f].fk,
                    NEW i \in DOMAIN after[e], after[e][i][f] # Null
             PROVE  after[e][i][f] \in DOMAIN after[r.target]
  BY DEF ForeignKeyCheck
<1> DEFINE oe == manifest[e]
           ne == new[e]
           of == oe.fields[f]
           nf == ne.fields[f]
<1>1. e \in DOMAIN new
  BY DEF MigratedRows
<1>2. e \in DOMAIN manifest /\ i \in DOMAIN rows[e]
  BY <1>1, RowsStay
<1>3. /\ manifest \in Manifests /\ e \in Kept(manifest, new) /\ Dropped(manifest, new) = {}
      /\ TableConforms(defs[e], ne) /\ TableConforms(tables[e], oe) /\ DOMAIN rows = DOMAIN manifest
  BY <1>1, <1>2, SafeFields DEF RowInv, EvolutionInv, FitRows, Conforms, Kept
<1>4. f \in DOMAIN ne.fields /\ r \in nf.ref /\ ValidField(nf, DOMAIN new) /\ nf.type = "reference"
  <2>1. f \in DOMAIN ne.fields /\ r \in nf.ref
    BY <1>3 DEF TableConforms, Enforces
  <2>2. ValidField(nf, DOMAIN new)
    BY <1>1, <2>1, ManifestsAreValid, FieldsAreValid
  <2> QED
    BY <2>1, <2>2 DEF ValidField
<1>5. f \in KeptFields(oe, ne)
  <2> SUFFICES ASSUME f \notin KeptFields(oe, ne)
               PROVE  FALSE
    OBVIOUS
  <2>1. f \in AddedFields(oe, ne)
    BY <1>4 DEF KeptFields, AddedFields
  <2>2. ~HasDefault(nf)
    BY <1>4 DEF HasDefault, ValidField, ValidDefault
  <2> QED
    BY <1>2, <1>3, <1>4, <2>1, <2>2, SafeValues
<1>6. f \in DOMAIN oe.fields /\ Widens(of, nf)
  BY <1>3, <1>5, SafeFields DEF KeptFields
<1>7. of.type = nf.type /\ r \in of.ref
  BY <1>4, <1>6 DEF Widens, IsWidening
<1>8. after[e][i][f] = rows[e][i][f]
  BY <1>2, <1>3, <1>4, <1>5, <1>7, SafeValues DEF Widened
<1>9. r.target \in DOMAIN manifest /\ r.target \in DOMAIN new
  BY <1>2, <1>3, <1>6, <1>7, ManifestsAreValid, FieldsAreValid DEF ValidField, Dropped
<1>10. f \in DOMAIN tables[e].cols /\ tables[e].cols[f].fk = of.ref
  BY <1>3, <1>6 DEF TableConforms, Enforces
<1>11. rows[e][i][f] \in DOMAIN rows[r.target]
  BY <1>2, <1>3, <1>7, <1>8, <1>10 DEF RowInv, FitRows, ForeignKeyCheck
<1>12. DOMAIN after[r.target] = DOMAIN rows[r.target]
  BY <1>9, RowsStay
<1> QED
  BY <1>8, <1>11, <1>12

\* "can every existing row map forward with no loss and no ambiguity? Yes -> safe":
\* with whatever rows an app has, the transaction of a safe changeset commits
\* (classify.go:12-15, execute.go:57-107).
THEOREM SafeChangesetsCommit ==
  ASSUME ScalarsAreRendered, BoundsAreKept, SafetyOverlooksNothing PROVE RowSpec => []SafeChangesetsRun
<1>1. RowInv => SafeChangesetsRun
  <2> SUFFICES ASSUME RowInv, NEW new \in Manifests, ~HasDestructive(manifest, new),
                      ~ChangesetRefused(tables, manifest, new)
               PROVE  RowsAccepted(rows, manifest, new, NoWitnesses)
    BY DEF SafeChangesetsRun
  <2> DEFINE after == MigratedRows(rows, manifest, new, NoWitnesses)
             defs == ApplyChangeset(tables, manifest, new)
  <2>1. Conforms(defs, new)
    BY ManifestsAreValid, ExecutorIsSound DEF RowInv, EvolutionInv, BoundsAreKept
  <2> HIDE DEF defs
  <2>2. ColumnsHold(after, defs, manifest, new)
    <3> SUFFICES ASSUME NEW e \in DOMAIN new, NEW f \in CheckedColumns(e, manifest, new), NEW i \in DOMAIN after[e]
                 PROVE  ChecksHold(defs[e].cols[f], after[e][i][f])
      BY DEF ColumnsHold
    <3>1. e \in DOMAIN manifest /\ f \in DOMAIN new[e].fields
      BY DEF CheckedColumns, AddedFields
    <3>2. e \in Kept(manifest, new) /\ i \in DOMAIN rows[e]
      BY <3>1, RowsStay DEF Kept
    <3> QED
      BY <2>1, <3>1, <3>2, SafeColumnsHold
  <2>3. IndexesHold(after, defs) /\ ForeignKeyCheck(after, defs)
    BY <2>1, SafeIndexesHold, SafeForeignKeys
  <2>4. EnforceCoerceFail(rows, manifest, new, NoWitnesses)
    BY SafeWithoutWitnesses
  <2> QED
    BY <2>2, <2>3, <2>4 DEF RowsAccepted, defs
<1> QED
  BY <1>1, RowInvHolds, PTL
=============================================================================
