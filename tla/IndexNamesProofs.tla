-------------------------- MODULE IndexNamesProofs --------------------------
(***************************************************************************)
(* Names do what sets do.  The statements of IndexNames go by the names of *)
(* tables and indexes; Evolution speaks of tables, each with a set of      *)
(* unique columns.  For all manifests whose names never meet, a database   *)
(* is at every moment the one that its tables and unique columns make,     *)
(* which is the inductive invariant, IndexInv: so no statement is refused  *)
(* for a name, and every boot and migration is one of Evolution's.         *)
(*                                                                         *)
(* A loop over the entities of a manifest is FoldLeft in the order of the  *)
(* manifest: a function on the sets of places of that order.  Each such    *)
(* loop has a lemma, which says what it has made of a database after any   *)
(* of its steps.                                                           *)
(***************************************************************************)
EXTENDS IndexNames, ChangesetProofs, FiniteSetTheorems, WellFoundedInduction

-----------------------------------------------------------------------------
(***************************************************************************)
(* Folds.                                                                  *)
(***************************************************************************)
\* The least member of a set of numbers.
LEMMA LeastNat ==
  ASSUME NEW T, T \subseteq Nat, T # {}
  PROVE  \E x \in T : \A y \in T : x <= y
<1> DEFINE Below == {pair \in Nat \X Nat : pair[1] < pair[2]}
<1>1. IsWellFoundedOn(Below, Nat)
  BY NatLessThanWellFounded DEF OpToRel
<1> HIDE DEF Below
<1>2. PICK x \in T : \A y \in T : <<y, x>> \notin Below
  BY <1>1, WFMin
<1>3. \A a, b \in Nat : <<a, b>> \in Below <=> a < b
  BY DEF Below
<1>4. \A y \in T : x \in Nat /\ y \in Nat /\ ~(y < x)
  BY <1>2, <1>3
<1> QED
  BY <1>4

\* FoldLeft goes by the greatest index.
LEMMA GreatestIndex ==
  ASSUME NEW n \in Nat, NEW s \in SUBSET (1..n), s # {}
  PROVE  Max(s) \in s
<1> DEFINE T == {n - x : x \in s}
<1>1. \A x \in s : x \in 1..n /\ n - x \in Nat /\ n - x \in T
  OBVIOUS
<1>2. T \subseteq Nat /\ T # {}
  BY <1>1
<1>3. PICK z \in T : \A y \in T : z <= y
  BY <1>2, LeastNat
<1>4. PICK x \in s : z = n - x
  OBVIOUS
<1> HIDE DEF T
<1>5. \A y \in s : n - x <= n - y
  BY <1>1, <1>3, <1>4
<1>6. \A y \in s : x >= y
  BY <1>1, <1>5
<1> QED
  BY <1>6 DEF Max

\* Two functions on the subsets of a finite set agree on all of it, when they
\* do on the empty one and, at each other one, wherever they did without one
\* of its elements.
LEMMA FoldsAgree ==
  ASSUME NEW D, IsFiniteSet(D), NEW f, NEW g, f[{}] = g[{}],
         \A s \in SUBSET D : s # {} => \E x \in s : f[s \ {x}] = g[s \ {x}] => f[s] = g[s]
  PROVE  f[D] = g[D]
<1> DEFINE Apart == {s \in SUBSET D : f[s] # g[s]}
           T == {Cardinality(s) : s \in Apart}
<1>1. \A s \in SUBSET D : IsFiniteSet(s) /\ Cardinality(s) \in Nat
  BY FS_Subset, FS_CardinalityType
<1>2. SUFFICES ASSUME Apart # {} PROVE FALSE
  OBVIOUS
<1>3. T \subseteq Nat /\ T # {}
  BY <1>1, <1>2
<1>4. PICK z \in T : \A y \in T : z <= y
  BY <1>3, LeastNat
<1>5. PICK s \in Apart : z = Cardinality(s)
  OBVIOUS
<1>6. PICK x \in s : f[s \ {x}] = g[s \ {x}] => f[s] = g[s]
  BY <1>5
<1>7. s \ {x} \in Apart
  BY <1>5, <1>6
<1>8. Cardinality(s \ {x}) = Cardinality(s) - 1
  BY <1>1, FS_RemoveElement
<1>9. z \in Nat /\ z <= z - 1
  <2>1. Cardinality(s \ {x}) \in T
    BY <1>7
  <2>2. z <= Cardinality(s \ {x}) /\ z \in Nat
    BY <1>3, <1>4, <2>1
  <2> QED
    BY <1>5, <1>8, <2>2
<1> QED
  BY <1>9

\* The entities of some places of the order.
Those(s, entities) == {EntityOrder[i] : i \in s} \cap entities

\* What one place adds to them, and what all of them are.
LEMMA Places ==
  ASSUME NEW s \in SUBSET (DOMAIN EntityOrder), NEW x \in s, NEW entities
  PROVE  /\ EntityOrder[x] \notin Those(s \ {x}, entities)
         /\ EntityOrder[x] \in entities =>
              Those(s, entities) = Those(s \ {x}, entities) \cup {EntityOrder[x]}
         /\ EntityOrder[x] \notin entities => Those(s, entities) = Those(s \ {x}, entities)
<1>1. \A i \in s \ {x} : EntityOrder[i] # EntityOrder[x]
  BY OrderIsComplete
<1> QED
  BY <1>1 DEF Those

\* All places are those of all entities of some manifests.
LEMMA AllPlaces ==
  ASSUME NEW m \in Manifests, NEW entities, entities \subseteq DOMAIN m
  PROVE  Those(DOMAIN EntityOrder, entities) = entities /\ Those({}, entities) = {}
BY OrderIsComplete DEF Those

\* The order has finitely many places, the greatest of which comes last.
LEMMA OrderIsFinite ==
  /\ IsFiniteSet(DOMAIN EntityOrder)
  /\ \A s \in SUBSET (DOMAIN EntityOrder) : s # {} => Max(s) \in s
<1>1. Len(EntityOrder) \in Nat /\ DOMAIN EntityOrder = 1..Len(EntityOrder)
  BY OrderIsComplete
<1>2. IsFiniteSet(1..Len(EntityOrder))
  BY <1>1, FS_Interval
<1> QED
  BY <1>1, <1>2, GreatestIndex

-----------------------------------------------------------------------------
(***************************************************************************)
(* Statements.                                                             *)
(***************************************************************************)
Entities == UNION {DOMAIN m : m \in Manifests}

Name(c) == UniqueIndexName(c[1], c[2])

IndexesOf(keys) == [n \in {Name(c) : c \in keys} |-> CHOOSE c \in Columns : Name(c) = n]

Database(columns, keys) == Holding(columns, IndexesOf(keys))

\* A column is an entity and a field.
LEMMA ColumnIsPair == \A c \in Columns : c = <<c[1], c[2]>> /\ c[1] \in Entities
BY DEF Columns, ColumnsOf, Entities

\* The columns of an entity of some manifest.
LEMMA ColumnsOfEntity ==
  ASSUME NEW m \in Manifests, NEW e \in DOMAIN m, NEW f \in DOMAIN m[e].fields
  PROVE  <<e, f>> \in Columns
BY DEF Columns, ColumnsOf

\* What a name begins with.
LEMMA HeadOfNames ==
  ASSUME NEW T, NEW s \in Seq(T), NEW t \in Seq(T), NEW x
  PROVE  (<<x>> \o s)[1] = x /\ (<<x>> \o s \o t)[1] = x
<1> DEFINE U == T \cup {x}
           r == <<x>> \o s
<1>1. s \in Seq(U) /\ t \in Seq(U) /\ x \in U
  OBVIOUS
<1> HIDE DEF U
<1>2. <<x>> \in Seq(U)
  BY <1>1
<1>3. r[1] = x /\ Len(r) > 0
  BY <1>1
<1>4. r \in Seq(U)
  BY <1>1, <1>2
<1> HIDE DEF r
<1>5. (r \o t)[1] = r[1]
  BY <1>1, <1>3, <1>4
<1> QED
  BY <1>3, <1>5 DEF r

\* Names are told apart.
LEMMA NamesTell ==
  ASSUME NamesNeverMeet
  PROVE  /\ \A c, d \in Columns : Name(c) = Name(d) => c = d
         /\ \A c \in Columns, e \in Entities : Name(c) # Pieces[e]
         /\ \A c \in Columns, e \in Entities : Name(c) # TemporaryName(e)
         /\ \A e1, e2 \in Entities : TemporaryName(e1) # Pieces[e2]
         /\ \A e1, e2 \in Entities : Pieces[e1] = Pieces[e2] => e1 = e2
<1>1. \A e \in Entities : e \in DOMAIN Pieces /\ Pieces[e] \in Seq(STRING)
  BY IdsAreTold DEF Entities
<1>2. \A c, d \in Columns : Name(c) = Name(d) => c = d
  BY DEF NamesNeverMeet, Name
<1>3. \A c \in Columns, e \in Entities : Name(c) # Pieces[e]
  BY DEF NamesNeverMeet, Name, Entities
<1>4. \A e1, e2 \in Entities : TemporaryName(e1) # Pieces[e2]
  BY DEF NamesNeverMeet, TemporaryName, Entities
<1>5. ASSUME NEW c \in Columns, NEW e \in Entities
      PROVE  Name(c) # TemporaryName(e)
  <2>1. /\ Pieces[c[1]] \in Seq(STRING) /\ Pieces[c[2]] \in Seq(STRING)
    BY IdsAreTold DEF Columns, ColumnsOf
  <2>2. Pieces[e] \in Seq(STRING)
    BY <1>1
  <2>3. Name(c)[1] = "ux"
    <3> DEFINE a == Pieces[c[1]]
               b == Pieces[c[2]]
    <3>1. a \in Seq(STRING) /\ b \in Seq(STRING)
      BY <2>1
    <3> HIDE DEF a, b
    <3>2. (<<"ux">> \o a \o b)[1] = "ux"
      BY <3>1, HeadOfNames
    <3> QED
      BY <3>2 DEF Name, UniqueIndexName, a, b
  <2>4. TemporaryName(e)[1] = "mig"
    BY <2>2, HeadOfNames DEF TemporaryName
  <2> QED
    BY <2>3, <2>4
<1> QED
  BY <1>1, <1>2, <1>3, <1>4, <1>5, IdsAreTold

\* What a name is made of, after a table's id of one piece.
LEMMA PartsOfNames ==
  ASSUME NEW T, NEW s \in Seq(T), Len(s) = 1, NEW t \in Seq(T), NEW x
  PROVE  /\ Len(<<x>> \o s) = 2
         /\ Len(<<x>> \o s \o t) = 2 + Len(t) /\ (<<x>> \o s \o t)[2] = s[1]
         /\ \A i \in 1..Len(t) : (<<x>> \o s \o t)[2 + i] = t[i]
<1> DEFINE U == T \cup {x}
           r == <<x>> \o s
<1>1. s \in Seq(U) /\ t \in Seq(U) /\ x \in U
  OBVIOUS
<1> HIDE DEF U
<1>2. <<x>> \in Seq(U)
  BY <1>1
<1>3. \A p, q \in Seq(U) :
        /\ p \o q \in Seq(U) /\ Len(p \o q) = Len(p) + Len(q)
        /\ \A i \in 1..Len(q) : (p \o q)[Len(p) + i] = q[i]
        /\ \A i \in 1..Len(p) : (p \o q)[i] = p[i]
  OBVIOUS
<1>4. Len(<<x>>) = 1
  OBVIOUS
<1>5. r \in Seq(U) /\ Len(r) = 1 + 1 /\ r[1 + 1] = s[1]
  <2> DEFINE p == <<x>>
  <2>1. /\ p \o s \in Seq(U) /\ Len(p \o s) = Len(p) + Len(s)
        /\ \A i \in 1..Len(s) : (p \o s)[Len(p) + i] = s[i]
    BY <1>1, <1>2, <1>3
  <2> HIDE DEF p
  <2> QED
    BY <1>4, <2>1 DEF p
<1> HIDE DEF r
<1>6. /\ Len(r \o t) = Len(r) + Len(t)
      /\ \A i \in 1..Len(t) : (r \o t)[Len(r) + i] = t[i]
      /\ \A i \in 1..Len(r) : (r \o t)[i] = r[i]
  BY <1>1, <1>3, <1>5
<1>7. Len(r \o t) = 2 + Len(t) /\ (r \o t)[2] = r[2] /\ \A i \in 1..Len(t) : (r \o t)[2 + i] = t[i]
  BY <1>5, <1>6
<1> QED
  BY <1>5, <1>7 DEF r

\* Names never meet where no entity id has an underscore: then an index name has
\* the entity, its second piece, and the field, the rest, and is longer than any
\* table's name (materialize.go:98-100, execute.go:221).
THEOREM PlainNamesNeverMeet ==
  ASSUME \A m \in Manifests : \A e \in DOMAIN m : Len(Pieces[e]) = 1
  PROVE  NamesNeverMeet
<1>1. \A e \in Entities : e \in DOMAIN Pieces /\ Pieces[e] \in Seq(STRING) /\ Len(Pieces[e]) = 1
  BY IdsAreTold DEF Entities
<1>2. \A c \in Columns : c[1] \in Entities /\ c[2] \in DOMAIN Pieces /\ Pieces[c[2]] \in Seq(STRING)
  BY IdsAreTold DEF Entities, Columns, ColumnsOf
<1>3. ASSUME NEW c \in Columns
      PROVE  /\ Len(Name(c)) = 2 + Len(Pieces[c[2]]) /\ Name(c)[2] = Pieces[c[1]][1]
             /\ \A i \in 1..Len(Pieces[c[2]]) : Name(c)[2 + i] = Pieces[c[2]][i]
  <2> DEFINE a == Pieces[c[1]]
             b == Pieces[c[2]]
  <2>1. a \in Seq(STRING) /\ Len(a) = 1 /\ b \in Seq(STRING)
    BY <1>1, <1>2
  <2> HIDE DEF a, b
  <2>2. /\ Len(<<"ux">> \o a \o b) = 2 + Len(b) /\ (<<"ux">> \o a \o b)[2] = a[1]
        /\ \A i \in 1..Len(b) : (<<"ux">> \o a \o b)[2 + i] = b[i]
    BY <2>1, PartsOfNames
  <2> QED
    BY <2>2 DEF Name, UniqueIndexName, a, b
<1>4. \A e1, e2 \in Entities : Pieces[e1][1] = Pieces[e2][1] => e1 = e2
  <2>1. \A s, t \in Seq(STRING) : Len(s) = 1 /\ Len(t) = 1 /\ s[1] = t[1] => s = t
    OBVIOUS
  <2> QED
    BY <1>1, <2>1, IdsAreTold
<1>5. ASSUME NEW c \in Columns, NEW d \in Columns, Name(c) = Name(d)
      PROVE  c = d
  <2>1. c[1] = d[1]
    BY <1>2, <1>3, <1>4, <1>5
  <2>2. c[2] = d[2]
    <3> DEFINE s == Pieces[c[2]]
               t == Pieces[d[2]]
               n == Name(c)
    <3>1. s \in Seq(STRING) /\ t \in Seq(STRING)
      BY <1>2
    <3>2. /\ Len(n) = 2 + Len(s) /\ \A i \in 1..Len(s) : n[2 + i] = s[i]
          /\ Len(n) = 2 + Len(t) /\ \A i \in 1..Len(t) : n[2 + i] = t[i]
      BY <1>3, <1>5
    <3> HIDE DEF s, t, n
    <3>3. s = t
      BY <3>1, <3>2
    <3> QED
      BY <1>2, <3>3, IdsAreTold DEF s, t
  <2> QED
    BY <2>1, <2>2, ColumnIsPair
<1>6. ASSUME NEW c \in Columns, NEW e \in Entities
      PROVE  Name(c) # Pieces[e]
  <2>1. Len(Pieces[c[2]]) \in Nat
    BY <1>2
  <2> QED
    BY <1>1, <1>3, <2>1
<1>7. ASSUME NEW e1 \in Entities, NEW e2 \in Entities
      PROVE  <<"mig">> \o Pieces[e1] # Pieces[e2]
  <2> DEFINE s == Pieces[e1]
  <2>1. s \in Seq(STRING) /\ Len(s) = 1
    BY <1>1
  <2> HIDE DEF s
  <2>2. Len(<<"mig">> \o s) = 2
    BY <2>1, PartsOfNames
  <2> QED
    BY <1>1, <2>2 DEF s
<1> QED
  BY <1>5, <1>6, <1>7 DEF NamesNeverMeet, Name, Entities

\* The indexes of some columns.
LEMMA IndexesTell ==
  ASSUME NamesNeverMeet, NEW keys, keys \subseteq Columns
  PROVE  /\ DOMAIN IndexesOf(keys) = {Name(c) : c \in keys}
         /\ \A c \in keys : IndexesOf(keys)[Name(c)] = c
         /\ \A c \in Columns : Name(c) \in DOMAIN IndexesOf(keys) <=> c \in keys
<1>1. DOMAIN IndexesOf(keys) = {Name(c) : c \in keys}
  BY DEF IndexesOf
<1>2. ASSUME NEW c \in keys
      PROVE  IndexesOf(keys)[Name(c)] = c
  <2>1. IndexesOf(keys)[Name(c)] = CHOOSE d \in Columns : Name(d) = Name(c)
    BY DEF IndexesOf
  <2> QED
    BY <2>1, NamesTell
<1> QED
  BY <1>1, <1>2, NamesTell

\* Whatever has their names and says so of them is their indexes.
LEMMA IndexesAre ==
  ASSUME NamesNeverMeet, NEW keys, keys \subseteq Columns, NEW g,
         g = [n \in DOMAIN g |-> g[n]], DOMAIN g = {Name(c) : c \in keys},
         \A c \in keys : g[Name(c)] = c
  PROVE  g = IndexesOf(keys)
<1>1. IndexesOf(keys) = [n \in DOMAIN IndexesOf(keys) |-> IndexesOf(keys)[n]]
  BY DEF IndexesOf
<1>2. /\ DOMAIN IndexesOf(keys) = DOMAIN g
      /\ \A c \in keys : IndexesOf(keys)[Name(c)] = c
  BY IndexesTell
<1>3. \A n \in DOMAIN g : \E c \in keys : n = Name(c)
  OBVIOUS
<1>4. \A n \in DOMAIN g : g[n] = IndexesOf(keys)[n]
  BY <1>2, <1>3
<1> QED
  BY <1>1, <1>2, <1>4

\* A database, member by member.
LEMMA Members ==
  ASSUME NEW columns, NEW keys
  PROVE  /\ Database(columns, keys).tables = columns
         /\ Database(columns, keys).indexes = IndexesOf(keys)
         /\ Database(columns, keys).ok
BY DEF Database, Holding

\* The names in use, beside those of the tables.
LEMMA NamesOfDatabase ==
  ASSUME NamesNeverMeet, NEW columns, NEW keys, keys \subseteq Columns,
         DOMAIN columns \subseteq Entities
  PROVE  /\ \A c \in Columns : Name(c) \in Names(Database(columns, keys)) <=> c \in keys
         /\ \A e \in Entities : TemporaryName(e) \notin Names(Database(columns, keys))
         /\ \A e \in Entities : Pieces[e] \notin DOMAIN IndexesOf(keys)
<1>1. Names(Database(columns, keys)) = {Pieces[e] : e \in DOMAIN columns} \cup DOMAIN IndexesOf(keys)
  BY Members DEF Names
<1>2. DOMAIN IndexesOf(keys) = {Name(c) : c \in keys}
  BY IndexesTell
<1> QED
  BY <1>1, <1>2, NamesTell

\* CREATE TABLE.
LEMMA TableIsAdded ==
  ASSUME NamesNeverMeet, NEW columns, NEW keys, keys \subseteq Columns,
         DOMAIN columns \subseteq Entities, NEW e \in Entities, NEW ent
  PROVE  AddTable(Database(columns, keys), e, ent) =
           IF e \in DOMAIN columns THEN Database(columns, keys)
           ELSE Database(With(columns, e, CreateTable(ent).cols), keys)
<1> DEFINE d == Database(columns, keys)
<1>1. d.ok /\ d.tables = columns /\ d.indexes = IndexesOf(keys)
  BY Members
<1>2. Pieces[e] \notin DOMAIN IndexesOf(keys)
  BY NamesOfDatabase
<1>3. Database(With(columns, e, CreateTable(ent).cols), keys)
        = Holding(With(columns, e, CreateTable(ent).cols), IndexesOf(keys))
  BY DEF Database
<1> HIDE DEF d
<1>4. AddTable(d, e, ent) =
        IF e \in DOMAIN columns THEN d
        ELSE Database(With(columns, e, CreateTable(ent).cols), keys)
  BY <1>1, <1>2, <1>3 DEF AddTable
<1> QED
  BY <1>4 DEF d

\* CREATE UNIQUE INDEX.
LEMMA IndexIsAdded ==
  ASSUME NamesNeverMeet, NEW columns, DOMAIN columns \subseteq Entities,
         NEW keys, keys \subseteq Columns, NEW e, NEW f, <<e, f>> \in Columns
  PROVE  AddIndex(Database(columns, keys), e, f) = Database(columns, keys \cup {<<e, f>>})
<1> DEFINE d == Database(columns, keys)
           name == UniqueIndexName(e, f)
<1>1. name = Name(<<e, f>>)
  BY DEF Name
<1>a. d.ok /\ d.tables = columns /\ d.indexes = IndexesOf(keys)
  BY Members
<1>b. AddIndex(d, e, f) =
        IF ~d.ok \/ name \in DOMAIN d.indexes THEN d
        ELSE IF name \in Names(d) THEN Failed
        ELSE Holding(d.tables, With(d.indexes, name, <<e, f>>))
  BY DEF AddIndex
<1> HIDE DEF d, name
<1>2. CASE <<e, f>> \in keys
  <2>1. keys \cup {<<e, f>>} = keys
    BY <1>2
  <2>2. name \in DOMAIN IndexesOf(keys)
    BY <1>1, <1>2, IndexesTell
  <2>3. AddIndex(d, e, f) = d
    BY <1>a, <1>b, <2>2
  <2> QED
    BY <2>1, <2>3 DEF d
<1>3. CASE <<e, f>> \notin keys
  <2> DEFINE g == With(IndexesOf(keys), name, <<e, f>>)
             others == keys \cup {<<e, f>>}
  <2>1. name \notin DOMAIN IndexesOf(keys)
    BY <1>1, <1>3, IndexesTell
  <2>2. name \notin Names(d)
    BY <1>1, <1>3, NamesOfDatabase DEF d
  <2>3. AddIndex(d, e, f) = Holding(columns, g)
    BY <1>a, <1>b, <2>1, <2>2
  <2>4. g = IndexesOf(others)
    <3>1. others \subseteq Columns
      OBVIOUS
    <3>2. g = [n \in DOMAIN g |-> g[n]] /\ DOMAIN g = DOMAIN IndexesOf(keys) \cup {name}
      BY DEF With
    <3>3. DOMAIN g = {Name(c) : c \in others}
      <4>1. DOMAIN IndexesOf(keys) = {Name(c) : c \in keys}
        BY IndexesTell
      <4> QED
        BY <1>1, <3>2, <4>1
    <3>4. \A c \in others : g[Name(c)] = c
      BY <1>1, <1>3, IndexesTell, NamesTell DEF With
    <3> QED
      BY <3>1, <3>2, <3>3, <3>4, IndexesAre
  <2> QED
    BY <2>3, <2>4 DEF Database, d
<1> QED
  BY <1>2, <1>3

\* What is left of the indexes.
LEMMA IndexesWithout ==
  ASSUME NamesNeverMeet, NEW keys, keys \subseteq Columns, NEW names, NEW others \in SUBSET keys,
         \A c \in keys : Name(c) \in names <=> c \notin others
  PROVE  Without(IndexesOf(keys), names) = IndexesOf(others)
<1> DEFINE g == Without(IndexesOf(keys), names)
<1>1. g = [n \in DOMAIN g |-> g[n]] /\ DOMAIN g = DOMAIN IndexesOf(keys) \ names
  BY DEF Without
<1>2. DOMAIN g = {Name(c) : c \in others}
  <2>1. DOMAIN IndexesOf(keys) = {Name(c) : c \in keys}
    BY IndexesTell
  <2> QED
    BY <1>1, <2>1
<1>3. \A c \in others : g[Name(c)] = c
  BY <1>1, IndexesTell DEF Without
<1> QED
  BY <1>1, <1>2, <1>3, IndexesAre

\* DROP INDEX.
LEMMA IndexesAreDropped ==
  ASSUME NamesNeverMeet, NEW columns, NEW keys, keys \subseteq Columns,
         NEW gone, gone \subseteq Columns
  PROVE  DropIndexes(Database(columns, keys), {Name(c) : c \in gone}) =
           IF gone \subseteq keys THEN Database(columns, keys \ gone) ELSE Failed
<1> DEFINE d == Database(columns, keys)
           names == {Name(c) : c \in gone}
<1>1. d.ok /\ (names \subseteq DOMAIN d.indexes <=> gone \subseteq keys)
  <2>1. DOMAIN d.indexes = {Name(c) : c \in keys} /\ d.ok
    <3>1. d.ok /\ d.indexes = IndexesOf(keys)
      BY Members
    <3>2. DOMAIN IndexesOf(keys) = {Name(c) : c \in keys}
      BY IndexesTell
    <3> HIDE DEF d
    <3> QED
      BY <3>1, <3>2
  <2>2. gone \subseteq keys => names \subseteq DOMAIN d.indexes
    BY <2>1
  <2>3. ASSUME names \subseteq DOMAIN d.indexes, NEW c \in gone
        PROVE  c \in keys
    BY <2>1, <2>3, NamesTell
  <2> QED
    BY <2>1, <2>2, <2>3
<1>2. \A c \in keys : Name(c) \in names <=> c \notin keys \ gone
  BY NamesTell
<1>3. Without(IndexesOf(keys), names) = IndexesOf(keys \ gone)
  BY <1>2, IndexesWithout
<1> QED
  BY <1>1, <1>3, Members DEF DropIndexes, Database

\* DROP TABLE.
LEMMA TableIsDropped ==
  ASSUME NamesNeverMeet, NEW columns, NEW keys, keys \subseteq Columns, NEW e
  PROVE  DropTable(Database(columns, keys), e) =
           IF e \in DOMAIN columns
           THEN Database(Without(columns, {e}), {c \in keys : c[1] # e}) ELSE Failed
<1> DEFINE d == Database(columns, keys)
           names == {n \in DOMAIN IndexesOf(keys) : IndexesOf(keys)[n][1] = e}
           others == {c \in keys : c[1] # e}
<1>1. \A c \in keys : Name(c) \in names <=> c \notin others
  BY IndexesTell
<1>2. Without(IndexesOf(keys), names) = IndexesOf(others)
  BY <1>1, IndexesWithout
<1>3. d.ok /\ d.tables = columns /\ d.indexes = IndexesOf(keys)
  BY Members
<1> QED
  BY <1>2, <1>3 DEF DropTable, Database

\* The unique indexes of a table.
LEMMA IndexesAreAdded ==
  ASSUME NamesNeverMeet, NEW columns, DOMAIN columns \subseteq Entities,
         NEW keys, keys \subseteq Columns, NEW e, NEW fields, IsFiniteSet(fields),
         \A f \in fields : <<e, f>> \in Columns
  PROVE  AddIndexes(Database(columns, keys), e, fields) =
           Database(columns, keys \cup {<<e, f>> : f \in fields})
<1> DEFINE d == Database(columns, keys)
           Chosen(s) == CHOOSE x \in s : TRUE
           Of(s) == Database(columns, keys \cup {<<e, f>> : f \in s})
           g == [s \in SUBSET fields |-> Of(s)]
           Fits(h) == h = [s \in SUBSET fields |->
                             IF s = {} THEN d ELSE AddIndex(h[s \ {Chosen(s)}], e, Chosen(s))]
           it == CHOOSE h : Fits(h)
<1>1. AddIndexes(d, e, fields) = it[fields]
  BY DEF AddIndexes, FoldSet, MapThenFoldSet
<1>2. \A s \in SUBSET fields : s # {} => Chosen(s) \in s
  OBVIOUS
<1>3. Of({}) = d
  <2>1. keys \cup {<<e, f>> : f \in {}} = keys
    OBVIOUS
  <2> QED
    BY <2>1
<1>4. ASSUME NEW s \in SUBSET fields, NEW x \in s
      PROVE  Of(s) = AddIndex(Of(s \ {x}), e, x)
  <2> DEFINE others == keys \cup {<<e, f>> : f \in s \ {x}}
  <2>1. others \subseteq Columns /\ <<e, x>> \in Columns
    OBVIOUS
  <2>2. others \cup {<<e, x>>} = keys \cup {<<e, f>> : f \in s}
    OBVIOUS
  <2> QED
    BY <2>1, <2>2, IndexIsAdded
<1> HIDE DEF d, Chosen, Of
<1>5. Fits(g)
  BY <1>2, <1>3, <1>4
<1> HIDE DEF g
<1>6. Fits(it)
  BY <1>5
<1> HIDE DEF it
<1>7. it[{}] = g[{}]
  BY <1>3, <1>6 DEF g
<1>8. ASSUME NEW s \in SUBSET fields, s # {}
      PROVE  \E x \in s : it[s \ {x}] = g[s \ {x}] => it[s] = g[s]
  <2>1. it[s] = AddIndex(it[s \ {Chosen(s)}], e, Chosen(s))
    BY <1>6, <1>8
  <2>2. g[s] = AddIndex(g[s \ {Chosen(s)}], e, Chosen(s))
    BY <1>2, <1>4, <1>8 DEF g
  <2> QED
    BY <1>2, <1>8, <2>1, <2>2
<1>9. it[fields] = g[fields]
  BY <1>7, <1>8, FoldsAgree
<1> QED
  BY <1>1, <1>9 DEF d, g, Of

-----------------------------------------------------------------------------
(***************************************************************************)
(* The database of a set of tables, each with its unique columns.          *)
(***************************************************************************)
Tabular(T) ==
  /\ T = [e \in DOMAIN T |-> T[e]] /\ DOMAIN T \subseteq Entities
  /\ \A e \in DOMAIN T :
       /\ T[e] = [cols |-> T[e].cols, unique |-> T[e].unique]
       /\ T[e].unique \subseteq DOMAIN T[e].cols
       /\ \A f \in T[e].unique : <<e, f>> \in Columns

ColumnsIn(T) == [e \in DOMAIN T |-> T[e].cols]

Keys(T) == {c \in Columns : c[1] \in DOMAIN T /\ c[2] \in T[c[1]].unique}

Db(T) == Database(ColumnsIn(T), Keys(T))

TablesIn(d) == [e \in DOMAIN d.tables |-> [cols |-> d.tables[e], unique |-> Indexed(d, e)]]

\* The parts of such a database.
LEMMA DbIs ==
  ASSUME NEW T
  PROVE  /\ Db(T).tables = ColumnsIn(T) /\ Db(T).indexes = IndexesOf(Keys(T)) /\ Db(T).ok
         /\ Keys(T) \subseteq Columns /\ DOMAIN ColumnsIn(T) = DOMAIN T
BY Members DEF Db, Keys, ColumnsIn

\* The unique columns of a table, read off the indexes.
LEMMA IndexedAre ==
  ASSUME NamesNeverMeet, NEW T, Tabular(T), NEW e \in DOMAIN T
  PROVE  Indexed(Db(T), e) = T[e].unique
<1>1. \A f : <<e, f>> \in Keys(T) <=> f \in T[e].unique
  BY DEF Tabular, Keys
<1>2. \A f : (\E n \in DOMAIN IndexesOf(Keys(T)) : IndexesOf(Keys(T))[n] = <<e, f>>)
               <=> <<e, f>> \in Keys(T)
  <2>1. DOMAIN IndexesOf(Keys(T)) = {Name(c) : c \in Keys(T)}
    BY IndexesTell, DbIs
  <2>2. \A c \in Keys(T) : IndexesOf(Keys(T))[Name(c)] = c
    BY IndexesTell, DbIs
  <2> QED
    BY <2>1, <2>2
<1>3. Db(T).tables[e] = T[e].cols
  <2>1. Db(T).tables = ColumnsIn(T)
    BY DbIs
  <2>2. ColumnsIn(T)[e] = T[e].cols
    BY DEF ColumnsIn
  <2> QED
    BY <2>1, <2>2
<1>4. T[e].unique \subseteq DOMAIN T[e].cols
  BY DEF Tabular
<1> QED
  BY <1>1, <1>2, <1>3, <1>4, DbIs DEF Indexed

\* Its tables and unique columns can be read off it again.
LEMMA TablesAre ==
  ASSUME NamesNeverMeet, NEW T, Tabular(T)
  PROVE  TablesIn(Db(T)) = T
<1>1. DOMAIN Db(T).tables = DOMAIN T /\ \A e \in DOMAIN T : Db(T).tables[e] = T[e].cols
  <2>1. Db(T).tables = ColumnsIn(T)
    BY DbIs
  <2>2. DOMAIN ColumnsIn(T) = DOMAIN T /\ \A e \in DOMAIN T : ColumnsIn(T)[e] = T[e].cols
    BY DEF ColumnsIn
  <2> QED
    BY <2>1, <2>2
<1>2. \A e \in DOMAIN T : [cols |-> Db(T).tables[e], unique |-> Indexed(Db(T), e)] = T[e]
  BY <1>1, IndexedAre DEF Tabular
<1>3. TablesIn(Db(T)) = [e \in DOMAIN T |-> T[e]]
  BY <1>1, <1>2 DEF TablesIn
<1> QED
  BY <1>3 DEF Tabular

\* One table more, or another one in its place; one less.
IsTableOf(t, e) ==
  /\ t = [cols |-> t.cols, unique |-> t.unique] /\ t.unique \subseteq DOMAIN t.cols
  /\ \A f \in t.unique : <<e, f>> \in Columns

IsWith(W, T, e, t) ==
  /\ Tabular(W) /\ DOMAIN W = DOMAIN T \cup {e} /\ W[e] = t
  /\ \A x \in DOMAIN T : x # e => W[x] = T[x]
  /\ Keys(W) = {c \in Keys(T) : c[1] # e} \cup {<<e, f>> : f \in t.unique}

\* A database with one more table, or another in its place, has the keys of both.
LEMMA WithTable ==
  ASSUME NEW T, Tabular(T), NEW e \in Entities, NEW t, IsTableOf(t, e)
  PROVE  IsWith(With(T, e, t), T, e, t)
<1> DEFINE W == With(T, e, t)
<1>1. /\ DOMAIN W = DOMAIN T \cup {e} /\ W[e] = t /\ \A x \in DOMAIN T : x # e => W[x] = T[x]
      /\ W = [x \in DOMAIN W |-> W[x]]
  BY DEF With
<1> HIDE DEF W
<1>2. Tabular(W)
  BY <1>1 DEF Tabular, IsTableOf
<1>3. Keys(W) = {c \in Keys(T) : c[1] # e} \cup {<<e, f>> : f \in t.unique}
  BY <1>1, ColumnIsPair DEF Keys, IsTableOf
<1> QED
  BY <1>1, <1>2, <1>3 DEF W, IsWith

\* One that loses some tables loses their keys.
LEMMA WithoutTable ==
  ASSUME NEW T, Tabular(T), NEW gone
  PROVE  /\ Tabular(Without(T, gone))
         /\ DOMAIN Without(T, gone) = DOMAIN T \ gone
         /\ \A x \in DOMAIN T \ gone : Without(T, gone)[x] = T[x]
         /\ Keys(Without(T, gone)) = {c \in Keys(T) : c[1] \notin gone}
<1> DEFINE W == Without(T, gone)
<1>1. /\ DOMAIN W = DOMAIN T \ gone /\ \A x \in DOMAIN T \ gone : W[x] = T[x]
      /\ W = [x \in DOMAIN W |-> W[x]]
  BY DEF Without
<1> HIDE DEF W
<1>2. Tabular(W)
  BY <1>1 DEF Tabular
<1>3. Keys(W) = {c \in Keys(T) : c[1] \notin gone}
  BY <1>1 DEF Keys
<1> QED
  BY <1>1, <1>2, <1>3 DEF W

\* What a manifest's entity declares are columns, finitely many.
LEMMA DeclaredColumns ==
  ASSUME NEW m \in Manifests, NEW e \in DOMAIN m
  PROVE  /\ e \in Entities
         /\ UniqueFields(m[e]) \subseteq DOMAIN m[e].fields
         /\ \A f \in DOMAIN m[e].fields : <<e, f>> \in Columns
         /\ \A s \in SUBSET DOMAIN m[e].fields : IsFiniteSet(s)
BY FS_Subset, ColumnsOfEntity, ManifestsAreFiles DEF UniqueFields, Entities

\* CREATE TABLE alone has no unique column, and the statements after it add them.
LEMMA NewTable ==
  ASSUME NEW ent
  PROVE  /\ CreateTable(ent) = [cols |-> CreateTable(ent).cols, unique |-> {}]
         /\ TableDDL(ent) = [cols |-> CreateTable(ent).cols, unique |-> UniqueFields(ent)]
         /\ DOMAIN CreateTable(ent).cols = DOMAIN ent.fields
<1> DEFINE c == [f \in DOMAIN ent.fields |-> ColumnDef(ent.fields[f], FALSE)]
           u == UniqueFields(ent)
<1>1. DOMAIN c = DOMAIN ent.fields
  OBVIOUS
<1>2. CreateTable(ent) = [cols |-> c, unique |-> {}]
  BY DEF CreateTable
<1> HIDE DEF c
<1>3. TableDDL(ent) = [[cols |-> c, unique |-> {}] EXCEPT !.unique = u]
  BY <1>2 DEF TableDDL
<1> HIDE DEF u
<1>4. TableDDL(ent) = [cols |-> c, unique |-> u]
  BY <1>3
<1> QED
  BY <1>1, <1>2, <1>4 DEF u

\* CREATE TABLE of a new table.
LEMMA TableCreated ==
  ASSUME NamesNeverMeet, NEW T, Tabular(T), NEW e \in Entities, NEW ent
  PROVE  AddTable(Db(T), e, ent) = IF e \in DOMAIN T THEN Db(T) ELSE Db(With(T, e, CreateTable(ent)))
<1> DEFINE W == With(T, e, CreateTable(ent))
<1>1. AddTable(Db(T), e, ent) =
        IF e \in DOMAIN T THEN Db(T)
        ELSE Database(With(ColumnsIn(T), e, CreateTable(ent).cols), Keys(T))
  BY TableIsAdded, DbIs DEF Db, Tabular
<1>2. ASSUME e \notin DOMAIN T
      PROVE  Database(With(ColumnsIn(T), e, CreateTable(ent).cols), Keys(T)) = Db(W)
  <2>1. /\ DOMAIN W = DOMAIN T \cup {e} /\ W[e] = CreateTable(ent)
        /\ \A x \in DOMAIN T : x # e => W[x] = T[x]
        /\ Keys(W) = {c \in Keys(T) : c[1] # e}
    <3> DEFINE t == CreateTable(ent)
    <3>1. t.unique = {} /\ IsTableOf(t, e)
      BY DEF CreateTable, IsTableOf
    <3> HIDE DEF t
    <3>2. {<<e, f>> : f \in t.unique} = {}
      BY <3>1
    <3> DEFINE V == With(T, e, t)
    <3>3. /\ DOMAIN V = DOMAIN T \cup {e} /\ V[e] = t
          /\ \A x \in DOMAIN T : x # e => V[x] = T[x]
          /\ Keys(V) = {c \in Keys(T) : c[1] # e} \cup {<<e, f>> : f \in t.unique}
      <4>1. IsWith(V, T, e, t)
        BY <3>1, WithTable
      <4> QED
        BY <4>1 DEF IsWith
    <3> HIDE DEF V
    <3>4. Keys(V) = {c \in Keys(T) : c[1] # e}
      BY <3>2, <3>3
    <3> QED
      BY <3>3, <3>4 DEF V, t
  <2> HIDE DEF W
  <2>2. Keys(W) = Keys(T)
    BY <1>2, <2>1 DEF Keys
  <2>3. ColumnsIn(W) = With(ColumnsIn(T), e, CreateTable(ent).cols)
    BY <1>2, <2>1 DEF ColumnsIn, With
  <2> QED
    BY <2>2, <2>3 DEF Db
<1> QED
  BY <1>1, <1>2

\* CREATE UNIQUE INDEX, for some fields of a table.
Indexing(t, fields) == [cols |-> t.cols, unique |-> t.unique \cup fields]

\* The unique indexes of a table, added to those it has.
LEMMA IndexesCreated ==
  ASSUME NamesNeverMeet, NEW T, Tabular(T), NEW e \in DOMAIN T, NEW fields, IsFiniteSet(fields),
         fields \subseteq DOMAIN T[e].cols, \A f \in fields : <<e, f>> \in Columns
  PROVE  AddIndexes(Db(T), e, fields) = Db(With(T, e, Indexing(T[e], fields)))
<1> DEFINE t == Indexing(T[e], fields)
           W == With(T, e, t)
<1>1. AddIndexes(Db(T), e, fields) =
        Database(ColumnsIn(T), Keys(T) \cup {<<e, f>> : f \in fields})
  BY IndexesAreAdded, DbIs DEF Db, Tabular
<1>2. /\ t.cols = T[e].cols /\ t.unique = T[e].unique \cup fields
      /\ t = [cols |-> t.cols, unique |-> t.unique]
  BY DEF Indexing
<1>3. IsTableOf(t, e) /\ e \in Entities
  BY <1>2 DEF Tabular, IsTableOf
<1> HIDE DEF t
<1>4. /\ DOMAIN W = DOMAIN T \cup {e} /\ W[e] = t
      /\ \A x \in DOMAIN T : x # e => W[x] = T[x]
      /\ Keys(W) = {c \in Keys(T) : c[1] # e} \cup {<<e, f>> : f \in t.unique}
  <2>1. IsWith(W, T, e, t)
    BY <1>3, WithTable
  <2> QED
    BY <2>1 DEF IsWith
<1> HIDE DEF W
<1>5. Keys(W) = Keys(T) \cup {<<e, f>> : f \in fields}
  BY <1>2, <1>4, ColumnIsPair DEF Keys, Tabular
<1>6. ColumnsIn(W) = ColumnsIn(T)
  BY <1>2, <1>4 DEF ColumnsIn
<1> QED
  BY <1>1, <1>5, <1>6 DEF Db, W, t

\* DROP TABLE.
LEMMA TableGone ==
  ASSUME NamesNeverMeet, NEW T, Tabular(T), NEW e
  PROVE  DropTable(Db(T), e) = IF e \in DOMAIN T THEN Db(Without(T, {e})) ELSE Failed
<1> DEFINE W == Without(T, {e})
<1>1. DropTable(Db(T), e) =
        IF e \in DOMAIN T
        THEN Database(Without(ColumnsIn(T), {e}), {c \in Keys(T) : c[1] # e}) ELSE Failed
  BY TableIsDropped, DbIs DEF Db
<1>2. Keys(W) = {c \in Keys(T) : c[1] # e}
  <2>1. Keys(W) = {c \in Keys(T) : c[1] \notin {e}}
    BY WithoutTable
  <2> QED
    BY <2>1
<1>3. ColumnsIn(W) = Without(ColumnsIn(T), {e})
  BY DEF ColumnsIn, Without
<1> QED
  BY <1>1, <1>2, <1>3 DEF Db

-----------------------------------------------------------------------------
(***************************************************************************)
(* Entities.                                                               *)
(***************************************************************************)
LEMMA DeclaredTables ==
  ASSUME NEW m \in Manifests, NEW e \in DOMAIN m
  PROVE  IsTableOf(CreateTable(m[e]), e) /\ IsTableOf(TableDDL(m[e]), e)
<1> DEFINE c == CreateTable(m[e])
           t == TableDDL(m[e])
<1>1. /\ c = [cols |-> c.cols, unique |-> {}] /\ t = [cols |-> c.cols, unique |-> UniqueFields(m[e])]
      /\ DOMAIN c.cols = DOMAIN m[e].fields
  BY NewTable
<1> HIDE DEF c, t
<1>2. /\ UniqueFields(m[e]) \subseteq DOMAIN m[e].fields
      /\ \A f \in DOMAIN m[e].fields : <<e, f>> \in Columns
  BY DeclaredColumns
<1> QED
  BY <1>1, <1>2 DEF IsTableOf, c, t

\* CREATE TABLE and its indexes, for an entity that is new.
LEMMA EntityCreated ==
  ASSUME NamesNeverMeet, NEW T, Tabular(T), NEW m \in Manifests, NEW e \in DOMAIN m, e \notin DOMAIN T
  PROVE  AddIndexes(AddTable(Db(T), e, m[e]), e, UniqueFields(m[e])) = Db(With(T, e, TableDDL(m[e])))
<1> DEFINE c == CreateTable(m[e])
           u == UniqueFields(m[e])
           V == With(T, e, c)
<1>1. e \in Entities
  BY DeclaredColumns
<1>2. AddTable(Db(T), e, m[e]) = Db(V)
  BY <1>1, TableCreated
<1>3. IsWith(V, T, e, c)
  BY <1>1, DeclaredTables, WithTable
<1>4. Tabular(V) /\ e \in DOMAIN V /\ V[e] = c
  BY <1>3 DEF IsWith
<1>5. /\ DOMAIN c.cols = DOMAIN m[e].fields
      /\ IsFiniteSet(u) /\ u \subseteq DOMAIN m[e].fields /\ \A f \in u : <<e, f>> \in Columns
  BY NewTable, DeclaredColumns
<1>6. Indexing(c, u) = TableDDL(m[e])
  <2>1. c = [cols |-> c.cols, unique |-> {}] /\ TableDDL(m[e]) = [cols |-> c.cols, unique |-> u]
    BY NewTable
  <2> HIDE DEF c, u
  <2>2. c.unique = {}
    BY <2>1
  <2> QED
    BY <2>1, <2>2 DEF Indexing
<1>7. With(V, e, TableDDL(m[e])) = With(T, e, TableDDL(m[e]))
  BY DEF With
<1> HIDE DEF V, c, u
<1>8. AddIndexes(Db(V), e, u) = Db(With(V, e, Indexing(V[e], u)))
  BY <1>4, <1>5, IndexesCreated
<1> QED
  BY <1>2, <1>4, <1>6, <1>7, <1>8 DEF u

\* A rebuild.
LEMMA EntityRebuilt ==
  ASSUME NamesNeverMeet, NEW T, Tabular(T), NEW m \in Manifests, NEW e \in DOMAIN m, e \in DOMAIN T
  PROVE  RebuildEntity(Db(T), e, m[e]) = Db(With(T, e, TableDDL(m[e])))
<1> DEFINE V == Without(T, {e})
<1>1. TemporaryName(e) \notin Names(Db(T))
  BY NamesOfDatabase, DbIs, DeclaredColumns DEF Db, Tabular
<1>2. DropTable(Db(T), e) = Db(V)
  BY TableGone
<1>3. Tabular(V) /\ e \notin DOMAIN V
  <2>1. Tabular(V) /\ DOMAIN V = DOMAIN T \ {e}
    BY WithoutTable
  <2> QED
    BY <2>1
<1>4. With(V, e, TableDDL(m[e])) = With(T, e, TableDDL(m[e]))
  BY DEF With, Without
<1> HIDE DEF V
<1> QED
  BY <1>1, <1>2, <1>3, <1>4, EntityCreated DEF RebuildEntity

\* The table of an entity at its manifest's shape.
AtShape(t, ent) == DOMAIN t.cols = DOMAIN ent.fields /\ t.unique = UniqueFields(ent)

\* A table n at the new entity's shape: t's columns, and the added ones as ADD COLUMN writes them.
IsAltered(n, t, oe, ne) ==
  /\ AtShape(n, ne)
  /\ n = [cols |-> n.cols, unique |-> n.unique]
  /\ n.cols = [f \in DOMAIN ne.fields |->
                 IF f \in AddedFields(oe, ne) THEN AddColumn(ne.fields[f]) ELSE t.cols[f]]

\* What ALTER TABLE and the indexes make of it fits the new entity.
LEMMA NativeTableFits ==
  ASSUME NEW oe, NEW ne, NEW t, AtShape(t, oe), ~NativeRefused(t, oe, ne)
  PROVE  IsAltered(NativeTable(t, oe, ne), t, oe, ne)
<1> DEFINE n == NativeTable(t, oe, ne)
           added == AddedFields(oe, ne)
           dropped == DroppedFields(oe, ne)
           unindexed == {f \in KeptFields(oe, ne) : oe.fields[f].unique /\ ~ne.fields[f].unique}
           indexed == {f \in added : ne.fields[f].unique}
                      \cup {f \in KeptFields(oe, ne) : ~oe.fields[f].unique /\ ne.fields[f].unique}
<1>1. n = [cols |-> [f \in (DOMAIN t.cols \cup added) \ dropped |->
                       IF f \in added THEN AddColumn(ne.fields[f]) ELSE t.cols[f]],
           unique |-> (t.unique \cup indexed) \ unindexed]
  BY DEF NativeTable
<1>2. (DOMAIN t.cols \cup added) \ dropped = DOMAIN ne.fields
  BY DEF AtShape, AddedFields, DroppedFields
<1>3. \A f \in dropped : f \notin t.unique
  BY DEF NativeRefused
<1>4. (t.unique \cup indexed) \ unindexed = UniqueFields(ne)
  BY <1>3 DEF AtShape, UniqueFields, AddedFields, DroppedFields, KeptFields
<1> HIDE DEF n, unindexed, indexed
<1>5. /\ n.unique = UniqueFields(ne)
      /\ n.cols = [f \in DOMAIN ne.fields |->
                     IF f \in added THEN AddColumn(ne.fields[f]) ELSE t.cols[f]]
      /\ n = [cols |-> n.cols, unique |-> n.unique]
  BY <1>1, <1>2, <1>4
<1>6. DOMAIN n.cols = DOMAIN ne.fields
  BY <1>5
<1>7. IsAltered(n, t, oe, ne)
  BY <1>5, <1>6 DEF IsAltered, AtShape
<1> QED
  BY <1>7 DEF n

\* ALTER TABLE, and the indexes by name.
LEMMA EntityAltered ==
  ASSUME NamesNeverMeet, NEW T, Tabular(T), NEW old \in Manifests, NEW new \in Manifests,
         NEW e \in Kept(old, new), e \in DOMAIN T, AtShape(T[e], old[e])
  PROVE  ApplyNativeOps(Db(T), e, old[e], new[e]) =
           IF NativeRefused(T[e], old[e], new[e]) THEN Failed
           ELSE Db(With(T, e, NativeTable(T[e], old[e], new[e])))
<1> DEFINE oe == old[e]
           ne == new[e]
           d == Db(T)
           added == AddedFields(oe, ne)
           no_longer == {f \in KeptFields(oe, ne) : oe.fields[f].unique /\ ~ne.fields[f].unique}
           newly == {f \in UniqueFields(ne) : f \in added \/ ~oe.fields[f].unique}
           columns == [f \in DOMAIN ne.fields |->
                         IF f \in added THEN AddColumn(ne.fields[f]) ELSE d.tables[e][f]]
           held(f) == f \in Indexed(d, e) \/ (d.tables[e][f].fk # {} /\ ~d.tables[e][f].inline)
           altered == Holding([d.tables EXCEPT ![e] = columns], d.indexes)
           names == {UniqueIndexName(e, f) : f \in no_longer}
<1>1. ApplyNativeOps(d, e, oe, ne) =
        IF \E f \in DroppedFields(oe, ne) : held(f) THEN Failed
        ELSE AddIndexes(DropIndexes(altered, names), e, newly)
  BY DEF ApplyNativeOps
<1>2. d.tables[e] = T[e].cols /\ Indexed(d, e) = T[e].unique
  <2>1. d.tables = ColumnsIn(T)
    BY DbIs
  <2>2. ColumnsIn(T)[e] = T[e].cols
    BY DEF ColumnsIn
  <2> QED
    BY <2>1, <2>2, IndexedAre
<1>3. (\E f \in DroppedFields(oe, ne) : held(f)) <=> NativeRefused(T[e], oe, ne)
  BY <1>2 DEF AtShape, NativeRefused, AddedFields, DroppedFields, KeptFields, UniqueFields
<1>4. ASSUME ~NativeRefused(T[e], oe, ne)
      PROVE  AddIndexes(DropIndexes(altered, names), e, newly) = Db(With(T, e, NativeTable(T[e], oe, ne)))
  <2> DEFINE t == NativeTable(T[e], oe, ne)
             X == [ColumnsIn(T) EXCEPT ![e] = columns]
             gone == {<<e, f>> : f \in no_longer}
             W == With(T, e, t)
  <2>1. altered = Database(X, Keys(T))
    BY DbIs DEF Database
  <2>2. /\ e \in Entities /\ DOMAIN X \subseteq Entities /\ Keys(T) \subseteq Columns
    BY DbIs DEF Tabular
  <2>3. /\ t.unique = UniqueFields(ne) /\ DOMAIN t.cols = DOMAIN ne.fields
        /\ t = [cols |-> t.cols, unique |-> t.unique]
        /\ t.cols = columns
    <3>1. IsAltered(t, T[e], oe, ne)
      BY <1>4, NativeTableFits
    <3> HIDE DEF t
    <3> QED
      BY <1>2, <3>1 DEF IsAltered, AtShape
  <2>4. /\ UniqueFields(ne) \subseteq DOMAIN ne.fields /\ IsFiniteSet(newly)
        /\ \A f \in DOMAIN ne.fields : <<e, f>> \in Columns
        /\ \A f \in DOMAIN oe.fields : <<e, f>> \in Columns
    <3>1. e \in DOMAIN old /\ e \in DOMAIN new
      BY DEF Kept
    <3>2. /\ UniqueFields(ne) \subseteq DOMAIN ne.fields
          /\ \A f \in DOMAIN ne.fields : <<e, f>> \in Columns
          /\ \A f \in DOMAIN oe.fields : <<e, f>> \in Columns
      BY <3>1, DeclaredColumns
    <3>3. newly \in SUBSET DOMAIN ne.fields
      BY <3>2
    <3>4. IsFiniteSet(newly)
      BY <3>1, <3>3, DeclaredColumns
    <3> QED
      BY <3>2, <3>4
  <2>5. gone \subseteq Keys(T)
    BY <2>4 DEF Keys, AtShape, UniqueFields, KeptFields
  <2>6. names = {Name(c) : c \in gone}
    <3>1. \A f : Name(<<e, f>>) = UniqueIndexName(e, f)
      BY DEF Name
    <3> HIDE DEF no_longer
    <3> QED
      BY <3>1
  <2>7. DropIndexes(altered, names) = Database(X, Keys(T) \ gone)
    <3> HIDE DEF altered, names, gone, X
    <3> QED
      BY <2>1, <2>2, <2>5, <2>6, IndexesAreDropped
  <2>8. AddIndexes(Database(X, Keys(T) \ gone), e, newly)
          = Database(X, (Keys(T) \ gone) \cup {<<e, f>> : f \in newly})
    <3> HIDE DEF gone, X
    <3> QED
      BY <2>2, <2>4, IndexesAreAdded
  <2>9. IsWith(W, T, e, t)
    <3>1. IsTableOf(t, e)
      BY <2>3, <2>4 DEF IsTableOf
    <3> HIDE DEF t
    <3> QED
      BY <2>2, <3>1, WithTable
  <2>10. Keys(W) = (Keys(T) \ gone) \cup {<<e, f>> : f \in newly}
    <3>1. \A f : <<e, f>> \in Keys(T) <=> f \in UniqueFields(oe)
      BY <2>4 DEF Keys, AtShape, UniqueFields
    <3>2. \A f \in DroppedFields(oe, ne) : f \notin UniqueFields(oe)
      BY <1>4 DEF NativeRefused, AtShape
    <3>3. \A f : f \in UniqueFields(ne) <=> (f \in UniqueFields(oe) /\ f \notin no_longer) \/ f \in newly
      BY <3>2 DEF UniqueFields, AddedFields, DroppedFields, KeptFields
    <3>4. Keys(W) = {c \in Keys(T) : c[1] # e} \cup {<<e, f>> : f \in UniqueFields(ne)}
      BY <2>3, <2>9 DEF IsWith
    <3>5. \A c \in Keys(T) : c[1] = e => c = <<e, c[2]>>
      BY <2>2, ColumnIsPair
    <3> HIDE DEF no_longer, newly, W
    <3>6. \A f : <<e, f>> \in gone <=> f \in no_longer
      OBVIOUS
    <3>7. \A c \in gone : c[1] = e
      OBVIOUS
    <3> HIDE DEF gone
    <3> QED
      BY <3>1, <3>3, <3>4, <3>5, <3>6, <3>7
  <2>11. ColumnsIn(W) = X
    <3>1. /\ DOMAIN W = DOMAIN T \cup {e} /\ W[e] = t
          /\ \A x \in DOMAIN T : x # e => W[x] = T[x]
      BY <2>9 DEF IsWith
    <3>2. W[e].cols = columns
      BY <2>3, <3>1
    <3> HIDE DEF W, t, columns
    <3> QED
      BY <3>1, <3>2 DEF ColumnsIn
  <2> QED
    BY <2>7, <2>8, <2>10, <2>11 DEF Db
<1> QED
  BY <1>1, <1>3, <1>4

\* What the executor does to the table of an entity that stays.
EntityRefused(t, oe, ne, e) ==
  DiffEntity(e, oe, ne) # {} /\ ~NeedsRebuild(oe, ne) /\ NativeRefused(t, oe, ne)

\* Either way, an entity that stays is migrated, or refused, as Changeset says.
LEMMA EntityMigrated ==
  ASSUME NamesNeverMeet, NEW T, Tabular(T), NEW old \in Manifests, NEW new \in Manifests,
         NEW e \in Kept(old, new), e \in DOMAIN T, AtShape(T[e], old[e])
  PROVE  MigrateEntity(Db(T), e, old[e], new[e]) =
           IF EntityRefused(T[e], old[e], new[e], e) THEN Failed
           ELSE Db(With(T, e, MigratedTable(e, T[e], old, new)))
<1>1. e \in DOMAIN new /\ Db(T).ok
  BY DbIs DEF Kept
<1>2. CASE DiffEntity(e, old[e], new[e]) = {}
  <2>1. With(T, e, T[e]) = T
    BY DEF With, Tabular
  <2> QED
    BY <1>1, <1>2, <2>1 DEF MigrateEntity, MigratedTable, EntityRefused
<1>3. CASE DiffEntity(e, old[e], new[e]) # {} /\ NeedsRebuild(old[e], new[e])
  <2>1. RebuildEntity(Db(T), e, new[e]) = Db(With(T, e, TableDDL(new[e])))
    BY <1>1, EntityRebuilt
  <2> QED
    BY <1>1, <1>3, <2>1 DEF MigrateEntity, MigratedTable, RebuiltTable, EntityRefused
<1>4. CASE DiffEntity(e, old[e], new[e]) # {} /\ ~NeedsRebuild(old[e], new[e])
  BY <1>1, <1>4, EntityAltered DEF MigrateEntity, MigratedTable, EntityRefused
<1> QED
  BY <1>2, <1>3, <1>4

\* A table that is not refused ends at the shape of the new entity.
LEMMA MigratedTableFits ==
  ASSUME NEW old \in Manifests, NEW new \in Manifests, NEW e \in Kept(old, new),
         NEW t, IsTableOf(t, e), AtShape(t, old[e]), ~EntityRefused(t, old[e], new[e], e)
  PROVE  /\ IsTableOf(MigratedTable(e, t, old, new), e)
         /\ AtShape(MigratedTable(e, t, old, new), new[e])
<1> DEFINE oe == old[e]
           ne == new[e]
           after == MigratedTable(e, t, old, new)
<1>1. AtShape(after, ne) /\ after = [cols |-> after.cols, unique |-> after.unique]
  <2>1. CASE DiffEntity(e, oe, ne) = {}
    <3>1. AddedFields(oe, ne) = {} /\ DroppedFields(oe, ne) = {}
      <4> HIDE DEF oe, ne
      <4> QED
        BY <2>1, FieldOperations
    <3>2. \A f \in KeptFields(oe, ne) : oe.fields[f].unique = ne.fields[f].unique
      <4>1. \A f \in KeptFields(oe, ne) : FieldChanges(oe.fields[f], ne.fields[f]) = {}
        BY <2>1, FieldOperations
      <4>2. "change_unique" \in FieldOpKinds
        BY DEF FieldOpKinds
      <4> QED
        BY <4>1, <4>2 DEF FieldChanges
    <3>3. DOMAIN oe.fields = DOMAIN ne.fields /\ UniqueFields(oe) = UniqueFields(ne)
      BY <3>1, <3>2 DEF AddedFields, DroppedFields, KeptFields, UniqueFields
    <3>4. after = t
      BY <2>1 DEF MigratedTable
    <3> HIDE DEF oe, ne, after
    <3> QED
      BY <3>3, <3>4 DEF AtShape, IsTableOf, oe, ne
  <2>2. CASE DiffEntity(e, oe, ne) # {} /\ NeedsRebuild(oe, ne)
    <3>1. after = TableDDL(ne)
      BY <2>2 DEF MigratedTable, RebuiltTable
    <3> DEFINE c == CreateTable(ne).cols
    <3>2. TableDDL(ne) = [cols |-> c, unique |-> UniqueFields(ne)] /\ DOMAIN c = DOMAIN ne.fields
      BY NewTable
    <3> HIDE DEF after, c, ne
    <3> QED
      BY <3>1, <3>2 DEF AtShape
  <2>3. CASE DiffEntity(e, oe, ne) # {} /\ ~NeedsRebuild(oe, ne)
    <3>1. after = NativeTable(t, oe, ne) /\ ~NativeRefused(t, oe, ne)
      BY <2>3 DEF MigratedTable, EntityRefused
    <3> DEFINE n == NativeTable(t, oe, ne)
    <3>2. AtShape(n, ne) /\ n = [cols |-> n.cols, unique |-> n.unique]
      <4>1. AtShape(t, oe) /\ ~NativeRefused(t, oe, ne)
        BY <3>1
      <4> HIDE DEF oe, ne
      <4>2. IsAltered(n, t, oe, ne)
        BY <4>1, NativeTableFits
      <4> HIDE DEF n
      <4> QED
        BY <4>2 DEF IsAltered
    <3> HIDE DEF after, n
    <3> QED
      BY <3>1, <3>2 DEF n
  <2> QED
    BY <2>1, <2>2, <2>3
<1>2. e \in DOMAIN new
  BY DEF Kept
<1>3. /\ UniqueFields(ne) \subseteq DOMAIN ne.fields
      /\ \A f \in DOMAIN ne.fields : <<e, f>> \in Columns
  BY <1>2, DeclaredColumns
<1> HIDE DEF after, ne
<1> QED
  BY <1>1, <1>3 DEF IsTableOf, AtShape, after, ne

-----------------------------------------------------------------------------
(***************************************************************************)
(* All entities, in their order.                                           *)
(***************************************************************************)
\* Some tables put over others.
Overlay(T, entities, F) ==
  [e \in DOMAIN T \cup entities |-> IF e \in entities THEN F[e] ELSE T[e]]

\* F gives every one of the entities a table.
AreTables(F, entities) ==
  entities \subseteq Entities /\ \A e \in entities : IsTableOf(F[e], e)

\* W is T with F's tables put over it.
IsOverlay(W, T, entities, F) ==
  /\ Tabular(W)
  /\ DOMAIN W = DOMAIN T \cup entities
  /\ \A e \in entities : W[e] = F[e]
  /\ \A e \in DOMAIN T \ entities : W[e] = T[e]

\* What an overlay holds.
LEMMA OverlayTables ==
  ASSUME NEW T, Tabular(T), NEW entities, NEW F, AreTables(F, entities)
  PROVE  IsOverlay(Overlay(T, entities, F), T, entities, F)
<1> DEFINE W == Overlay(T, entities, F)
<1>1. /\ W = [e \in DOMAIN W |-> W[e]] /\ DOMAIN W = DOMAIN T \cup entities
      /\ \A e \in entities : W[e] = F[e]
      /\ \A e \in DOMAIN T \ entities : W[e] = T[e]
  BY DEF Overlay
<1> HIDE DEF W
<1>2. Tabular(W)
  BY <1>1 DEF Tabular, AreTables, IsTableOf
<1>3. IsOverlay(W, T, entities, F)
  BY <1>1, <1>2 DEF IsOverlay
<1> QED
  BY <1>3 DEF W

\* One more table put over, and none.
LEMMA OverlayOne ==
  ASSUME NEW T, NEW entities, NEW F, NEW e, e \notin entities
  PROVE  With(Overlay(T, entities, F), e, F[e]) = Overlay(T, entities \cup {e}, F)
BY DEF With, Overlay

\* None leaves things as they are.
LEMMA OverlayNone ==
  ASSUME NEW T, Tabular(T), NEW F
  PROVE  Overlay(T, {}, F) = T
BY DEF Overlay, Tabular

\* All tables of a manifest: those that are there stay as they are.
BareTables(T, m) == [e \in DOMAIN m |-> IF e \in DOMAIN T THEN T[e] ELSE CreateTable(m[e])]

\* They are tables.
LEMMA BareTablesAre ==
  ASSUME NEW T, Tabular(T), NEW m \in Manifests, NEW e \in DOMAIN m
  PROVE  IsTableOf(BareTables(T, m)[e], e) /\ e \in Entities
BY DeclaredTables, DeclaredColumns DEF BareTables, Tabular, IsTableOf

\* CREATE TABLE for every entity.
LEMMA TablesCreated ==
  ASSUME NamesNeverMeet, NEW T, Tabular(T), NEW m \in Manifests
  PROVE  CreateTables(Db(T), m) = Db(Overlay(T, DOMAIN m, BareTables(T, m)))
<1> DEFINE D == DOMAIN EntityOrder
           d == Db(T)
           entities == DOMAIN m
           F == BareTables(T, m)
           Of(s) == Db(Overlay(T, Those(s, entities), F))
           step(acc, e) == IF e \in entities THEN AddTable(acc, e, m[e]) ELSE acc
           g == [s \in SUBSET D |-> Of(s)]
           Fits(h) == h = [s \in SUBSET D |->
                             IF s = {} THEN d ELSE step(h[s \ {Max(s)}], EntityOrder[Max(s)])]
           it == CHOOSE h : Fits(h)
<1>1. CreateTables(d, m) = it[D]
  BY DEF CreateTables, InOrder, FoldLeft, MapThenFoldSet
<1>2. Of({}) = d
  BY OverlayNone DEF Those
<1>3. ASSUME NEW s \in SUBSET D, NEW x \in s
      PROVE  Of(s) = step(Of(s \ {x}), EntityOrder[x])
  <2> DEFINE e == EntityOrder[x]
             P == Those(s \ {x}, entities)
             W == Overlay(T, P, F)
  <2>1. CASE e \in entities
    <3>1. P \subseteq entities /\ e \notin P /\ Those(s, entities) = P \cup {e}
      BY <2>1, Places DEF Those
    <3>2. Of(s) = Db(With(W, e, F[e]))
      <4>1. With(W, e, F[e]) = Overlay(T, P \cup {e}, F)
        <5> HIDE DEF P, F, e
        <5> QED
          BY <3>1, OverlayOne
      <4> QED
        BY <3>1, <4>1
    <3>3. /\ Tabular(W) /\ DOMAIN W = DOMAIN T \cup P
          /\ e \in DOMAIN T => W[e] = T[e]
      <4>1. P \subseteq Entities /\ \A y \in P : IsTableOf(F[y], y)
        BY <3>1, BareTablesAre
      <4>2. AreTables(F, P)
        BY <4>1 DEF AreTables
      <4> HIDE DEF P, F
      <4>3. IsOverlay(W, T, P, F)
        BY <4>2, OverlayTables
      <4> HIDE DEF W
      <4> QED
        BY <3>1, <4>3 DEF IsOverlay
    <3>4. step(Db(W), e) = Db(With(W, e, F[e]))
      <4> HIDE DEF P
      <4>1. CASE e \in DOMAIN T
        <5>1. AddTable(Db(W), e, m[e]) = Db(W)
          BY <2>1, <3>3, <4>1, TableCreated, DeclaredColumns
        <5>2. F[e] = W[e]
          BY <2>1, <3>3, <4>1 DEF BareTables
        <5>3. With(W, e, W[e]) = W
          BY <3>3, <4>1 DEF With, Tabular
        <5> QED
          BY <2>1, <5>1, <5>2, <5>3
      <4>2. CASE e \notin DOMAIN T
        <5>1. AddTable(Db(W), e, m[e]) = Db(With(W, e, CreateTable(m[e])))
          BY <2>1, <3>1, <3>3, <4>2, TableCreated, DeclaredColumns
        <5>2. F[e] = CreateTable(m[e])
          BY <2>1, <4>2 DEF BareTables
        <5> QED
          BY <2>1, <5>1, <5>2
      <4> QED
        BY <4>1, <4>2
    <3> QED
      BY <3>2, <3>4
  <2>2. CASE e \notin entities
    <3>1. Those(s, entities) = P
      BY <2>2 DEF Those
    <3> QED
      BY <2>2, <3>1
  <2> QED
    BY <2>1, <2>2
<1> HIDE DEF Of, step, d
<1>4. IsFiniteSet(D) /\ \A s \in SUBSET D : s # {} => Max(s) \in s
  BY OrderIsFinite
<1> HIDE DEF D
<1>5. Fits(g)
  BY <1>2, <1>3, <1>4
<1> HIDE DEF g
<1>6. Fits(it)
  BY <1>5
<1> HIDE DEF it
<1>7. it[{}] = g[{}]
  BY <1>2, <1>6 DEF g
<1>8. ASSUME NEW s \in SUBSET D, s # {}
      PROVE  \E x \in s : it[s \ {x}] = g[s \ {x}] => it[s] = g[s]
  <2>1. it[s] = step(it[s \ {Max(s)}], EntityOrder[Max(s)])
    BY <1>6, <1>8
  <2>2. g[s] = step(g[s \ {Max(s)}], EntityOrder[Max(s)])
    BY <1>3, <1>4, <1>8 DEF g
  <2> QED
    BY <1>4, <1>8, <2>1, <2>2
<1>9. it[D] = g[D]
  BY <1>4, <1>7, <1>8, FoldsAgree
<1>10. g[D] = Of(D)
  BY DEF g
<1> QED
  BY <1>1, <1>9, <1>10, AllPlaces DEF Of, d, D

\* All indexes of a manifest.
IndexedTables(T, m) == [e \in DOMAIN m |-> Indexing(T[e], UniqueFields(m[e]))]

\* They are tables.
LEMMA IndexedTablesAre ==
  ASSUME NEW T, Tabular(T), NEW m \in Manifests, NEW e \in DOMAIN m, e \in DOMAIN T,
         DOMAIN T[e].cols = DOMAIN m[e].fields
  PROVE  IsTableOf(IndexedTables(T, m)[e], e) /\ e \in Entities
<1> DEFINE t == Indexing(T[e], UniqueFields(m[e]))
<1>1. /\ t.cols = T[e].cols /\ t.unique = T[e].unique \cup UniqueFields(m[e])
      /\ t = [cols |-> t.cols, unique |-> t.unique]
  BY DEF Indexing
<1>2. IndexedTables(T, m)[e] = t
  BY DEF IndexedTables
<1> HIDE DEF t
<1>3. IsTableOf(t, e)
  BY <1>1, DeclaredColumns DEF IsTableOf, Tabular
<1> QED
  BY <1>2, <1>3, DeclaredColumns

\* CREATE UNIQUE INDEX for every unique field.
LEMMA AllIndexesCreated ==
  ASSUME NamesNeverMeet, NEW T, Tabular(T), NEW m \in Manifests, DOMAIN m \subseteq DOMAIN T,
         \A e \in DOMAIN m : DOMAIN T[e].cols = DOMAIN m[e].fields
  PROVE  CreateIndexes(Db(T), m) = Db(Overlay(T, DOMAIN m, IndexedTables(T, m)))
<1> DEFINE D == DOMAIN EntityOrder
           d == Db(T)
           entities == DOMAIN m
           F == IndexedTables(T, m)
           Of(s) == Db(Overlay(T, Those(s, entities), F))
           step(acc, e) == IF e \in entities THEN AddIndexes(acc, e, UniqueFields(m[e])) ELSE acc
           g == [s \in SUBSET D |-> Of(s)]
           Fits(h) == h = [s \in SUBSET D |->
                             IF s = {} THEN d ELSE step(h[s \ {Max(s)}], EntityOrder[Max(s)])]
           it == CHOOSE h : Fits(h)
<1>1. CreateIndexes(d, m) = it[D]
  BY DEF CreateIndexes, InOrder, FoldLeft, MapThenFoldSet
<1>2. Of({}) = d
  BY OverlayNone DEF Those
<1>3. ASSUME NEW s \in SUBSET D, NEW x \in s
      PROVE  Of(s) = step(Of(s \ {x}), EntityOrder[x])
  <2> DEFINE e == EntityOrder[x]
             P == Those(s \ {x}, entities)
             W == Overlay(T, P, F)
  <2>1. CASE e \in entities
    <3>1. P \subseteq entities /\ e \notin P /\ Those(s, entities) = P \cup {e}
      BY <2>1, Places DEF Those
    <3>2. Of(s) = Db(With(W, e, F[e]))
      <4>1. With(W, e, F[e]) = Overlay(T, P \cup {e}, F)
        <5> HIDE DEF P, F, e
        <5> QED
          BY <3>1, OverlayOne
      <4> QED
        BY <3>1, <4>1
    <3>3. /\ Tabular(W) /\ DOMAIN W = DOMAIN T \cup P
          /\ e \in DOMAIN T => W[e] = T[e]
      <4>1. P \subseteq Entities /\ \A y \in P : IsTableOf(F[y], y)
        BY <3>1, IndexedTablesAre
      <4>2. AreTables(F, P)
        BY <4>1 DEF AreTables
      <4> HIDE DEF P, F
      <4>3. IsOverlay(W, T, P, F)
        BY <4>2, OverlayTables
      <4> HIDE DEF W
      <4> QED
        BY <3>1, <4>3 DEF IsOverlay
    <3>4. step(Db(W), e) = Db(With(W, e, F[e]))
      <4>1. /\ e \in DOMAIN T /\ e \in DOMAIN W /\ W[e] = T[e]
            /\ DOMAIN W[e].cols = DOMAIN m[e].fields
        BY <2>1, <3>3
      <4>2. F[e] = Indexing(W[e], UniqueFields(m[e]))
        BY <2>1, <4>1 DEF IndexedTables
      <4>3. /\ IsFiniteSet(UniqueFields(m[e])) /\ UniqueFields(m[e]) \subseteq DOMAIN m[e].fields
            /\ \A f \in UniqueFields(m[e]) : <<e, f>> \in Columns
        BY <2>1, DeclaredColumns
      <4> HIDE DEF W, F, e
      <4>4. AddIndexes(Db(W), e, UniqueFields(m[e])) = Db(With(W, e, F[e]))
        BY <3>3, <4>1, <4>2, <4>3, IndexesCreated
      <4> QED
        BY <2>1, <4>4
    <3> QED
      BY <3>2, <3>4
  <2>2. CASE e \notin entities
    <3>1. Those(s, entities) = P
      BY <2>2 DEF Those
    <3> QED
      BY <2>2, <3>1
  <2> QED
    BY <2>1, <2>2
<1> HIDE DEF Of, step, d
<1>4. IsFiniteSet(D) /\ \A s \in SUBSET D : s # {} => Max(s) \in s
  BY OrderIsFinite
<1> HIDE DEF D
<1>5. Fits(g)
  BY <1>2, <1>3, <1>4
<1> HIDE DEF g
<1>6. Fits(it)
  BY <1>5
<1> HIDE DEF it
<1>7. it[{}] = g[{}]
  BY <1>2, <1>6 DEF g
<1>8. ASSUME NEW s \in SUBSET D, s # {}
      PROVE  \E x \in s : it[s \ {x}] = g[s \ {x}] => it[s] = g[s]
  <2>1. it[s] = step(it[s \ {Max(s)}], EntityOrder[Max(s)])
    BY <1>6, <1>8
  <2>2. g[s] = step(g[s \ {Max(s)}], EntityOrder[Max(s)])
    BY <1>3, <1>4, <1>8 DEF g
  <2> QED
    BY <1>4, <1>8, <2>1, <2>2
<1>9. it[D] = g[D]
  BY <1>4, <1>7, <1>8, FoldsAgree
<1>10. g[D] = Of(D)
  BY DEF g
<1> QED
  BY <1>1, <1>9, <1>10, AllPlaces DEF Of, d, D

\* The entities a changeset adds.
AddedTables(old, new) == [e \in Added(old, new) |-> TableDDL(new[e])]

\* The entities a changeset adds.
LEMMA EntitiesCreated ==
  ASSUME NamesNeverMeet, NEW old \in Manifests, NEW new \in Manifests,
         NEW T, Tabular(T), DOMAIN T = DOMAIN old
  PROVE  CreateEntities(Db(T), old, new) = Db(Overlay(T, Added(old, new), AddedTables(old, new)))
<1>a. \A e \in Added(old, new) : /\ IsTableOf(AddedTables(old, new)[e], e) /\ e \in Entities
                                 /\ e \in DOMAIN new /\ e \notin DOMAIN T
  BY DeclaredTables, DeclaredColumns DEF AddedTables, Added
<1>b. Added(old, new) \subseteq DOMAIN new
  BY DEF Added
<1> DEFINE D == DOMAIN EntityOrder
           d == Db(T)
           entities == Added(old, new)
           F == AddedTables(old, new)
           Of(s) == Db(Overlay(T, Those(s, entities), F))
           step(acc, e) == IF e \in entities THEN AddIndexes(AddTable(acc, e, new[e]), e, UniqueFields(new[e])) ELSE acc
           g == [s \in SUBSET D |-> Of(s)]
           Fits(h) == h = [s \in SUBSET D |->
                             IF s = {} THEN d ELSE step(h[s \ {Max(s)}], EntityOrder[Max(s)])]
           it == CHOOSE h : Fits(h)
<1>1. CreateEntities(d, old, new) = it[D]
  BY DEF CreateEntities, InOrder, FoldLeft, MapThenFoldSet
<1>2. Of({}) = d
  BY OverlayNone DEF Those
<1>3. ASSUME NEW s \in SUBSET D, NEW x \in s
      PROVE  Of(s) = step(Of(s \ {x}), EntityOrder[x])
  <2> DEFINE e == EntityOrder[x]
             P == Those(s \ {x}, entities)
             W == Overlay(T, P, F)
  <2>1. CASE e \in entities
    <3>1. P \subseteq entities /\ e \notin P /\ Those(s, entities) = P \cup {e}
      BY <2>1, Places DEF Those
    <3>2. Of(s) = Db(With(W, e, F[e]))
      <4>1. With(W, e, F[e]) = Overlay(T, P \cup {e}, F)
        <5> HIDE DEF P, F, e
        <5> QED
          BY <3>1, OverlayOne
      <4> QED
        BY <3>1, <4>1
    <3>3. /\ Tabular(W) /\ DOMAIN W = DOMAIN T \cup P
          /\ e \in DOMAIN T => W[e] = T[e]
      <4>1. P \subseteq Entities /\ \A y \in P : IsTableOf(F[y], y)
        BY <3>1, <1>a
      <4>2. AreTables(F, P)
        BY <4>1 DEF AreTables
      <4> HIDE DEF P, F
      <4>3. IsOverlay(W, T, P, F)
        BY <4>2, OverlayTables
      <4> HIDE DEF W
      <4> QED
        BY <3>1, <4>3 DEF IsOverlay
    <3>4. step(Db(W), e) = Db(With(W, e, F[e]))
      <4>1. e \in DOMAIN new /\ e \notin DOMAIN W
        BY <1>a, <2>1, <3>1, <3>3
      <4>2. F[e] = TableDDL(new[e])
        BY <2>1 DEF AddedTables
      <4> HIDE DEF W, F, e
      <4>3. AddIndexes(AddTable(Db(W), e, new[e]), e, UniqueFields(new[e])) = Db(With(W, e, F[e]))
        <5>1. Tabular(W)
          BY <3>3
        <5>2. AddIndexes(AddTable(Db(W), e, new[e]), e, UniqueFields(new[e])) = Db(With(W, e, TableDDL(new[e])))
          BY <4>1, <5>1, EntityCreated
        <5> QED
          BY <4>2, <5>2
      <4> QED
        BY <2>1, <4>3
    <3> QED
      BY <3>2, <3>4
  <2>2. CASE e \notin entities
    <3>1. Those(s, entities) = P
      BY <2>2 DEF Those
    <3> QED
      BY <2>2, <3>1
  <2> QED
    BY <2>1, <2>2
<1> HIDE DEF Of, step, d
<1>4. IsFiniteSet(D) /\ \A s \in SUBSET D : s # {} => Max(s) \in s
  BY OrderIsFinite
<1> HIDE DEF D
<1>5. Fits(g)
  BY <1>2, <1>3, <1>4
<1> HIDE DEF g
<1>6. Fits(it)
  BY <1>5
<1> HIDE DEF it
<1>7. it[{}] = g[{}]
  BY <1>2, <1>6 DEF g
<1>8. ASSUME NEW s \in SUBSET D, s # {}
      PROVE  \E x \in s : it[s \ {x}] = g[s \ {x}] => it[s] = g[s]
  <2>1. it[s] = step(it[s \ {Max(s)}], EntityOrder[Max(s)])
    BY <1>6, <1>8
  <2>2. g[s] = step(g[s \ {Max(s)}], EntityOrder[Max(s)])
    BY <1>3, <1>4, <1>8 DEF g
  <2> QED
    BY <1>4, <1>8, <2>1, <2>2
<1>9. it[D] = g[D]
  BY <1>4, <1>7, <1>8, FoldsAgree
<1>10. g[D] = Of(D)
  BY DEF g
<1> QED
  BY <1>1, <1>9, <1>10, <1>b, AllPlaces DEF Of, d, D

\* The entities that stay.  One that is refused fails them all.
MigratedTables(T, old, new) == [e \in Kept(old, new) |-> MigratedTable(e, T[e], old, new)]

SomeRefused(T, old, new, entities) ==
  \E e \in entities : EntityRefused(T[e], old[e], new[e], e)

\* The entities that stay: all of them, or none when one is refused.
LEMMA EntitiesMigrated ==
  ASSUME NamesNeverMeet, NEW old \in Manifests, NEW new \in Manifests, NEW T, Tabular(T),
         \A e \in Kept(old, new) : e \in DOMAIN T /\ AtShape(T[e], old[e])
  PROVE  MigrateEntities(Db(T), old, new) =
           IF SomeRefused(T, old, new, Kept(old, new)) THEN Failed
           ELSE Db(Overlay(T, Kept(old, new), MigratedTables(T, old, new)))
<1>a. \A e \in Kept(old, new) : e \in Entities
  BY DeclaredColumns DEF Kept
<1>b. Kept(old, new) \subseteq DOMAIN new
  BY DEF Kept
<1>c. ASSUME NEW e \in Kept(old, new), ~EntityRefused(T[e], old[e], new[e], e)
      PROVE  IsTableOf(MigratedTables(T, old, new)[e], e)
  <2>1. IsTableOf(T[e], e)
    BY DEF Tabular, IsTableOf
  <2>2. IsTableOf(MigratedTable(e, T[e], old, new), e)
    BY <1>c, <2>1, MigratedTableFits
  <2> QED
    BY <2>2 DEF MigratedTables
<1> DEFINE D == DOMAIN EntityOrder
           d == Db(T)
           entities == Kept(old, new)
           F == MigratedTables(T, old, new)
           Refused(s) == SomeRefused(T, old, new, Those(s, entities))
           Of(s) == IF Refused(s) THEN Failed ELSE Db(Overlay(T, Those(s, entities), F))
           step(acc, e) == IF e \in entities THEN MigrateEntity(acc, e, old[e], new[e]) ELSE acc
           g == [s \in SUBSET D |-> Of(s)]
           Fits(h) == h = [s \in SUBSET D |->
                             IF s = {} THEN d ELSE step(h[s \ {Max(s)}], EntityOrder[Max(s)])]
           it == CHOOSE h : Fits(h)
<1>1. MigrateEntities(d, old, new) = it[D]
  BY DEF MigrateEntities, InOrder, FoldLeft, MapThenFoldSet
<1>2. Of({}) = d
  <2>1. Those({}, entities) = {}
    BY DEF Those
  <2>2. ~Refused({})
    BY <2>1 DEF SomeRefused
  <2> QED
    BY <2>1, <2>2, OverlayNone
<1>3. ASSUME NEW s \in SUBSET D, NEW x \in s
      PROVE  Of(s) = step(Of(s \ {x}), EntityOrder[x])
  <2> DEFINE e == EntityOrder[x]
             P == Those(s \ {x}, entities)
             W == Overlay(T, P, F)
  <2>1. CASE e \in entities
    <3>1. P \subseteq entities /\ e \notin P /\ Those(s, entities) = P \cup {e}
      BY <2>1, Places DEF Those
    <3>2. Refused(s) <=> Refused(s \ {x}) \/ EntityRefused(T[e], old[e], new[e], e)
      BY <3>1 DEF SomeRefused
    <3>3. CASE Refused(s \ {x})
      <4>1. Of(s \ {x}) = Failed /\ Of(s) = Failed
        BY <3>2, <3>3
      <4>2. MigrateEntity(Failed, e, old[e], new[e]) = Failed
        BY DEF MigrateEntity, Failed
      <4> QED
        BY <2>1, <4>1, <4>2
    <3>4. CASE ~Refused(s \ {x})
      <4>1. P \subseteq Entities /\ \A y \in P : IsTableOf(F[y], y)
        BY <1>a, <1>c, <3>1, <3>4 DEF SomeRefused
      <4>2. /\ Tabular(W) /\ DOMAIN W = DOMAIN T \cup P
            /\ \A y \in DOMAIN T \ P : W[y] = T[y]
        <5>1. AreTables(F, P)
          BY <4>1 DEF AreTables
        <5> HIDE DEF P, F
        <5>2. IsOverlay(W, T, P, F)
          BY <5>1, OverlayTables
        <5> HIDE DEF W
        <5> QED
          BY <5>2 DEF IsOverlay
      <4>3. e \in DOMAIN W /\ W[e] = T[e] /\ AtShape(W[e], old[e])
        BY <2>1, <3>1, <4>2
      <4>4. With(W, e, F[e]) = Overlay(T, P \cup {e}, F)
        <5> HIDE DEF P, F, e
        <5> QED
          BY <3>1, OverlayOne
      <4>5. F[e] = MigratedTable(e, W[e], old, new)
        BY <2>1, <4>3 DEF MigratedTables
      <4>6. MigrateEntity(Db(W), e, old[e], new[e]) =
              IF EntityRefused(T[e], old[e], new[e], e) THEN Failed ELSE Db(With(W, e, F[e]))
        <5> HIDE DEF W, F, e
        <5>1. MigrateEntity(Db(W), e, old[e], new[e]) =
                IF EntityRefused(W[e], old[e], new[e], e) THEN Failed
                ELSE Db(With(W, e, MigratedTable(e, W[e], old, new)))
          BY <2>1, <4>2, <4>3, EntityMigrated
        <5> QED
          BY <4>3, <4>5, <5>1
      <4>7. Of(s \ {x}) = Db(W)
        BY <3>4
      <4>8. Of(s) = IF EntityRefused(T[e], old[e], new[e], e) THEN Failed
                    ELSE Db(Overlay(T, P \cup {e}, F))
        <5> HIDE DEF P, F, e
        <5> QED
          BY <3>1, <3>2, <3>4
      <4> QED
        BY <2>1, <4>4, <4>6, <4>7, <4>8
    <3> QED
      BY <3>3, <3>4
  <2>2. CASE e \notin entities
    <3>1. Those(s, entities) = P
      BY <2>2 DEF Those
    <3> QED
      BY <2>2, <3>1
  <2> QED
    BY <2>1, <2>2
<1> HIDE DEF Of, step, d
<1>4. IsFiniteSet(D) /\ \A s \in SUBSET D : s # {} => Max(s) \in s
  BY OrderIsFinite
<1> HIDE DEF D
<1>5. Fits(g)
  BY <1>2, <1>3, <1>4
<1> HIDE DEF g
<1>6. Fits(it)
  BY <1>5
<1> HIDE DEF it
<1>7. it[{}] = g[{}]
  BY <1>2, <1>6 DEF g
<1>8. ASSUME NEW s \in SUBSET D, s # {}
      PROVE  \E x \in s : it[s \ {x}] = g[s \ {x}] => it[s] = g[s]
  <2>1. it[s] = step(it[s \ {Max(s)}], EntityOrder[Max(s)])
    BY <1>6, <1>8
  <2>2. g[s] = step(g[s \ {Max(s)}], EntityOrder[Max(s)])
    BY <1>3, <1>4, <1>8 DEF g
  <2> QED
    BY <1>4, <1>8, <2>1, <2>2
<1>9. it[D] = g[D]
  BY <1>4, <1>7, <1>8, FoldsAgree
<1>10. g[D] = Of(D)
  BY DEF g
<1> QED
  BY <1>1, <1>9, <1>10, <1>b, AllPlaces DEF Of, d, D

\* The entities a changeset drops.
LEMMA EntitiesDropped ==
  ASSUME NamesNeverMeet, NEW old \in Manifests, NEW new \in Manifests,
         NEW T, Tabular(T), Dropped(old, new) \subseteq DOMAIN T
  PROVE  DropEntities(Db(T), old, new) = Db(Without(T, Dropped(old, new)))
<1>b. Dropped(old, new) \subseteq DOMAIN old
  BY DEF Dropped
<1> DEFINE D == DOMAIN EntityOrder
           d == Db(T)
           entities == Dropped(old, new)
           Of(s) == Db(Without(T, Those(s, entities)))
           step(acc, e) == IF e \in entities THEN DropTable(acc, e) ELSE acc
           g == [s \in SUBSET D |-> Of(s)]
           Fits(h) == h = [s \in SUBSET D |->
                             IF s = {} THEN d ELSE step(h[s \ {Max(s)}], EntityOrder[Max(s)])]
           it == CHOOSE h : Fits(h)
<1>1. DropEntities(d, old, new) = it[D]
  BY DEF DropEntities, InOrder, FoldLeft, MapThenFoldSet
<1>2. Of({}) = d
  <2>1. Without(T, {}) = T
    BY DEF Without, Tabular
  <2> QED
    BY <2>1 DEF Those
<1>3. ASSUME NEW s \in SUBSET D, NEW x \in s
      PROVE  Of(s) = step(Of(s \ {x}), EntityOrder[x])
  <2> DEFINE e == EntityOrder[x]
             P == Those(s \ {x}, entities)
             W == Without(T, P)
  <2>1. CASE e \in entities
    <3>1. P \subseteq entities /\ e \notin P /\ Those(s, entities) = P \cup {e}
      BY <2>1, Places DEF Those
    <3>2. Tabular(W) /\ DOMAIN W = DOMAIN T \ P
      <4> HIDE DEF P
      <4> QED
        BY WithoutTable
    <3>3. Without(W, {e}) = Without(T, P \cup {e})
      BY DEF Without
    <3>4. DropTable(Db(W), e) = Db(Without(W, {e}))
      <4>1. e \in DOMAIN W
        BY <2>1, <3>1, <3>2
      <4> HIDE DEF W, e
      <4> QED
        BY <3>2, <4>1, TableGone
    <3> QED
      BY <2>1, <3>1, <3>3, <3>4
  <2>2. CASE e \notin entities
    <3>1. Those(s, entities) = P
      BY <2>2 DEF Those
    <3> QED
      BY <2>2, <3>1
  <2> QED
    BY <2>1, <2>2
<1> HIDE DEF Of, step, d
<1>4. IsFiniteSet(D) /\ \A s \in SUBSET D : s # {} => Max(s) \in s
  BY OrderIsFinite
<1> HIDE DEF D
<1>5. Fits(g)
  BY <1>2, <1>3, <1>4
<1> HIDE DEF g
<1>6. Fits(it)
  BY <1>5
<1> HIDE DEF it
<1>7. it[{}] = g[{}]
  BY <1>2, <1>6 DEF g
<1>8. ASSUME NEW s \in SUBSET D, s # {}
      PROVE  \E x \in s : it[s \ {x}] = g[s \ {x}] => it[s] = g[s]
  <2>1. it[s] = step(it[s \ {Max(s)}], EntityOrder[Max(s)])
    BY <1>6, <1>8
  <2>2. g[s] = step(g[s \ {Max(s)}], EntityOrder[Max(s)])
    BY <1>3, <1>4, <1>8 DEF g
  <2> QED
    BY <1>4, <1>8, <2>1, <2>2
<1>9. it[D] = g[D]
  BY <1>4, <1>7, <1>8, FoldsAgree
<1>10. g[D] = Of(D)
  BY DEF g
<1> QED
  BY <1>1, <1>9, <1>10, <1>b, AllPlaces DEF Of, d, D

\* A transaction that failed stays so.
LEMMA FailedStays ==
  ASSUME NEW old, NEW new
  PROVE  DropEntities(Failed, old, new) = Failed
<1> DEFINE D == DOMAIN EntityOrder
           d == Failed
           entities == Dropped(old, new)
           Of(s) == Failed
           step(acc, e) == IF e \in entities THEN DropTable(acc, e) ELSE acc
           g == [s \in SUBSET D |-> Of(s)]
           Fits(h) == h = [s \in SUBSET D |->
                             IF s = {} THEN d ELSE step(h[s \ {Max(s)}], EntityOrder[Max(s)])]
           it == CHOOSE h : Fits(h)
<1>1. DropEntities(d, old, new) = it[D]
  BY DEF DropEntities, InOrder, FoldLeft, MapThenFoldSet
<1>2. Of({}) = d
  OBVIOUS
<1>3. ASSUME NEW s \in SUBSET D, NEW x \in s
      PROVE  Of(s) = step(Of(s \ {x}), EntityOrder[x])
  BY DEF DropTable, Failed
<1> HIDE DEF Of, step, d
<1>4. IsFiniteSet(D) /\ \A s \in SUBSET D : s # {} => Max(s) \in s
  BY OrderIsFinite
<1> HIDE DEF D
<1>5. Fits(g)
  BY <1>2, <1>3, <1>4
<1> HIDE DEF g
<1>6. Fits(it)
  BY <1>5
<1> HIDE DEF it
<1>7. it[{}] = g[{}]
  BY <1>2, <1>6 DEF g
<1>8. ASSUME NEW s \in SUBSET D, s # {}
      PROVE  \E x \in s : it[s \ {x}] = g[s \ {x}] => it[s] = g[s]
  <2>1. it[s] = step(it[s \ {Max(s)}], EntityOrder[Max(s)])
    BY <1>6, <1>8
  <2>2. g[s] = step(g[s \ {Max(s)}], EntityOrder[Max(s)])
    BY <1>3, <1>4, <1>8 DEF g
  <2> QED
    BY <1>4, <1>8, <2>1, <2>2
<1>9. it[D] = g[D]
  BY <1>4, <1>7, <1>8, FoldsAgree
<1>10. g[D] = Of(D)
  BY DEF g
<1> QED
  BY <1>1, <1>9, <1>10 DEF Of, d, D

-----------------------------------------------------------------------------
(***************************************************************************)
(* A boot, and a changeset.                                                *)
(***************************************************************************)
Shape(T, m) == DOMAIN T = DOMAIN m /\ \A e \in DOMAIN m : AtShape(T[e], m[e])

Declared(m) == [e \in DOMAIN m |-> TableDDL(m[e])]

\* What a manifest declares has its shape.
LEMMA DeclaredShape ==
  ASSUME NEW m \in Manifests
  PROVE  Tabular(Declared(m)) /\ Shape(Declared(m), m)
<1>1. ASSUME NEW e \in DOMAIN m
      PROVE  IsTableOf(TableDDL(m[e]), e) /\ AtShape(TableDDL(m[e]), m[e]) /\ e \in Entities
  <2> DEFINE c == CreateTable(m[e]).cols
             u == UniqueFields(m[e])
  <2>1. TableDDL(m[e]) = [cols |-> c, unique |-> u] /\ DOMAIN c = DOMAIN m[e].fields
    BY NewTable
  <2> HIDE DEF c, u
  <2>2. AtShape(TableDDL(m[e]), m[e])
    BY <2>1 DEF AtShape, u
  <2> QED
    BY <2>2, DeclaredTables, DeclaredColumns
<1>2. Declared(m) = [e \in DOMAIN Declared(m) |-> Declared(m)[e]] /\ DOMAIN Declared(m) = DOMAIN m
  BY DEF Declared
<1>3. \A e \in DOMAIN m : Declared(m)[e] = TableDDL(m[e])
  BY DEF Declared
<1> QED
  BY <1>1, <1>2, <1>3 DEF Tabular, Shape, IsTableOf

\* The first boot creates what the manifest declares.
LEMMA FirstBoot ==
  ASSUME NamesNeverMeet, NEW m \in Manifests
  PROVE  Materialize(EmptyDatabase, m) = Db(Declared(m))
<1> DEFINE T == Overlay(None, DOMAIN m, BareTables(None, m))
<1>1. DOMAIN None = {} /\ None = [e \in DOMAIN None |-> None[e]]
  BY DEF None
<1>2. Tabular(None)
  BY <1>1 DEF Tabular
<1>3. EmptyDatabase = Db(None)
  <2>1. ColumnsIn(None) = None
    BY DEF ColumnsIn, None
  <2>2. Keys(None) = {}
    BY <1>1 DEF Keys
  <2>3. IndexesOf({}) = None
    BY DEF IndexesOf, None
  <2> QED
    BY <2>1, <2>2, <2>3 DEF Db, Database, EmptyDatabase
<1>4. CreateTables(EmptyDatabase, m) = Db(T)
  BY <1>2, <1>3, TablesCreated
<1>5. Tabular(T) /\ DOMAIN T = DOMAIN m /\ \A e \in DOMAIN m : T[e] = CreateTable(m[e])
  <2> DEFINE entities == DOMAIN m
             F == BareTables(None, m)
  <2>1. AreTables(F, entities)
    BY <1>2, BareTablesAre DEF AreTables
  <2>2. \A e \in entities : F[e] = CreateTable(m[e])
    BY <1>1 DEF BareTables
  <2> HIDE DEF entities, F, T
  <2>3. IsOverlay(Overlay(None, entities, F), None, entities, F)
    BY <1>2, <2>1, OverlayTables
  <2> QED
    BY <1>1, <2>2, <2>3 DEF IsOverlay, entities, F, T
<1>6. \A e \in DOMAIN m : DOMAIN T[e].cols = DOMAIN m[e].fields
  BY <1>5, NewTable
<1> HIDE DEF T
<1>7. CreateIndexes(Db(T), m) = Db(Overlay(T, DOMAIN m, IndexedTables(T, m)))
  BY <1>5, <1>6, AllIndexesCreated
<1>8. Overlay(T, DOMAIN m, IndexedTables(T, m)) = Declared(m)
  <2>1. ASSUME NEW e \in DOMAIN m
        PROVE  IndexedTables(T, m)[e] = TableDDL(m[e])
    <3> DEFINE c == CreateTable(m[e])
               u == UniqueFields(m[e])
    <3>1. c = [cols |-> c.cols, unique |-> {}] /\ TableDDL(m[e]) = [cols |-> c.cols, unique |-> u]
      BY NewTable
    <3>2. IndexedTables(T, m)[e] = Indexing(c, u)
      BY <1>5 DEF IndexedTables
    <3> HIDE DEF c, u
    <3>3. c.unique = {}
      BY <3>1
    <3>4. Indexing(c, u) = TableDDL(m[e])
      BY <3>1, <3>3 DEF Indexing
    <3> QED
      BY <3>2, <3>4
  <2> QED
    BY <1>5, <2>1 DEF Overlay, Declared
<1> QED
  BY <1>4, <1>7, <1>8 DEF Materialize

\* A later one finds nothing to do.
LEMMA LaterBoot ==
  ASSUME NamesNeverMeet, NEW m \in Manifests, NEW T, Tabular(T), Shape(T, m)
  PROVE  Materialize(Db(T), m) = Db(T)
<1>1. CreateTables(Db(T), m) = Db(T)
  <2>1. Overlay(T, DOMAIN m, BareTables(T, m)) = T
    BY DEF Overlay, BareTables, Shape, Tabular
  <2> QED
    BY <2>1, TablesCreated
<1>2. CreateIndexes(Db(T), m) = Db(T)
  <2>1. Overlay(T, DOMAIN m, IndexedTables(T, m)) = T
    <3>1. ASSUME NEW e \in DOMAIN m
          PROVE  IndexedTables(T, m)[e] = T[e]
      <4>1. T[e] = [cols |-> T[e].cols, unique |-> T[e].unique] /\ T[e].unique = UniqueFields(m[e])
        BY DEF Tabular, Shape, AtShape
      <4>2. T[e].unique \cup UniqueFields(m[e]) = T[e].unique
        BY <4>1
      <4>3. Indexing(T[e], UniqueFields(m[e])) = T[e]
        BY <4>1, <4>2 DEF Indexing
      <4> QED
        BY <4>3 DEF IndexedTables
    <3> QED
      BY <3>1 DEF Overlay, Shape, Tabular
  <2>2. \A e \in DOMAIN m : DOMAIN T[e].cols = DOMAIN m[e].fields
    BY DEF Shape, AtShape
  <2>3. DOMAIN m \subseteq DOMAIN T
    BY DEF Shape
  <2> QED
    BY <2>1, <2>2, <2>3, AllIndexesCreated
<1> QED
  BY <1>1, <1>2 DEF Materialize

\* At the shape of the old manifest, a changeset is refused for an entity that stays.
LEMMA RefusedForKept ==
  ASSUME NEW old, NEW new, NEW T, Shape(T, old)
  PROVE  ChangesetRefused(T, old, new) <=> SomeRefused(T, old, new, Kept(old, new))
<1>1. Added(old, new) \cap DOMAIN T = {} /\ Dropped(old, new) \subseteq DOMAIN T
  BY DEF Shape, Added, Dropped
<1>2. \A e \in Kept(old, new) :
        e \in DOMAIN T /\ KeptFields(old[e], new[e]) \subseteq DOMAIN T[e].cols
  BY DEF Shape, AtShape, Kept, KeptFields
<1> QED
  BY <1>1, <1>2 DEF ChangesetRefused, SomeRefused, EntityRefused

\* The executor, by name and by set.
LEMMA Executed ==
  ASSUME NamesNeverMeet, NEW old \in Manifests, NEW new \in Manifests,
         NEW T, Tabular(T), Shape(T, old)
  PROVE  /\ Execute(Db(T), old, new) =
              IF ChangesetRefused(T, old, new) THEN Failed ELSE Db(ApplyChangeset(T, old, new))
         /\ ~ChangesetRefused(T, old, new) =>
              Tabular(ApplyChangeset(T, old, new)) /\ Shape(ApplyChangeset(T, old, new), new)
<1> DEFINE added == Added(old, new)
           kept == Kept(old, new)
           dropped == Dropped(old, new)
           T1 == Overlay(T, added, AddedTables(old, new))
           T2 == Overlay(T1, kept, MigratedTables(T1, old, new))
           T3 == Without(T2, dropped)
<1>1. CreateEntities(Db(T), old, new) = Db(T1)
  BY EntitiesCreated DEF Shape
<1>2. \A e \in added : /\ IsTableOf(TableDDL(new[e]), e) /\ e \in Entities
                       /\ AddedTables(old, new)[e] = TableDDL(new[e])
                       /\ e \in DOMAIN new /\ e \notin DOMAIN T
  BY DeclaredTables, DeclaredColumns DEF AddedTables, Added, Shape
<1>3. \A e \in kept : e \in DOMAIN T /\ e \notin added /\ AtShape(T[e], old[e]) /\ e \in Entities
  BY DEF Kept, Added, Shape, Tabular
<1>4. /\ Tabular(T1) /\ DOMAIN T1 = DOMAIN T \cup added
      /\ \A e \in added : T1[e] = TableDDL(new[e])
      /\ \A e \in DOMAIN T \ added : T1[e] = T[e]
  <2> DEFINE F == AddedTables(old, new)
  <2>1. AreTables(F, added)
    BY <1>2 DEF AreTables
  <2>2. \A e \in added : F[e] = TableDDL(new[e])
    BY <1>2
  <2> HIDE DEF added, F
  <2>3. IsOverlay(Overlay(T, added, F), T, added, F)
    BY <2>1, OverlayTables
  <2> QED
    BY <2>2, <2>3 DEF IsOverlay, F
<1>5. DOMAIN T = DOMAIN old
  BY DEF Shape
<1> HIDE DEF T1
<1>6. \A e \in kept : e \in DOMAIN T1 /\ T1[e] = T[e] /\ AtShape(T1[e], old[e])
  BY <1>3, <1>4
<1>7. SomeRefused(T1, old, new, kept) <=> ChangesetRefused(T, old, new)
  BY <1>6, RefusedForKept DEF SomeRefused
<1>8. MigrateEntities(Db(T1), old, new) = IF ChangesetRefused(T, old, new) THEN Failed ELSE Db(T2)
  BY <1>4, <1>6, <1>7, EntitiesMigrated
<1>9. CASE ChangesetRefused(T, old, new)
  BY <1>1, <1>8, <1>9, FailedStays DEF Execute
<1>10. CASE ~ChangesetRefused(T, old, new)
  <2>1. \A e \in kept : /\ MigratedTables(T1, old, new)[e] = MigratedTable(e, T[e], old, new)
                        /\ IsTableOf(MigratedTable(e, T[e], old, new), e)
                        /\ AtShape(MigratedTable(e, T[e], old, new), new[e])
    <3>1. ASSUME NEW e \in kept
          PROVE  /\ MigratedTables(T1, old, new)[e] = MigratedTable(e, T[e], old, new)
                 /\ IsTableOf(MigratedTable(e, T[e], old, new), e)
                 /\ AtShape(MigratedTable(e, T[e], old, new), new[e])
      <4>1. ~EntityRefused(T[e], old[e], new[e], e)
        BY <1>6, <1>7, <1>10 DEF SomeRefused
      <4>2. IsTableOf(T[e], e) /\ AtShape(T[e], old[e])
        BY <1>3 DEF Tabular, IsTableOf
      <4>3. MigratedTables(T1, old, new)[e] = MigratedTable(e, T[e], old, new)
        BY <1>6 DEF MigratedTables
      <4> QED
        BY <4>1, <4>2, <4>3, MigratedTableFits
    <3> QED
      BY <3>1
  <2>2. /\ Tabular(T2) /\ DOMAIN T2 = DOMAIN T1 \cup kept
        /\ \A e \in kept : T2[e] = MigratedTable(e, T[e], old, new)
        /\ \A e \in DOMAIN T1 \ kept : T2[e] = T1[e]
    <3> DEFINE F == MigratedTables(T1, old, new)
    <3>1. AreTables(F, kept)
      BY <1>3, <2>1 DEF AreTables
    <3>2. \A e \in kept : F[e] = MigratedTable(e, T[e], old, new)
      BY <2>1
    <3>3. Tabular(T1)
      BY <1>4
    <3> HIDE DEF kept, F
    <3>4. IsOverlay(Overlay(T1, kept, F), T1, kept, F)
      BY <3>1, <3>3, OverlayTables
    <3> QED
      BY <3>2, <3>4 DEF IsOverlay, F
  <2> HIDE DEF T2
  <2>3. dropped \subseteq DOMAIN T2
    BY <1>4, <1>5, <2>2 DEF Dropped
  <2>4. DropEntities(Db(T2), old, new) = Db(T3)
    BY <2>2, <2>3, EntitiesDropped
  <2>5. Tabular(T3) /\ DOMAIN T3 = DOMAIN T2 \ dropped /\ \A e \in DOMAIN T3 : T3[e] = T2[e]
    <3>1. /\ Tabular(T3) /\ DOMAIN T3 = DOMAIN T2 \ dropped
          /\ \A e \in DOMAIN T2 \ dropped : T3[e] = T2[e]
      BY <2>2, WithoutTable
    <3> QED
      BY <3>1
  <2> HIDE DEF T3
  <2>6. DOMAIN T3 = DOMAIN new
    BY <1>4, <1>5, <2>2, <2>5 DEF Added, Kept, Dropped
  <2>7. \A e \in DOMAIN new : T3[e] = IF e \in added THEN TableDDL(new[e])
                                      ELSE MigratedTable(e, T[e], old, new)
    BY <1>3, <1>4, <1>5, <2>2, <2>5, <2>6 DEF Added, Kept, Dropped
  <2>8. T3 = ApplyChangeset(T, old, new)
    <3> DEFINE A == ApplyChangeset(T, old, new)
    <3>1. A = [e \in DOMAIN A |-> A[e]] /\ DOMAIN A = (DOMAIN T \cup added) \ dropped
      BY DEF ApplyChangeset
    <3>2. DOMAIN A = DOMAIN new
      BY <1>5, <3>1 DEF Added, Dropped
    <3>3. ASSUME NEW e \in DOMAIN new
          PROVE  A[e] = T3[e]
      <4>1. A[e] = CASE e \in Added(old, new) -> CreateEntity(e, T, new[e])
                     [] e \in Kept(old, new) -> MigratedTable(e, T[e], old, new)
                     [] OTHER -> T[e]
        BY <3>1, <3>2 DEF ApplyChangeset
      <4>2. CASE e \in added
        <5>1. e \notin Kept(old, new) /\ CreateEntity(e, T, new[e]) = TableDDL(new[e])
          BY <1>2, <4>2 DEF Added, Kept, CreateEntity
        <5> QED
          BY <2>7, <4>1, <4>2, <5>1
      <4>3. CASE e \notin added
        <5>1. e \in Kept(old, new)
          BY <4>3 DEF Added, Kept
        <5> QED
          BY <2>7, <4>1, <4>3, <5>1
      <4> QED
        BY <4>2, <4>3
    <3>4. T3 = [e \in DOMAIN T3 |-> T3[e]]
      BY <2>5 DEF Tabular
    <3> HIDE DEF A
    <3> QED
      BY <2>6, <3>1, <3>2, <3>3, <3>4 DEF A
  <2>9. Shape(T3, new)
    <3>1. \A e \in added : AtShape(TableDDL(new[e]), new[e])
      <4>1. \A e \in DOMAIN new : AtShape(TableDDL(new[e]), new[e])
        BY DeclaredShape DEF Shape, Declared
      <4> QED
        BY <1>2, <4>1
    <3>2. \A e \in DOMAIN new : e \in added \/ e \in kept
      BY DEF Added, Kept
    <3> QED
      BY <2>1, <2>6, <2>7, <3>1, <3>2 DEF Shape
  <2> QED
    BY <1>1, <1>8, <1>10, <2>4, <2>5, <2>8, <2>9 DEF Execute
<1> QED
  BY <1>9, <1>10

-----------------------------------------------------------------------------
(***************************************************************************)
(* The inductive invariant, and what it says of every boot and changeset.  *)
(***************************************************************************)
Settled(d, m) ==
  LET T == TablesIn(d)
  IN Tabular(T) /\ d = Db(T) /\ Shape(T, m)

IndexInv == manifest \in Manifests /\ Settled(db, manifest)

\* A database made of tables at a shape is settled there.
LEMMA SettledAt ==
  ASSUME NamesNeverMeet, NEW m, NEW T, Tabular(T), Shape(T, m)
  PROVE  Settled(Db(T), m)
BY TablesAre DEF Settled

\* Renames alone leave the shape of an app as it is.
LEMMA RenamesKeepShape ==
  ASSUME NEW old, NEW new, AllNoSQL(old, new), NEW T, Shape(T, old)
  PROVE  Shape(T, new)
<1>1. Added(old, new) = {} /\ Dropped(old, new) = {}
  <2>1. \A op \in Diff(old, new) : op.kind # "add_entity" /\ op.kind # "drop_entity"
    BY DEF AllNoSQL
  <2>2. ASSUME NEW e \in Added(old, new) PROVE FALSE
    <3>1. Operation("add_entity", e, "") \in Diff(old, new)
      BY EntityOperations
    <3>2. Operation("add_entity", e, "").kind # "add_entity"
      BY <2>1, <3>1
    <3> QED
      BY <3>2 DEF Operation
  <2>3. ASSUME NEW e \in Dropped(old, new) PROVE FALSE
    <3>1. Operation("drop_entity", e, "") \in Diff(old, new)
      BY EntityOperations
    <3>2. Operation("drop_entity", e, "").kind # "drop_entity"
      BY <2>1, <3>1
    <3> QED
      BY <3>2 DEF Operation
  <2> QED
    BY <2>2, <2>3
<1>2. DOMAIN old = DOMAIN new /\ Kept(old, new) = DOMAIN old
  BY <1>1 DEF Added, Dropped, Kept
<1>3. ASSUME NEW e \in DOMAIN new
      PROVE  DOMAIN old[e].fields = DOMAIN new[e].fields /\ UniqueFields(old[e]) = UniqueFields(new[e])
  <2> DEFINE oe == old[e]
             ne == new[e]
  <2>1. \A op \in DiffEntity(e, oe, ne) : op.kind \in {"rename_entity", "rename_field"}
    BY <1>2, KeptOperations DEF AllNoSQL
  <2> HIDE DEF oe, ne
  <2>2. AddedFields(oe, ne) = {} /\ DroppedFields(oe, ne) = {}
    BY <2>1, FieldOperations, OperationKind
  <2>3. DOMAIN oe.fields = DOMAIN ne.fields /\ KeptFields(oe, ne) = DOMAIN oe.fields
    BY <2>2 DEF AddedFields, DroppedFields, KeptFields
  <2>4. ASSUME NEW f \in DOMAIN oe.fields
        PROVE  oe.fields[f].unique = ne.fields[f].unique
    <3>1. Operation("change_unique", e, f) \notin DiffEntity(e, oe, ne)
      BY <2>1, OperationKind
    <3>2. "change_unique" \notin FieldChanges(oe.fields[f], ne.fields[f])
      BY <2>3, <3>1, FieldOperations
    <3> QED
      BY <3>2 DEF FieldChanges, FieldOpKinds
  <2>5. UniqueFields(oe) = UniqueFields(ne)
    BY <2>3, <2>4 DEF UniqueFields
  <2> QED
    BY <2>3, <2>5 DEF oe, ne
<1> QED
  BY <1>2, <1>3 DEF Shape, AtShape

\* The first boot.
LEMMA InitSettles ==
  ASSUME NamesNeverMeet, Init
  PROVE  IndexInv /\ Tables = Declared(manifest)
<1>1. manifest \in Manifests /\ db = Db(Declared(manifest))
  BY FirstBoot DEF Init
<1>2. Tabular(Declared(manifest)) /\ Shape(Declared(manifest), manifest)
  BY <1>1, DeclaredShape
<1>3. Settled(db, manifest)
  BY <1>1, <1>2, SettledAt
<1>4. TablesIn(db) = Declared(manifest)
  BY <1>1, <1>2, TablesAre
<1> QED
  BY <1>1, <1>3, <1>4 DEF IndexInv, Tables, TablesIn

\* A boot of an app that has booted changes nothing.
LEMMA LoadSettles ==
  ASSUME NamesNeverMeet, NEW m \in Manifests, NEW d, Settled(d, m)
  PROVE  Materialize(d, m) = d
<1> DEFINE T == TablesIn(d)
<1>1. Tabular(T) /\ d = Db(T) /\ Shape(T, m)
  BY DEF Settled
<1> HIDE DEF T
<1> QED
  BY <1>1, LaterBoot

\* A migration.
LEMMA ExecuteSettles ==
  ASSUME NamesNeverMeet, NEW old \in Manifests, NEW new \in Manifests, NEW d, Settled(d, old)
  PROVE  /\ Execute(d, old, new).ok => ~ChangesetRefused(TablesIn(d), old, new)
         /\ ~Execute(d, old, new).ok => ChangesetRefused(TablesIn(d), old, new)
         /\ ~ChangesetRefused(TablesIn(d), old, new) =>
              /\ Settled(Execute(d, old, new), new)
              /\ TablesIn(Execute(d, old, new)) = ApplyChangeset(TablesIn(d), old, new)
<1> DEFINE T == TablesIn(d)
           A == ApplyChangeset(T, old, new)
<1>1. Tabular(T) /\ d = Db(T) /\ Shape(T, old)
  BY DEF Settled
<1> HIDE DEF T
<1>2. /\ Execute(Db(T), old, new) = IF ChangesetRefused(T, old, new) THEN Failed ELSE Db(A)
      /\ ~ChangesetRefused(T, old, new) => Tabular(A) /\ Shape(A, new)
  BY <1>1, Executed
<1> HIDE DEF A
<1>3. ~Failed.ok
  BY DEF Failed
<1>4. Db(A).ok
  BY DbIs
<1>5. ~ChangesetRefused(T, old, new) => Settled(Db(A), new) /\ TablesIn(Db(A)) = A
  BY <1>2, SettledAt, TablesAre
<1> QED
  BY <1>1, <1>2, <1>3, <1>4, <1>5 DEF T, A

-----------------------------------------------------------------------------
(***************************************************************************)
(* Evolution's operators are instances of those extended here.             *)
(***************************************************************************)
\* One Diff.
LEMMA SameDifference ==
  ASSUME NEW old, NEW new
  PROVE  /\ BySet!IsEmpty(old, new) = IsEmpty(old, new)
         /\ BySet!AllNoSQL(old, new) = AllNoSQL(old, new)
<1>1. BySet!Diff(old, new) = Diff(old, new)
  BY DEF Diff, BySet!Diff, Added, BySet!Added, Dropped, BySet!Dropped, Kept, BySet!Kept,
       Operation, BySet!Operation, DiffEntity, BySet!DiffEntity, FieldChanges,
       BySet!FieldChanges, FieldOpKinds, BySet!FieldOpKinds, AddedFields, BySet!AddedFields,
       DroppedFields, BySet!DroppedFields, KeptFields, BySet!KeptFields
<1> QED
  BY <1>1 DEF BySet!IsEmpty, IsEmpty, BySet!AllNoSQL, AllNoSQL

\* One fingerprint.
LEMMA SameFingerprint ==
  ASSUME NEW m
  PROVE  BySet!Fingerprint(m) = Fingerprint(m)
<1>1. \A values : BySet!JoinedByCommas(values) = JoinedByCommas(values)
  BY DEF JoinedByCommas, BySet!JoinedByCommas, Precedes, BySet!Precedes, FlattenSeq,
       BySet!FlattenSeq, SetToSortSeq, BySet!SetToSortSeq, SetToSeq, BySet!SetToSeq,
       IsInjective, BySet!IsInjective, Cardinality, BySet!Cardinality
<1> QED
  BY <1>1 DEF BySet!Fingerprint, Fingerprint, BySet!FieldDigest, FieldDigest

\* One CREATE TABLE.
LEMMA SameTable ==
  ASSUME NEW ent
  PROVE  BySet!TableDDL(ent) = TableDDL(ent)
BY DEF TableDDL, BySet!TableDDL, UniqueFields, BySet!UniqueFields, CreateTable,
       BySet!CreateTable, ColumnDef, BySet!ColumnDef, Affinity, BySet!Affinity, Checks,
       BySet!Checks, Integer, BySet!Integer

\* One refusal.
LEMMA SameRefusal ==
  ASSUME NEW T, NEW old, NEW new
  PROVE  BySet!ChangesetRefused(T, old, new) = ChangesetRefused(T, old, new)
BY DEF ChangesetRefused, BySet!ChangesetRefused, NativeRefused, BySet!NativeRefused,
       UniqueFields, BySet!UniqueFields, DiffEntity, BySet!DiffEntity, Operation,
       BySet!Operation, FieldChanges, BySet!FieldChanges, FieldOpKinds, BySet!FieldOpKinds,
       AddedFields, BySet!AddedFields, DroppedFields, BySet!DroppedFields, KeptFields,
       BySet!KeptFields, Added, BySet!Added, Dropped, BySet!Dropped, Kept, BySet!Kept,
       NeedsRebuild, BySet!NeedsRebuild, RebuildKinds, BySet!RebuildKinds, NeedsBackfill,
       BySet!NeedsBackfill, HasDefault, BySet!HasDefault

\* One outcome of a changeset.
LEMMA SameChangeset ==
  ASSUME NEW T, NEW old, NEW new
  PROVE  BySet!ApplyChangeset(T, old, new) = ApplyChangeset(T, old, new)
BY DEF ApplyChangeset, BySet!ApplyChangeset, CreateEntity, BySet!CreateEntity, MigratedTable,
       BySet!MigratedTable, NativeTable, BySet!NativeTable, AddColumn, BySet!AddColumn,
       RebuiltTable, BySet!RebuiltTable, TableDDL, BySet!TableDDL, UniqueFields,
       BySet!UniqueFields, CreateTable, BySet!CreateTable, ColumnDef, BySet!ColumnDef,
       Affinity, BySet!Affinity, Checks, BySet!Checks, Integer, BySet!Integer, DiffEntity,
       BySet!DiffEntity, Operation, BySet!Operation, FieldChanges, BySet!FieldChanges,
       FieldOpKinds, BySet!FieldOpKinds, AddedFields, BySet!AddedFields, DroppedFields,
       BySet!DroppedFields, KeptFields, BySet!KeptFields, Added, BySet!Added, Dropped,
       BySet!Dropped, Kept, BySet!Kept, NeedsRebuild, BySet!NeedsRebuild, RebuildKinds,
       BySet!RebuildKinds, NeedsBackfill, BySet!NeedsBackfill, HasDefault, BySet!HasDefault

-----------------------------------------------------------------------------
(***************************************************************************)
(* The theorems.                                                           *)
(***************************************************************************)
\* What a step does, whether by name or by set.
LEMMA StepSettles ==
  ASSUME NamesNeverMeet, IndexInv, [Next]_vars
  PROVE  IndexInv' /\ [BySet!Next]_(BySet!vars)
<1>1. CASE UNCHANGED vars
  <2>1. IndexInv'
    BY <1>1 DEF IndexInv, vars
  <2>2. Tables' = Tables
    BY <1>1 DEF Tables, vars, Indexed
  <2> QED
    BY <1>1, <2>1, <2>2 DEF vars, BySet!vars
<1>2. CASE Load
  <2>1. db' = db /\ manifest' = manifest /\ fingerprint' = fingerprint
    BY <1>2, LoadSettles DEF Load, IndexInv
  <2>2. IndexInv'
    BY <2>1 DEF IndexInv
  <2>3. Tables' = Tables
    BY <2>1 DEF Tables, Indexed
  <2> QED
    BY <2>1, <2>2, <2>3 DEF BySet!vars
<1>3. ASSUME NEW new \in Manifests, NEW witnesses \in Witnesses, Migrate(new, witnesses)
      PROVE  IndexInv' /\ BySet!Migrate(new, witnesses)
  <2>1. /\ manifest \in Manifests /\ Settled(db, manifest) /\ Materialize(db, manifest) = db
        /\ Tables = TablesIn(db) /\ Tables' = TablesIn(db')
    BY LoadSettles DEF IndexInv, Tables, TablesIn
  <2>2. ~BySet!IsEmpty(manifest, new) /\ BySet!Admitted(manifest, new, witnesses) /\ manifest' = new
    BY <1>3, SameDifference DEF Migrate
  <2>3. CASE AllNoSQL(manifest, new)
    <3>1. db' = db /\ fingerprint' = fingerprint
      BY <1>3, <2>1, <2>3 DEF Migrate
    <3>2. Settled(db, new)
      BY <2>1, <2>3, RenamesKeepShape DEF Settled
    <3>3. IndexInv'
      BY <2>2, <3>1, <3>2 DEF IndexInv
    <3>4. Tables' = Tables
      BY <2>1, <3>1
    <3> QED
      BY <2>2, <2>3, <3>1, <3>3, <3>4, SameDifference DEF BySet!Migrate
  <2>4. CASE ~AllNoSQL(manifest, new)
    <3>1. /\ db' = Execute(db, manifest, new) /\ Execute(db, manifest, new).ok
          /\ fingerprint' = Fingerprint(new)
      BY <1>3, <2>1, <2>4 DEF Migrate
    <3>2. ~ChangesetRefused(Tables, manifest, new)
      BY <2>1, <3>1, ExecuteSettles
    <3>3. Settled(db', new) /\ Tables' = ApplyChangeset(Tables, manifest, new)
      BY <2>1, <3>1, <3>2, ExecuteSettles
    <3>4. IndexInv'
      BY <2>2, <3>3 DEF IndexInv
    <3> QED
      BY <2>2, <2>4, <3>1, <3>2, <3>3, <3>4, SameDifference, SameFingerprint, SameRefusal, SameChangeset
      DEF BySet!Migrate
  <2> QED
    BY <2>3, <2>4
<1> QED
  BY <1>1, <1>2, <1>3 DEF Next, BySet!Next

\* A database is, to the last name, the one its tables and unique columns make.
LEMMA IndexInvariant ==
  ASSUME NamesNeverMeet
  PROVE  Spec => []IndexInv
<1>1. Init => IndexInv
  BY InitSettles
<1>2. IndexInv /\ [Next]_vars => IndexInv'
  BY StepSettles
<1> QED
  BY <1>1, <1>2, PTL DEF Spec

\* Where names never meet, the executor fails only where the sets of Evolution
\* refuse: no temporary table and no index is ever in the way (execute.go:219,
\* materialize.go:98-100).
THEOREM NamesAlwaysRefuseNothing ==
  ASSUME NamesNeverMeet
  PROVE  Spec => []NamesRefuseNothing
<1>1. IndexInv => NamesRefuseNothing
  <2> SUFFICES ASSUME IndexInv, NEW new \in Manifests, ~Execute(db, manifest, new).ok
               PROVE  ChangesetRefused(Tables, manifest, new)
    BY DEF NamesRefuseNothing
  <2>1. manifest \in Manifests /\ Settled(db, manifest) /\ Tables = TablesIn(db)
    BY DEF IndexInv, Tables, TablesIn
  <2> QED
    BY <2>1, ExecuteSettles
<1> QED
  BY <1>1, IndexInvariant, PTL

\* Where names never meet, statements that go by name do what Evolution says of
\* sets of unique columns: the first boot, every later one, and every
\* migration (materialize.go:53-100, execute.go:58-270).
THEOREM NamesImplementSets ==
  ASSUME NamesNeverMeet
  PROVE  Spec => ImplementsEvolution
<1>1. Init => BySet!Init
  <2> SUFFICES ASSUME Init PROVE BySet!Init
    OBVIOUS
  <2>1. manifest \in Manifests /\ fingerprint = Fingerprint(manifest)
    BY DEF Init
  <2>2. Tables = [e \in DOMAIN manifest |-> BySet!TableDDL(manifest[e])]
    BY InitSettles, SameTable DEF Declared
  <2> QED
    BY <2>1, <2>2, SameFingerprint DEF BySet!Init
<1>2. IndexInv /\ [Next]_vars => [BySet!Next]_(BySet!vars)
  BY StepSettles
<1> QED
  BY <1>1, <1>2, IndexInvariant, PTL DEF Spec, ImplementsEvolution, BySet!Spec

\* What a migration leaves, by name, enforces the manifest: when fields keep
\* their bounds unless their table is rebuilt, each unique field has an index,
\* and no other column has one (store.go:140-146, materialize.go:67-71).
THEOREM IndexedSchemaConforms ==
  ASSUME NamesNeverMeet, \A old, new \in Manifests : BoundsAgree(old, new)
  PROVE  Spec => []Conforms(Tables, manifest)
<1> DEFINE TablesConform == Conforms(Tables, manifest)
<1>1. Init => TablesConform
  <2> SUFFICES ASSUME Init PROVE TablesConform
    OBVIOUS
  <2>1. Tables = Declared(manifest)
    BY InitSettles
  <2>2. \A e \in DOMAIN manifest : TableConforms(TableDDL(manifest[e]), manifest[e])
    BY NewTables
  <2> QED
    BY <2>1, <2>2 DEF Conforms, Declared
<1>2. IndexInv /\ TablesConform /\ [Next]_vars => TablesConform'
  <2> SUFFICES ASSUME IndexInv, TablesConform, [Next]_vars
               PROVE  TablesConform'
    OBVIOUS
  <2>1. /\ manifest \in Manifests /\ Settled(db, manifest) /\ Materialize(db, manifest) = db
        /\ Tables = TablesIn(db) /\ Tables' = TablesIn(db')
    BY LoadSettles DEF IndexInv, Tables, TablesIn
  <2>2. CASE UNCHANGED vars \/ Load
    <3>1. db' = db /\ manifest' = manifest
      BY <2>1, <2>2 DEF vars, Load
    <3> QED
      BY <2>1, <3>1
  <2>3. ASSUME NEW new \in Manifests, NEW witnesses \in Witnesses, Migrate(new, witnesses)
        PROVE  TablesConform'
    <3>1. /\ ValidManifest(manifest) /\ ValidManifest(new) /\ BoundsAgree(manifest, new)
          /\ manifest' = new /\ Conforms(TablesIn(db), manifest)
      BY <2>1, <2>3, ManifestsAreFiles DEF Migrate
    <3>2. CASE AllNoSQL(manifest, new)
      <4>1. db' = db
        BY <2>1, <2>3, <3>2 DEF Migrate
      <4>2. Conforms(TablesIn(db), new)
        BY <3>1, <3>2, RenamesChangeNothing
      <4> QED
        BY <2>1, <3>1, <4>1, <4>2
    <3>3. CASE ~AllNoSQL(manifest, new)
      <4>1. db' = Execute(db, manifest, new) /\ Execute(db, manifest, new).ok
        BY <2>1, <2>3, <3>3 DEF Migrate
      <4>2. /\ ~ChangesetRefused(TablesIn(db), manifest, new)
            /\ TablesIn(db') = ApplyChangeset(TablesIn(db), manifest, new)
        BY <2>1, <4>1, ExecuteSettles
      <4>3. Conforms(ApplyChangeset(TablesIn(db), manifest, new), new)
        BY <3>1, <4>2, ExecutorIsSound
      <4> QED
        BY <2>1, <3>1, <4>2, <4>3
    <3> QED
      BY <3>2, <3>3
  <2> QED
    BY <2>2, <2>3 DEF Next
<1> QED
  BY <1>1, <1>2, IndexInvariant, PTL DEF Spec
=============================================================================
