-------------------------------- MODULE Boot --------------------------------
(***************************************************************************)
(* Booting a catalog of several apps: registry.Load in the serving process *)
(* and in the migrate command, and the seeding of the apps a serving boot  *)
(* has created (package seed).  Module Migration has the steps within one  *)
(* app; here opening its database, materializing it and checking it        *)
(* against the manifest is one step, and a whole migration is another.     *)
(*                                                                         *)
(* A manifest is an app id, a version (its fingerprint), the names of its  *)
(* entities in the order declared, and those that allow create.  A seed    *)
(* folder is a function from file names to sequences of rows; a row is its *)
(* label ("$key", a set of at most one), the rows its reference fields     *)
(* name, and whether Create takes the rest of it.                          *)
(***************************************************************************)
EXTENDS Naturals, SequencesExt, FiniteSets

CONSTANTS
  Dirs,          \* the catalog's directories, in the order they are scanned
  Manifests,     \* what manifest.json may say
  NoManifest,    \* a manifest that validation rejects
  Folders,       \* what data/ may hold; an absent one is the empty function
  Catalogs,      \* the catalogs to start from
  Edits,         \* what a directory may be edited to
  Server,        \* the serving process
  Migrators,     \* processes of the migrate command
  FaultyApps,    \* apps whose files and statements may fail
  MaxEdits       \* bound on the edits of the catalog and the data directory

Apps == {m.id : m \in Manifests}
Versions == {m.ver : m \in Manifests}
Procs == {Server} \cup Migrators
Entry == [manifest : Manifests \cup {NoManifest}, seed : Folders]

ASSUME CatalogsAreEntries == Edits \subseteq Entry /\ Catalogs \subseteq [1..Len(Dirs) -> Entry]
ASSUME ServerIsNoMigrator == Server \notin Migrators
ASSUME MaxEditsIsNatural == MaxEdits \in Nat
ASSUME NoManifestIsNone == NoManifest \notin Manifests
ASSUME DirsAreListed == Len(Dirs) \in Nat
ASSUME VersionsAreNumbered == Versions \subseteq Nat \ {0}

\* Validation: entity ids differ, and capabilities are of entities.
ASSUME EntitiesAreListed ==
  \A m \in Manifests :
    /\ m.entities \in Seq(STRING)
    /\ \A i, j \in DOMAIN m.entities : m.entities[i] = m.entities[j] => i = j
    /\ m.creates \subseteq {m.entities[i] : i \in DOMAIN m.entities}

SeedRows == [label : SUBSET STRING, refs : SUBSET [ent : STRING, key : STRING, target : STRING],
             valid : BOOLEAN]

ASSUME FoldersAreOfRows ==
  \A folder \in Folders :
    folder = [e \in DOMAIN folder |-> folder[e]] /\ \A e \in DOMAIN folder : folder[e] \in Seq(SeedRows)

VARIABLES
  catalog,   \* directory (by its place in Dirs) -> its manifest and seed folder
  data,      \* app id -> its data.db: there or not, its fingerprint (0: none), what was seeded
  pc,        \* process -> what it is doing
  results,   \* process -> Load's results so far, one per directory scanned
  opening,   \* process -> the manifest it has read, and Fresh
  reg,       \* process -> its registry: app id -> directory and manifest
  turn,      \* the serving process: the result it looks at next, to seed its app
  tx,        \* its seed transaction
  edits

vars == <<catalog, data, pc, results, opening, reg, turn, tx, edits>>

Nothing == [x \in {} |-> x]
NoData == [exists |-> FALSE, ver |-> 0, seeded |-> <<>>]
NoTx == [app |-> {}, folder |-> Nothing, todo |-> <<>>, rows |-> <<>>]
NoOpening == [manifest |-> NoManifest, fresh |-> FALSE]

Init ==
  /\ catalog \in Catalogs
  /\ data = [a \in Apps |-> NoData]
  /\ pc = [p \in Procs |-> "down"]
  /\ results = [p \in Procs |-> <<>>]
  /\ opening = [p \in Procs |-> NoOpening]
  /\ reg = [p \in Procs |-> Nothing]
  /\ turn = 1 /\ tx = NoTx
  /\ edits = 0

Goto(p, step) == pc' = [pc EXCEPT ![p] = step]

-----------------------------------------------------------------------------
(***************************************************************************)
(* registry.Load, one directory after the other.                           *)
(***************************************************************************)
Start(p) ==
  /\ pc[p] = "down"
  /\ Goto(p, "load")
  /\ UNCHANGED <<catalog, data, results, opening, reg, turn, tx, edits>>

Dir(p) == Len(results[p]) + 1

\* A mutant: the first bad manifest ends the scan.
StopScan(p, result) ==
  results' = [results EXCEPT ![p] = @ \o [d \in 1..(Len(Dirs) - Len(@)) |-> result]]

\* A mutant: a continue is missing, and what has failed is recorded again.
RecordTwice(p, result) ==
  results' = [results EXCEPT ![p] = IF result.ok THEN Append(@, result)
                                    ELSE Append(Append(@, result), result)]

\* results = append(results, res); continue
Record(p, result) == results' = [results EXCEPT ![p] = Append(@, result)]

Result(m, ok, fresh) == [manifest |-> m, ok |-> ok, fresh |-> fresh]

\* A manifest that cannot be read or is not valid.
SkipDir(p) ==
  /\ pc[p] = "load" /\ Dir(p) <= Len(Dirs)
  /\ catalog[Dir(p)].manifest = NoManifest
  /\ Record(p, Result(NoManifest, FALSE, FALSE))
  /\ UNCHANGED <<catalog, data, pc, opening, reg, turn, tx, edits>>

\* The manifest is read, and data.db looked for.
Stat(p) ==
  /\ pc[p] = "load" /\ Dir(p) <= Len(Dirs)
  /\ catalog[Dir(p)].manifest # NoManifest
  /\ LET m == catalog[Dir(p)].manifest
     IN opening' = [opening EXCEPT ![p] = [manifest |-> m, fresh |-> ~data[m.id].exists]]
  /\ Goto(p, "open")
  /\ UNCHANGED <<catalog, data, results, reg, turn, tx, edits>>

\* A mutant: the boot looks for data.db once it has opened it, or not at all.
AlwaysFresh(p) == opening[p].manifest \in Manifests

Fresh(p) == opening[p].fresh

\* A database without a fingerprint adopts the manifest's; any other must have it.
Accepts(db, m) == db.ver \in {0, m.ver}

\* Opening creates data.db.  A second directory with the same app id replaces
\* the first one in the registry.
OpenApp(p) ==
  /\ pc[p] = "open"
  /\ LET m == opening[p].manifest
         ok == Accepts(data[m.id], m)
     IN /\ data' = [data EXCEPT ![m.id].exists = TRUE, ![m.id].ver = IF ok THEN m.ver ELSE @]
        /\ reg' = IF ok THEN [reg EXCEPT ![p] = [a \in DOMAIN @ \cup {m.id} |->
                                IF a = m.id THEN [dir |-> Dir(p), manifest |-> m] ELSE @[a]]]
                  ELSE reg
        /\ Record(p, Result(m, ok, Fresh(p)))
  /\ Goto(p, "load")
  /\ opening' = [opening EXCEPT ![p] = NoOpening]
  /\ UNCHANGED <<catalog, turn, tx, edits>>

\* Open, ApplyDDL or a check fails, before or after data.db has come to be.
OpenFails(p) ==
  /\ pc[p] = "open"
  /\ opening[p].manifest.id \in FaultyApps
  /\ LET m == opening[p].manifest
     IN /\ \E created \in {TRUE, data[m.id].exists} : data' = [data EXCEPT ![m.id].exists = created]
        /\ Record(p, Result(m, FALSE, Fresh(p)))
  /\ Goto(p, "load")
  /\ opening' = [opening EXCEPT ![p] = NoOpening]
  /\ UNCHANGED <<catalog, reg, turn, tx, edits>>

Loaded(p) ==
  /\ pc[p] = "load" /\ Dir(p) > Len(Dirs)
  /\ Goto(p, IF p = Server THEN "seed" ELSE "apply")
  /\ UNCHANGED <<catalog, data, results, opening, reg, turn, tx, edits>>

-----------------------------------------------------------------------------
(***************************************************************************)
(* runServe's loop over the results, and seed.Apply for each app that was  *)
(* created by this boot.                                                   *)
(***************************************************************************)
Turn == results[Server][turn]

Seeding == pc[Server] = "seed" /\ turn <= Len(results[Server])

ToSeed == Turn.ok /\ Turn.fresh /\ Turn.manifest.id \in DOMAIN reg[Server]

\* The registered app, which another directory may have replaced since.
Registered == reg[Server][Turn.manifest.id]

Folder == catalog[Registered.dir].seed

SeedPass ==
  /\ Seeding /\ tx = NoTx /\ ~ToSeed
  /\ turn' = turn + 1
  /\ UNCHANGED <<catalog, data, pc, results, opening, reg, tx, edits>>

\* No seed files: nothing to do.
SeedNothing ==
  /\ Seeding /\ tx = NoTx /\ ToSeed
  /\ DOMAIN Folder = {}
  /\ turn' = turn + 1
  /\ UNCHANGED <<catalog, data, pc, results, opening, reg, tx, edits>>

\* A mutant: the store is closed, but the app stays registered.
CloseOnly(a) == a \in Apps /\ UNCHANGED reg

\* The app goes; its data.db stays.
Unregister(a) == reg' = [reg EXCEPT ![Server] = [b \in DOMAIN @ \ {a} |-> @[b]]]

\* A file that names no entity, or one that does not allow create.
SeedRefused ==
  /\ Seeding /\ tx = NoTx /\ ToSeed
  /\ ~(DOMAIN Folder \subseteq Registered.manifest.creates)
  /\ Unregister(Turn.manifest.id)
  /\ turn' = turn + 1
  /\ UNCHANGED <<catalog, data, pc, results, opening, tx, edits>>

\* The rows of the files in the order the manifest declares the entities.
RowsInOrder(folder, m) ==
  FlattenSeq([n \in 1..Len(m.entities) |->
    LET e == m.entities[n]
    IN IF e \in DOMAIN folder
       THEN [i \in 1..Len(folder[e]) |-> [ent |-> e, row |-> folder[e][i]]] ELSE <<>>])

SeedBegin ==
  /\ Seeding /\ tx = NoTx /\ ToSeed
  /\ DOMAIN Folder # {} /\ DOMAIN Folder \subseteq Registered.manifest.creates
  /\ tx' = [app |-> {Turn.manifest.id}, folder |-> Folder,
             todo |-> RowsInOrder(Folder, Registered.manifest), rows |-> <<>>]
  /\ UNCHANGED <<catalog, data, pc, results, opening, reg, turn, edits>>

\* The rows inserted so far under the label a placeholder "$entity.key" names:
\* the last one is meant.
Labelled(ref, rows) ==
  {n \in 1..Len(rows) : rows[n].ent = ref.ent /\ rows[n].label = {ref.key}}

\* A placeholder must be resolved, and Create then looks the row up in the
\* entity the field refers to.
Resolvable(ref, rows) == Labelled(ref, rows) # {} /\ ref.ent = ref.target

Resolved(ref, rows) ==
  CHOOSE n \in Labelled(ref, rows) : \A m \in Labelled(ref, rows) : m <= n

InsertSeed(next, rows) ==
  Append(rows, [ent |-> next.ent, label |-> next.row.label,
                refs |-> {Resolved(ref, rows) : ref \in next.row.refs}])

InTx == Seeding /\ tx # NoTx

NextSeedOk == LET next == tx.todo[Len(tx.rows) + 1]
              IN next.row.valid /\ \A ref \in next.row.refs : Resolvable(ref, tx.rows)

SeedRow ==
  /\ InTx /\ Len(tx.rows) < Len(tx.todo) /\ NextSeedOk
  /\ tx' = [tx EXCEPT !.rows = InsertSeed(tx.todo[Len(@) + 1], @)]
  /\ UNCHANGED <<catalog, data, pc, results, opening, reg, turn, edits>>

\* A mutant: the rows before the bad one are kept.
SeedKeepsRows ==
  /\ InTx /\ Len(tx.rows) < Len(tx.todo) /\ ~NextSeedOk
  /\ data' = [data EXCEPT ![Turn.manifest.id].seeded =
                 Append(@, [folder |-> tx.folder, rows |-> tx.rows])]
  /\ tx' = NoTx /\ turn' = turn + 1
  /\ UNCHANGED <<catalog, pc, results, opening, reg, edits>>

\* A row is refused: the transaction rolls back and the app is not served.
SeedRollback ==
  /\ InTx /\ Len(tx.rows) < Len(tx.todo) /\ ~NextSeedOk
  /\ Unregister(Turn.manifest.id)
  /\ tx' = NoTx /\ turn' = turn + 1
  /\ UNCHANGED <<catalog, data, pc, results, opening, edits>>

SeedCommit ==
  /\ InTx /\ Len(tx.rows) = Len(tx.todo)
  /\ data' = [data EXCEPT ![Turn.manifest.id].seeded =
                 Append(@, [folder |-> tx.folder, rows |-> tx.rows])]
  /\ tx' = NoTx /\ turn' = turn + 1
  /\ UNCHANGED <<catalog, pc, results, opening, reg, edits>>

\* Beginning, an insert or the commit fails; so may an insert into tables that
\* another process has migrated since.
SeedFails ==
  /\ Seeding /\ ToSeed /\ DOMAIN Folder # {}
  /\ \/ Turn.manifest.id \in FaultyApps
     \/ data[Turn.manifest.id].ver # Registered.manifest.ver
  /\ Unregister(Turn.manifest.id)
  /\ tx' = NoTx /\ turn' = turn + 1
  /\ UNCHANGED <<catalog, data, pc, results, opening, edits>>

\* ListenAndServe, with whatever is registered.
Listen ==
  /\ pc[Server] = "seed" /\ turn > Len(results[Server])
  /\ Goto(Server, "serve")
  /\ UNCHANGED <<catalog, data, results, opening, reg, turn, tx, edits>>

-----------------------------------------------------------------------------
(***************************************************************************)
(* The migrate command, after Load; deaths; and the operator.              *)
(***************************************************************************)
\* What a process has in memory goes with it; an open transaction rolls back.
Gone(p) ==
  /\ Goto(p, "down")
  /\ results' = [results EXCEPT ![p] = <<>>]
  /\ opening' = [opening EXCEPT ![p] = NoOpening]
  /\ reg' = [reg EXCEPT ![p] = Nothing]
  /\ IF p = Server THEN turn' = 1 /\ tx' = NoTx ELSE UNCHANGED <<turn, tx>>

\* A transaction locks the database from its first insert on.
Locked == IF tx.rows = <<>> THEN {} ELSE tx.app

\* migrate.Apply of a registered app, as a whole: database and manifest move on,
\* and the seeded rows with them.  It waits while the app is being seeded.  Versions
\* are numbered in the order the operator moves through them.
Migrate(p) ==
  /\ pc[p] = "apply"
  /\ \E a \in DOMAIN reg[p] \ Locked : \E new \in {m \in Manifests : m.id = a} :
       /\ data[a].ver = reg[p][a].manifest.ver /\ new.ver > data[a].ver
       /\ data' = [data EXCEPT ![a].ver = new.ver]
       /\ catalog' = [catalog EXCEPT ![reg[p][a].dir].manifest = new]
  /\ Gone(p)
  /\ UNCHANGED <<edits>>

\* The app is not registered, the plan is refused, or the migration fails.
MigrateFails(p) ==
  /\ pc[p] = "apply"
  /\ Gone(p)
  /\ UNCHANGED <<catalog, data, edits>>

\* The serving process is stopped, or cannot listen.
Stop ==
  /\ pc[Server] = "serve"
  /\ Gone(Server)
  /\ UNCHANGED <<catalog, data, edits>>

Crash(p) ==
  /\ pc[p] \notin {"down", "serve"}
  /\ Gone(p)
  /\ UNCHANGED <<catalog, data, edits>>

Quiet == \A p \in Procs : pc[p] = "down"

\* Between boots a directory is edited.
EditCatalog ==
  /\ Quiet /\ edits < MaxEdits /\ edits' = edits + 1
  /\ \E d \in 1..Len(Dirs), e \in Edits : e # catalog[d] /\ catalog' = [catalog EXCEPT ![d] = e]
  /\ UNCHANGED <<data, pc, results, opening, reg, turn, tx>>

\* An app's data directory is deleted, to start it afresh.
DeleteData ==
  /\ Quiet /\ edits < MaxEdits /\ edits' = edits + 1
  /\ \E a \in Apps : data[a].exists /\ data' = [data EXCEPT ![a] = NoData]
  /\ UNCHANGED <<catalog, pc, results, opening, reg, turn, tx>>

-----------------------------------------------------------------------------
Load(p) == SkipDir(p) \/ Stat(p) \/ OpenApp(p) \/ OpenFails(p) \/ Loaded(p)

SeedStep == \/ SeedPass \/ SeedNothing \/ SeedRefused \/ SeedBegin \/ SeedRow \/ SeedRollback
            \/ SeedCommit \/ SeedFails \/ Listen

Work(p) == Load(p) \/ (p = Server /\ SeedStep) \/ Migrate(p) \/ MigrateFails(p)

Next ==
  \/ \E p \in Procs : Start(p) \/ Work(p) \/ Crash(p)
  \/ Stop \/ EditCatalog \/ DeleteData

Spec == Init /\ [][Next]_vars

-----------------------------------------------------------------------------
(***************************************************************************)
(* Properties.                                                             *)
(***************************************************************************)
TypeOK ==
  /\ catalog \in [1..Len(Dirs) -> Entry]
  /\ data \in [Apps -> [exists : BOOLEAN, ver : Versions \cup {0},
                       seeded : Seq([folder : Folders, rows : Seq([ent : STRING, label : SUBSET STRING, refs : SUBSET Nat])])]]
  /\ pc \in [Procs -> {"down", "load", "open", "seed", "serve", "apply"}]
  /\ \A p \in Procs : DOMAIN reg[p] \subseteq Apps /\ Len(results[p]) <= Len(Dirs)

\* "seed starter data exactly once" (boot.go:22-24): no boot seeds a database
\* that a boot has seeded before, whatever directories share it, whichever
\* process created it and whoever died in between.
SeededOnce == \A a \in Apps : Len(data[a].seeded) <= 1

\* The i-th row of an entity's file is its i-th row in the database, and its
\* references point at rows inserted before it under the labels it names.
IsWhole(folder, rows) ==
  \A e \in DOMAIN folder :
    LET placed == {n \in 1..Len(rows) : rows[n].ent = e}
        source(n) == folder[e][Cardinality({m \in placed : m <= n})]
    IN /\ Cardinality(placed) = Len(folder[e])
       /\ \A n \in placed : \A ref \in source(n).refs :
            \E m \in rows[n].refs : m < n /\ rows[m].ent = ref.target /\ rows[m].label = {ref.key}

\* "an app either seeds completely or not at all" (seed.go:18-21), though rows are
\* refused, statements fail and processes die half way.
SeededWhole ==
  \A a \in Apps : \A n \in 1..Len(data[a].seeded) :
    IsWhole(data[a].seeded[n].folder, data[a].seeded[n].rows)

\* "before the app is ever exposed to a request" (seed.go:3-5), and never partially
\* (main.go:96-99): the boot that created the database of an app it serves has
\* seeded it from the directory the app is registered with.
SeededBeforeServed ==
  pc[Server] = "serve" =>
    \A d \in 1..Len(Dirs) :
      LET res == results[Server][d]
      IN res.ok /\ res.fresh /\ res.manifest.id \in DOMAIN reg[Server] =>
           LET folder == catalog[reg[Server][res.manifest.id].dir].seed
           IN folder # Nothing => \E n \in 1..Len(data[res.manifest.id].seeded) :
                                    data[res.manifest.id].seeded[n].folder = folder

\* Every app that is served has the starter rows of its directory.
ServedIsSeeded ==
  pc[Server] = "serve" =>
    \A a \in DOMAIN reg[Server] :
      catalog[reg[Server][a].dir].seed # Nothing => data[a].seeded # <<>>

Seedable(folder, m) ==
  /\ DOMAIN folder \subseteq m.creates
  /\ LET rows == RowsInOrder(folder, m)
     IN \A n \in 1..Len(rows) :
          /\ rows[n].row.valid
          /\ \A ref \in rows[n].row.refs :
               /\ ref.ent = ref.target
               /\ \E i \in 1..(n - 1) : rows[i].ent = ref.ent /\ rows[i].row.label = {ref.key}

\* What may keep an app from being served: one of its own directories.
Excused(a, d) ==
  LET res == results[Server][d]
  IN /\ res.manifest # NoManifest /\ res.manifest.id = a
     /\ ~res.ok \/ data[a].ver # res.manifest.ver \/ ~Seedable(catalog[d].seed, res.manifest)

\* "skipped - never served - but does not stop the others" (boot.go:35-36), seed
\* failures included: an app of the catalog is missing from a serving process
\* only if something of its own is wrong.
OthersServed ==
  pc[Server] = "serve" =>
    \A d \in 1..Len(Dirs) :
      catalog[d].manifest # NoManifest /\ catalog[d].manifest.id \notin DOMAIN reg[Server] =>
        LET a == catalog[d].manifest.id
        IN a \in FaultyApps \/ \E e \in 1..Len(Dirs) : Excused(a, e)
=============================================================================
