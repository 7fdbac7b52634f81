-------------------------- MODULE MigrationProofs --------------------------
(***************************************************************************)
(* Theorems about Migration, for every value of its constants: any app,    *)
(* any set of manifests, any retention, any number of crashes and edits.   *)
(*                                                                         *)
(* TypeOK is made inductive by Phases, which ties what the process holds   *)
(* to what it does next.  That no acknowledged row is lost is not          *)
(* inductive either: a restore brings back a snapshot, so the snapshot     *)
(* must hold every acknowledged row, which it does because it copies       *)
(* data.db after a checkpoint and nothing is written until it is used.     *)
(* Durable says so for each phase of migrate.Apply.                        *)
(*                                                                         *)
(* What is served is also what the manifest says, no app is left           *)
(* half-migrated, and no data is lost unguarded.  ChangesetProofs says     *)
(* what one changeset does to one database; here it meets the processes:   *)
(* the manifest and the database are written one after the other, and a    *)
(* process may die between any two writes.  An operator may edit the       *)
(* manifest between migrations: what stays true then has an invariant of   *)
(* its own, TruthInv.  The last section shows that an upgrade without      *)
(* edits implements AtomicUpgrade.                                         *)
(***************************************************************************)
EXTENDS MigrationRefinement, ChangesetProofs

-----------------------------------------------------------------------------
(***************************************************************************)
(* Database contents.                                                      *)
(***************************************************************************)
\* A blank database is a database.
LEMMA BlankIsImage == IsImage(Blank)
BY DEF IsImage, Blank, NoApp, IsOptional

\* A valid manifest has an entity, so the absence of a manifest is none.
LEMMA NoAppIsNoManifest == NoApp \notin Manifests
BY ManifestsAreValid DEF NoApp, ValidManifest

\* What CREATE TABLE makes is a table.
LEMMA CreatedIsTable == \A ent : IsTable(CreateTable(ent))
BY DEF IsTable, CreateTable

\* Giving an image other tables keeps it an image, with the rows it had.
LEMMA WithTablesIsImage ==
  ASSUME NEW image, IsImage(image), NEW tables, DOMAIN tables \subseteq EntityIds,
         \A e \in DOMAIN tables : IsTable(tables[e])
  PROVE  /\ IsImage(WithTables(image, tables))
         /\ WithTables(image, tables).tables = tables
         /\ WithTables(image, tables).fp = image.fp
         /\ \A e \in DOMAIN tables : RowsOf(WithTables(image, tables), e) = RowsOf(image, e)
<1> DEFINE new == WithTables(image, tables)
<1>1. new = [tables |-> tables, rows |-> [e \in DOMAIN tables |-> RowsOf(image, e)], fp |-> image.fp]
  BY DEF WithTables
<1>2. \A e : RowsOf(image, e) \in SUBSET Rows
  BY DEF IsImage, RowsOf
<1>3. new.rows \in [DOMAIN tables -> SUBSET Rows]
  BY <1>1, <1>2
<1>4. IsImage(new)
  BY <1>1, <1>3 DEF IsImage
<1>5. \A e \in DOMAIN tables : RowsOf(new, e) = RowsOf(image, e)
  BY <1>1 DEF RowsOf
<1> QED
  BY <1>1, <1>4, <1>5

\* So does creating one table.
LEMMA WithTableIsImage ==
  ASSUME NEW image, IsImage(image), NEW e \in EntityIds, NEW table, IsTable(table)
  PROVE  /\ IsImage(WithTable(image, e, table))
         /\ \A x : RowsOf(image, x) \subseteq RowsOf(WithTable(image, e, table), x)
<1> DEFINE tables == [x \in DOMAIN image.tables \cup {e} |->
                        IF x = e THEN table ELSE image.tables[x]]
<1>1. DOMAIN tables \subseteq EntityIds /\ \A x \in DOMAIN tables : IsTable(tables[x])
  BY DEF IsImage
<1>2. WithTable(image, e, table) = WithTables(image, tables)
  BY DEF WithTable
<1>3. \A x \in DOMAIN tables : RowsOf(WithTables(image, tables), x) = RowsOf(image, x)
  BY <1>1, WithTablesIsImage
<1>4. \A x : x \notin DOMAIN tables => RowsOf(image, x) = {}
  BY DEF RowsOf, IsImage
<1> HIDE DEF tables
<1> QED
  BY <1>1, <1>2, <1>3, <1>4, WithTablesIsImage

\* So does inserting a row into a table that is there.
LEMMA WithRowIsImage ==
  ASSUME NEW image, IsImage(image), NEW e \in DOMAIN image.rows, NEW r \in Rows
  PROVE  /\ IsImage(WithRow(image, e, r))
         /\ r \in RowsOf(WithRow(image, e, r), e)
         /\ \A x : RowsOf(image, x) \subseteq RowsOf(WithRow(image, e, r), x)
<1>1. WithRow(image, e, r) =
        [tables |-> image.tables, rows |-> [image.rows EXCEPT ![e] = @ \cup {r}], fp |-> image.fp]
  BY DEF IsImage, WithRow
<1>2. [image.rows EXCEPT ![e] = @ \cup {r}] \in [DOMAIN image.tables -> SUBSET Rows]
  BY DEF IsImage
<1> QED
  BY <1>1, <1>2 DEF IsImage, RowsOf

\* A changeset keeps the rows of every entity it does not drop.
LEMMA MigratedIsImage ==
  ASSUME NEW image, IsImage(image),
         NEW old \in Manifests, NEW new \in Manifests, ~ChangesetRefused(image.tables, old, new)
  PROVE  /\ IsImage(MigratedImage(image, old, new))
         /\ \A e : e \notin Dropped(old, new) =>
              RowsOf(image, e) \subseteq RowsOf(MigratedImage(image, old, new), e)
<1> DEFINE tables == ApplyChangeset(image.tables, old, new)
           mid == WithTables(image, tables)
<1>1. DOMAIN tables = (DOMAIN image.tables \cup Added(old, new)) \ Dropped(old, new)
  BY DEF ApplyChangeset
<1>2. DOMAIN tables \subseteq EntityIds /\ \A e \in DOMAIN tables : IsTable(tables[e])
  <2>1. \A e \in DOMAIN tables : IsTable(tables[e])
    BY TablesRemain DEF IsImage
  <2> QED
    BY <1>1, <2>1 DEF Added, EntityIds, IsImage
<1>3. MigratedImage(image, old, new) = [mid EXCEPT !.fp = {Fingerprint(new)}]
  BY DEF MigratedImage
<1>4. \A e \in DOMAIN tables : RowsOf(mid, e) = RowsOf(image, e)
  BY <1>2, WithTablesIsImage
<1>5. \A e : e \notin DOMAIN image.tables => RowsOf(image, e) = {}
  BY DEF RowsOf, IsImage
<1>6. IsImage(mid)
  BY <1>2, WithTablesIsImage
<1> HIDE DEF tables, mid
<1>7. MigratedImage(image, old, new) =
        [tables |-> mid.tables, rows |-> mid.rows, fp |-> {Fingerprint(new)}]
  BY <1>3, <1>6 DEF IsImage
<1>8. IsImage(MigratedImage(image, old, new))
  BY <1>6, <1>7 DEF IsImage, IsOptional
<1>9. \A e : RowsOf(MigratedImage(image, old, new), e) = RowsOf(mid, e)
  BY <1>7 DEF RowsOf
<1> QED
  BY <1>1, <1>4, <1>5, <1>8, <1>9

-----------------------------------------------------------------------------
(***************************************************************************)
(* Type correctness.  Phases says which of a process's variables are set   *)
(* at which of its steps, without which TypeOK is not inductive: a commit  *)
(* records the fingerprint of job.new, and a restore reads the snapshot    *)
(* job.snap.                                                               *)
(***************************************************************************)
Snapshotting == {"copy", "execute", "close", "truncate", "restore"}

Admitted == {"checkpoint", "create", "promote", "write", "prune", "finish"} \cup Snapshotting

Phases ==
  /\ pc \in Admitted => job.new \in Manifests
  /\ pc \in Admitted \cup {"ddl", "serving", "plan"} => schema \in Manifests
  /\ pc \in {"copy", "close", "truncate", "restore"} => job.snap # 0
  /\ pc \notin Admitted \ {"checkpoint", "create"} => job.snap = 0
  /\ pc \in Snapshotting /\ job.snap # 0 => job.snap \in DOMAIN snaps

(***************************************************************************)
(* Durability.  From the copy to the end of the transaction the newest     *)
(* snapshot is the one this job took, and equals the database; while the   *)
(* database file is empty it stands in for it.                             *)
(***************************************************************************)
SnapshotIsNewest == pc \in Snapshotting /\ job.snap # 0 => Newer(job.snap) = {}

SnapshotIsDatabase ==
  /\ pc \in {"create", "copy"} => file.image = db
  /\ pc \in {"execute", "close", "truncate"} /\ job.snap # 0 =>
       snaps[job.snap] = [whole |-> TRUE, image |-> db]

AckedRowsKept ==
  /\ file.state \in {"empty", "torn"} => pc = "restore"
  /\ pc # "restore" => \A a \in acked : Holds(db, a)
  /\ pc = "restore" => /\ snaps[job.snap].whole
                       /\ \A a \in acked : Holds(snaps[job.snap].image, a)

SnapshotInv == SnapshotIsNewest /\ SnapshotIsDatabase

Durable == SnapshotInv /\ AckedRowsKept

-----------------------------------------------------------------------------
\* The initial states are well typed.
LEMMA TypeInit == Init => TypeOK /\ Phases
<1> SUFFICES ASSUME Init PROVE TypeOK /\ Phases
  OBVIOUS
<1>1. IsImage(db) /\ IsImage(file.image)
  BY BlankIsImage DEF Init
<1>2. DOMAIN snaps = {}
  BY DEF Init
<1>3. manifest \in [whole : BOOLEAN, content : Manifests \cup {NoApp}] /\ manifest.content \in Manifests
  <2>1. PICK m \in Manifests : manifest = [whole |-> TRUE, content |-> m]
    BY DEF Init
  <2> QED
    BY <2>1
<1>4. job \in [new : Manifests \cup {NoApp}, confirm : BOOLEAN,
               witnesses : Witnesses \cup {NoApp}, snap : 0..clock]
  BY DEF Init, NoJob
<1>5. TypeOK
  BY <1>1, <1>2, <1>3, <1>4 DEF Init, TypeOK, IsFile
<1>6. Phases
  BY DEF Init, Phases, Admitted, Snapshotting, NoJob
<1> QED
  BY <1>5, <1>6

\* A process that ends, however it ends, leaves well-typed files behind.
LEMMA TypeDown ==
  TypeOK /\ Phases /\ Down /\ IsFile(file') /\ UNCHANGED <<manifest, db, snaps, clock, acked, edits>>
    /\ crashes' \in Nat
  => TypeOK' /\ Phases'
<1> SUFFICES ASSUME TypeOK, Phases, Down, IsFile(file'), crashes' \in Nat,
                    UNCHANGED <<manifest, db, snaps, clock, acked, edits>>
             PROVE  TypeOK' /\ Phases'
  OBVIOUS
<1>1. job' \in [new : Manifests \cup {NoApp}, confirm : BOOLEAN,
                witnesses : Witnesses \cup {NoApp}, snap : 0..clock']
  BY DEF Down, NoJob, TypeOK
<1>2. pc' = "down" /\ mode' = mode /\ schema' = NoApp /\ job'.snap = 0
  BY DEF Down, NoJob
<1>3. TypeOK'
  BY <1>1, <1>2 DEF TypeOK
<1>4. Phases'
  BY <1>2 DEF Phases, Admitted, Snapshotting
<1> QED
  BY <1>3, <1>4

\* So does a checkpoint.
LEMMA TypeFlush == TypeOK /\ FlushLog => IsFile(file')
BY DEF TypeOK, FlushLog, IsFile

\* Every step keeps the types and the phases, action by action.
LEMMA TypeStep == TypeOK /\ Phases /\ [Next]_vars => TypeOK' /\ Phases'
<1> SUFFICES ASSUME TypeOK, Phases, [Next]_vars PROVE TypeOK' /\ Phases'
  OBVIOUS
<1> USE NoAppIsNoManifest
<1> USE DEF TypeOK, Phases, Admitted, Snapshotting, disk, process, counters
<1>1. CASE StartServe
  BY <1>1 DEF StartServe
<1>2. ASSUME NEW new \in Manifests \cup {NoApp}, NEW confirm \in BOOLEAN, NEW w \in Witnesses,
             StartMigrate(new, confirm, w)
      PROVE  TypeOK' /\ Phases'
  BY <1>2 DEF StartMigrate
<1>3. ASSUME NEW m \in HandEdits, EditManifest(m)
      PROVE  TypeOK' /\ Phases'
  BY <1>3, EditsAreManifests DEF EditManifest
<1>4. CASE Crash
  BY <1>4, TypeDown DEF Crash
<1>5. CASE StopServe
  BY <1>5, TypeDown DEF StopServe
<1>6. CASE WriteFails
  <2>1. IsFile(file')
    BY <1>6, BlankIsImage DEF WriteFails, IsFile
  <2> QED
    BY <1>6, <2>1, TypeDown DEF WriteFails
<1>7. CASE OpenApp
  BY <1>7 DEF OpenApp, IsFile
<1>8. CASE RefuseApp
  <2>1. CASE Down
    BY <1>8, <2>1, TypeDown DEF RefuseApp
  <2>2. CASE ~Down
    BY <1>8, <2>2 DEF RefuseApp, Skip
  <2> QED
    BY <2>1, <2>2
<1>9. CASE CreateMissingTable
  <2>1. PICK e \in MissingTables : db' = WithTable(db, e, CreateTable(schema[e]))
    BY <1>9 DEF CreateMissingTable
  <2>2. e \in EntityIds
    BY <1>9, <2>1 DEF CreateMissingTable, MissingTables, EntityIds
  <2>3. IsImage(db')
    BY <2>1, <2>2, WithTableIsImage, CreatedIsTable
  <2> QED
    BY <1>9, <2>3 DEF CreateMissingTable
<1>10. CASE CreateMissingIndex
  <2>1. PICK e \in DOMAIN schema :
          \E f : db' = [db EXCEPT !.tables[e].unique = @ \cup {f}]
    BY <1>10 DEF CreateMissingIndex
  <2>2. PICK f : db' = [db EXCEPT !.tables[e].unique = @ \cup {f}]
    BY <2>1
  <2>3. /\ db'.tables = [db.tables EXCEPT ![e].unique = @ \cup {f}]
        /\ db' = [tables |-> db'.tables, rows |-> db.rows, fp |-> db.fp]
    BY <2>2 DEF IsImage
  <2>4. \A x \in DOMAIN db.tables : IsTable(db'.tables[x])
    <3>1. ASSUME NEW x \in DOMAIN db.tables
          PROVE  IsTable(db'.tables[x])
      <4>1. CASE x = e
        <5>1. db'.tables[e] = [db.tables[e] EXCEPT !.unique = @ \cup {f}]
          BY <2>3, <4>1
        <5>2. IsTable(db.tables[e])
          BY <4>1 DEF IsImage
        <5> QED
          BY <4>1, <5>1, <5>2 DEF IsTable
      <4>2. CASE x # e
        BY <2>3, <4>2 DEF IsImage
      <4> QED
        BY <4>1, <4>2
    <3> QED
      BY <3>1
  <2>5. IsImage(db')
    <3>1. DOMAIN db'.tables = DOMAIN db.tables /\ db'.rows = db.rows /\ db'.fp = db.fp
      BY <2>3
    <3>2. db' = [tables |-> db'.tables, rows |-> db'.rows, fp |-> db'.fp]
      BY <2>3
    <3> QED
      BY <2>4, <3>1, <3>2 DEF IsImage
  <2> QED
    BY <1>10, <2>5 DEF CreateMissingIndex
<1>11. CASE RefuseIndex
  <2>1. CASE Down
    BY <1>11, <2>1, TypeDown, TypeFlush DEF RefuseIndex
  <2>2. CASE ~Down
    BY <1>11, <2>2, TypeFlush DEF RefuseIndex, Skip
  <2> QED
    BY <2>1, <2>2
<1>12. CASE AdoptFingerprint
  <2>1. db' = [tables |-> db.tables, rows |-> db.rows, fp |-> {Fingerprint(schema)}]
    BY <1>12 DEF AdoptFingerprint, IsImage
  <2>2. schema \in Manifests
    BY <1>12 DEF AdoptFingerprint
  <2>3. IsImage(db')
    BY <2>1, <2>2 DEF IsImage, IsOptional
  <2> QED
    BY <1>12, <2>3 DEF AdoptFingerprint, Register, Goto
<1>13. CASE AcceptSchema
  BY <1>13 DEF AcceptSchema, Register, Goto
<1>14. CASE RefuseSchema
  <2>1. CASE Down
    BY <1>14, <2>1, TypeDown, TypeFlush DEF RefuseSchema
  <2>2. CASE ~Down
    BY <1>14, <2>2, TypeFlush DEF RefuseSchema, Skip
  <2> QED
    BY <2>1, <2>2
<1>15. ASSUME NEW e \in DOMAIN schema, NEW r \in Rows, Write(e, r)
       PROVE  TypeOK' /\ Phases'
  <2>1. e \in DOMAIN db.rows /\ e \in EntityIds
    BY <1>15 DEF Write, IsImage
  <2>2. IsImage(db')
    BY <1>15, <2>1, WithRowIsImage DEF Write
  <2> QED
    BY <1>15, <2>1, <2>2 DEF Write
<1>16. CASE AutoCheckpoint
  BY <1>16, TypeFlush DEF AutoCheckpoint
<1>17. CASE NoChange
  BY <1>17, ManifestsAreValid DEF NoChange, NoApp, ValidManifest, Goto
<1>18. CASE RefusePlan
  BY <1>18, TypeDown DEF RefusePlan
<1>19. CASE AdmitPlan
  BY <1>19 DEF AdmitPlan, NoApp, ValidManifest, Goto
<1>20. CASE SnapshotCheckpoint
  BY <1>20, TypeFlush DEF SnapshotCheckpoint, Goto
<1>21. CASE SnapshotCreate
  <2>1. snaps' = [s \in DOMAIN snaps \cup {clock + 1} |->
                    IF s = clock + 1 THEN [whole |-> FALSE, image |-> Blank] ELSE snaps[s]]
    BY <1>21 DEF SnapshotCreate, WithSnapshot
  <2>2. job' \in [new : Manifests \cup {NoApp}, confirm : BOOLEAN,
                  witnesses : Witnesses \cup {NoApp}, snap : 0..clock']
    BY <1>21 DEF SnapshotCreate
  <2>3. DOMAIN snaps' \subseteq 1..clock'
    BY <1>21, <2>1 DEF SnapshotCreate
  <2>4. \A t \in DOMAIN snaps' : IsSnapshot(snaps'[t])
    BY <2>1, BlankIsImage DEF IsSnapshot
  <2> QED
    <3>1. TypeOK'
      <4>1. clock' \in Nat /\ pc' = "copy"
        BY <1>21 DEF SnapshotCreate
      <4>2. UNCHANGED <<manifest, file, db, mode, schema, acked, crashes, edits>>
        BY <1>21 DEF SnapshotCreate
      <4> QED
        BY <2>2, <2>3, <2>4, <4>1, <4>2
    <3>2. Phases'
      BY <1>21, <2>1 DEF SnapshotCreate
    <3> QED
      BY <3>1, <3>2
<1>22. CASE SnapshotCopy
  BY <1>22 DEF SnapshotCopy, WithSnapshot, Goto, IsFile, IsSnapshot
<1>23. CASE ExecuteNothing
  BY <1>23 DEF ExecuteNothing, Goto
<1>24. CASE ExecuteCommit
  <2>1. IsImage(db')
    BY <1>24, MigratedIsImage DEF ExecuteCommit
  <2> QED
    BY <1>24, <2>1 DEF ExecuteCommit, Goto
<1>25. CASE ExecuteFail
  <2>1. CASE Down
    BY <1>25, <2>1, TypeDown DEF ExecuteFail
  <2>2. CASE ~Down
    BY <1>25, <2>2 DEF ExecuteFail, Goto
  <2> QED
    BY <2>1, <2>2
<1>26. CASE RestoreClose
  BY <1>26, TypeFlush DEF RestoreClose, Goto
<1>27. CASE RestoreTruncate
  BY <1>27, BlankIsImage DEF RestoreTruncate, Goto, IsFile
<1>28. CASE RestoreCopy
  <2>1. IsImage(snaps[job.snap].image)
    BY <1>28 DEF RestoreCopy, IsSnapshot
  <2>2. IsFile(file')
    BY <1>28, <2>1 DEF RestoreCopy, IsFile
  <2>3. pc' = "down" /\ mode' = mode /\ schema' = NoApp /\ job' = NoJob
    BY <1>28 DEF RestoreCopy, Down
  <2> QED
    BY <1>28, <2>1, <2>2, <2>3 DEF RestoreCopy, NoJob
<1>29. CASE PromoteTruncate
  BY <1>29 DEF PromoteTruncate, Goto
<1>30. CASE PromoteWrite
  BY <1>30 DEF PromoteWrite
<1>31. CASE PruneOldest
  BY <1>31 DEF PruneOldest
<1>32. CASE PruneDone
  BY <1>32 DEF PruneDone, Goto
<1>33. CASE Finish
  BY <1>33, TypeFlush, TypeDown DEF Finish
<1>34. CASE UNCHANGED vars
  BY <1>34 DEF vars
<1> QED
  BY <1>1, <1>2, <1>3, <1>4, <1>5, <1>6, <1>7, <1>8, <1>9, <1>10, <1>11, <1>12, <1>13,
     <1>14, <1>15, <1>16, <1>17, <1>18, <1>19, <1>20, <1>21, <1>22, <1>23, <1>24, <1>25,
     <1>26, <1>27, <1>28, <1>29, <1>30, <1>31, <1>32, <1>33, <1>34
     DEF Next, Routine, Boot, Apply

\* The types hold for good: in particular the process never migrates, promotes
\* or restores without the job and the registered schema it needs, and every
\* snapshot on disk has a timestamp that was given out (apply.go:43-114).
THEOREM TypeCorrect == Spec => [](TypeOK /\ Phases)
BY TypeInit, TypeStep, PTL DEF Spec

-----------------------------------------------------------------------------
\* Adding rows to a database keeps the rows it holds.
LEMMA RowsOnlyGrow ==
  ASSUME NEW before, NEW after, NEW a,
         RowsOf(before, a[1]) \subseteq RowsOf(after, a[1]), Holds(before, a)
  PROVE  Holds(after, a)
BY DEF Holds

\* Nothing is acknowledged, and nothing is destroyed, at the start.
LEMMA DurableInit == Init => Durable
BY DEF Init, Durable, SnapshotInv, SnapshotIsNewest, SnapshotIsDatabase, AckedRowsKept, Snapshotting

\* A step that leaves the database, its file, the snapshots and the observer
\* alone, and takes the process neither into nor out of a protected phase.
LEMMA DurableDown ==
  Durable /\ Down /\ pc # "restore" /\ UNCHANGED <<db, snaps, acked>> /\ file'.state = file.state
  => Durable'
BY DEF Durable, SnapshotInv, Down, SnapshotIsNewest, SnapshotIsDatabase, AckedRowsKept, Snapshotting

\* The snapshot of the job under way is the newest, and holds the database from
\* its copy on: nothing else writes either until the transaction ends, wherever
\* a process may die.
LEMMA SnapshotStep ==
  ASSUME TypeOK, Phases, SnapshotInv, [Next]_vars
  PROVE  SnapshotInv'
<1> USE DEF SnapshotInv, SnapshotIsNewest, SnapshotIsDatabase, Snapshotting, Goto,
            disk, process, counters
<1>0. FlushLog => file'.image = db
  BY DEF FlushLog, TypeOK, IsFile
<1>1. ASSUME Down PROVE SnapshotInv'
  BY <1>1 DEF Down
<1>2. CASE StartServe
  BY <1>2 DEF StartServe
<1>3. ASSUME NEW new \in Manifests \cup {NoApp}, NEW confirm \in BOOLEAN, NEW w \in Witnesses,
             StartMigrate(new, confirm, w)
      PROVE  SnapshotInv'
  BY <1>3 DEF StartMigrate
<1>4. ASSUME NEW m \in HandEdits, EditManifest(m)
      PROVE  SnapshotInv'
  BY <1>4 DEF EditManifest
<1>5. CASE Crash \/ StopServe \/ WriteFails \/ RefusePlan \/ RestoreCopy \/ Finish
  BY <1>1, <1>5 DEF Crash, StopServe, WriteFails, RefusePlan, RestoreCopy, Finish
<1>6. CASE Boot
  BY <1>1, <1>6 DEF Boot, OpenApp, RefuseApp, CreateMissingTable, CreateMissingIndex, RefuseIndex,
                    AdoptFingerprint, AcceptSchema, RefuseSchema, Register, Skip
<1>7. ASSUME NEW e \in DOMAIN schema, NEW r \in Rows, Write(e, r)
      PROVE  SnapshotInv'
  BY <1>7 DEF Write
<1>8. CASE AutoCheckpoint
  BY <1>8 DEF AutoCheckpoint
<1>9. CASE NoChange \/ PromoteTruncate \/ PromoteWrite \/ PruneOldest \/ PruneDone
  BY <1>9 DEF NoChange, PromoteTruncate, PromoteWrite, PruneOldest, PruneDone
<1>10. CASE AdmitPlan
  BY <1>10 DEF AdmitPlan, Phases, Admitted
<1>11. CASE SnapshotCheckpoint
  BY <1>0, <1>11 DEF SnapshotCheckpoint
<1>12. CASE SnapshotCreate
  <2>1. job'.snap = clock + 1 /\ pc' = "copy"
    BY <1>12 DEF SnapshotCreate, TypeOK
  <2>2. DOMAIN snaps' = DOMAIN snaps \cup {clock + 1}
    BY <1>12 DEF SnapshotCreate, WithSnapshot
  <2>3. Newer(job.snap)' = {}
    BY <2>1, <2>2 DEF Newer, TypeOK
  <2> QED
    BY <1>12, <2>1, <2>3 DEF SnapshotCreate
<1>13. CASE SnapshotCopy
  <2>1. /\ DOMAIN snaps' = DOMAIN snaps
        /\ snaps'[job.snap] = [whole |-> TRUE, image |-> db]
    BY <1>13 DEF SnapshotCopy, WithSnapshot, Phases
  <2>2. Newer(job.snap)' = Newer(job.snap)
    BY <1>13, <2>1 DEF SnapshotCopy, Newer
  <2> QED
    BY <1>13, <2>1, <2>2 DEF SnapshotCopy, Phases
<1>14. CASE ExecuteNothing \/ ExecuteCommit
  BY <1>14 DEF ExecuteNothing, ExecuteCommit
<1>15. CASE ExecuteFail
  <2>1. CASE job.snap # 0 /\ Goto("close")
    BY <1>15, <2>1 DEF ExecuteFail, Newer
  <2> QED
    BY <1>1, <1>15, <2>1 DEF ExecuteFail
<1>16. CASE RestoreClose
  BY <1>16 DEF RestoreClose, Newer
<1>17. CASE RestoreTruncate
  BY <1>17 DEF RestoreTruncate, Newer
<1>18. CASE UNCHANGED vars
  BY <1>18 DEF vars, Newer
<1> QED
  BY <1>2, <1>3, <1>4, <1>5, <1>6, <1>7, <1>8, <1>9, <1>10, <1>11, <1>12, <1>13, <1>14,
     <1>15, <1>16, <1>17, <1>18 DEF Next, Routine, Apply

\* Every step keeps the durability invariant, action by action.
LEMMA DurableStep ==
  ASSUME RestoreIsUninterrupted, TypeOK, Phases, TypeOK', Durable, [Next]_vars
  PROVE  Durable'
<1> SUFFICES AckedRowsKept'
  BY SnapshotStep DEF Durable
<1> USE DEF Durable, SnapshotInv, SnapshotIsNewest, SnapshotIsDatabase, AckedRowsKept, Snapshotting, Goto,
            disk, process, counters
<1>0. FlushLog => file'.state = file.state /\ file'.image = db
  BY DEF FlushLog, TypeOK, IsFile
<1>1. CASE StartServe
  BY <1>1 DEF StartServe
<1>2. ASSUME NEW new \in Manifests \cup {NoApp}, NEW confirm \in BOOLEAN, NEW w \in Witnesses,
             StartMigrate(new, confirm, w)
      PROVE  AckedRowsKept'
  BY <1>2 DEF StartMigrate
<1>3. ASSUME NEW m \in HandEdits, EditManifest(m)
      PROVE  AckedRowsKept'
  BY <1>3 DEF EditManifest
<1>4. CASE Crash
  BY <1>4, DurableDown DEF Crash, RestoreIsUninterrupted
<1>5. CASE StopServe
  BY <1>5, DurableDown DEF StopServe
<1>6. CASE WriteFails
  BY <1>6, DurableDown DEF WriteFails, RestoreIsUninterrupted
<1>7. CASE OpenApp
  BY <1>7 DEF OpenApp, TypeOK, IsFile
<1>8. CASE RefuseApp
  BY <1>8, DurableDown DEF RefuseApp, Skip
<1>9. CASE CreateMissingTable
  <2>1. PICK e \in MissingTables : db' = WithTable(db, e, CreateTable(schema[e]))
    BY <1>9 DEF CreateMissingTable
  <2>2. e \in EntityIds
    BY <1>9, <2>1, NoAppIsNoManifest
    DEF CreateMissingTable, MissingTables, EntityIds, Phases, Admitted
  <2>3. \A a \in acked : Holds(db', a)
    BY <1>9, <2>1, <2>2, WithTableIsImage, CreatedIsTable, RowsOnlyGrow DEF CreateMissingTable, TypeOK
  <2> QED
    BY <1>9, <2>3 DEF CreateMissingTable
<1>10. CASE CreateMissingIndex
  <2>1. db'.rows = db.rows
    BY <1>10 DEF CreateMissingIndex, TypeOK, IsImage
  <2> QED
    BY <1>10, <2>1 DEF CreateMissingIndex, Holds, RowsOf
<1>11. CASE RefuseIndex
  BY <1>0, <1>11, DurableDown DEF RefuseIndex, Skip
<1>12. CASE AdoptFingerprint
  <2>1. db'.rows = db.rows
    BY <1>12 DEF AdoptFingerprint, TypeOK, IsImage
  <2> QED
    BY <1>12, <2>1 DEF AdoptFingerprint, Register, Holds, RowsOf
<1>13. CASE AcceptSchema
  BY <1>13 DEF AcceptSchema, Register
<1>14. CASE RefuseSchema
  BY <1>0, <1>14, DurableDown DEF RefuseSchema, Skip
<1>15. ASSUME NEW e \in DOMAIN schema, NEW r \in Rows, Write(e, r)
       PROVE  AckedRowsKept'
  <2>1. e \in DOMAIN db.rows /\ db' = WithRow(db, e, r)
    BY <1>15 DEF Write
  <2>2. \A a \in acked : Holds(db', a)
    BY <1>15, <2>1, WithRowIsImage, RowsOnlyGrow DEF Write, TypeOK
  <2>3. Holds(db', <<e, r>>)
    BY <2>1, WithRowIsImage DEF Holds, TypeOK
  <2> QED
    BY <1>15, <2>2, <2>3 DEF Write
<1>16. CASE AutoCheckpoint
  BY <1>0, <1>16 DEF AutoCheckpoint
<1>17. CASE NoChange
  BY <1>17 DEF NoChange
<1>18. CASE RefusePlan
  BY <1>18, DurableDown DEF RefusePlan
<1>19. CASE AdmitPlan
  BY <1>19 DEF AdmitPlan, Phases, Admitted
<1>20. CASE SnapshotCheckpoint
  BY <1>0, <1>20 DEF SnapshotCheckpoint
<1>21. CASE SnapshotCreate
  BY <1>21 DEF SnapshotCreate
<1>22. CASE SnapshotCopy
  BY <1>22 DEF SnapshotCopy
<1>23. CASE ExecuteNothing
  BY <1>23 DEF ExecuteNothing
<1>24. CASE ExecuteCommit
  <2>1. \A a \in acked' : a \in acked /\ a[1] \notin Dropped(schema, job.new)
    BY <1>24 DEF ExecuteCommit
  <2>2. \A a \in acked' : Holds(db', a)
    BY <1>24, <2>1, MigratedIsImage, RowsOnlyGrow
    DEF ExecuteCommit, TypeOK, Phases, Admitted
  <2> QED
    BY <1>24, <2>2 DEF ExecuteCommit
<1>25. CASE ExecuteFail
  <2>1. CASE Down
    BY <1>25, <2>1, DurableDown DEF ExecuteFail
  <2>2. CASE job.snap # 0 /\ Goto("close")
    BY <1>25, <2>2 DEF ExecuteFail
  <2> QED
    BY <1>25, <2>1, <2>2 DEF ExecuteFail
<1>26. CASE RestoreClose
  BY <1>0, <1>26 DEF RestoreClose
<1>27. CASE RestoreTruncate
  <2>1. snaps[job.snap] = [whole |-> TRUE, image |-> db] /\ (\A a \in acked : Holds(db, a))
    BY <1>27 DEF RestoreTruncate, Phases
  <2> QED
    BY <1>27, <2>1 DEF RestoreTruncate
<1>28. CASE RestoreCopy
  <2>1. pc' = "down" /\ file'.state = "ok"
    BY <1>28 DEF RestoreCopy, Down
  <2> QED
    BY <1>28, <2>1 DEF RestoreCopy
<1>29. CASE PromoteTruncate
  BY <1>29 DEF PromoteTruncate
<1>30. CASE PromoteWrite
  BY <1>30 DEF PromoteWrite
<1>31. CASE PruneOldest
  BY <1>31 DEF PruneOldest
<1>32. CASE PruneDone
  BY <1>32 DEF PruneDone
<1>33. CASE Finish
  BY <1>0, <1>33, DurableDown DEF Finish
<1>34. CASE UNCHANGED vars
  BY <1>34 DEF vars
<1> QED
  BY <1>1, <1>2, <1>3, <1>4, <1>5, <1>6, <1>7, <1>8, <1>9, <1>10, <1>11, <1>12, <1>13,
     <1>14, <1>15, <1>16, <1>17, <1>18, <1>19, <1>20, <1>21, <1>22, <1>23, <1>24, <1>25,
     <1>26, <1>27, <1>28, <1>29, <1>30, <1>31, <1>32, <1>33, <1>34
     DEF Next, Routine, Boot, Apply

\* The durability invariant holds for good.
LEMMA AlwaysDurable == ASSUME RestoreIsUninterrupted PROVE Spec => [](TypeOK /\ Phases /\ Durable)
<1>1. Init => Durable
  BY DurableInit
<1>2. TypeOK /\ Phases /\ TypeOK' /\ Durable /\ [Next]_vars => Durable'
  BY DurableStep
<1> QED
  BY <1>1, <1>2, TypeCorrect, PTL DEF Spec

\* A row a client was told is stored is there whenever the app is served
\* (execute.go:20-22, apply.go:94-101, snapshot.go:27-61), for good: through
\* migrations that succeed or fail, through restores, edits of the manifest and
\* crashes anywhere but in the middle of a restore.
THEOREM AckedRowsAlwaysServed == ASSUME RestoreIsUninterrupted PROVE Spec => []AckedRowsServed
<1>1. Durable => AckedRowsServed
  BY DEF Durable, AckedRowsKept, AckedRowsServed
<1> QED
  BY <1>1, AlwaysDurable, PTL

\* Whenever data.db is destroyed the newest snapshot is whole and holds every
\* acknowledged row (apply.go:84-101, snapshot.go:48-61).
THEOREM SnapshotAlwaysSavesRows == ASSUME RestoreIsUninterrupted PROVE Spec => []SnapshotSavesRows
<1>1. TypeOK /\ Phases /\ Durable => SnapshotSavesRows
  BY DEF Durable, SnapshotInv, SnapshotIsNewest, AckedRowsKept, SnapshotSavesRows, Phases, Snapshotting
<1> QED
  BY <1>1, AlwaysDurable, PTL

-----------------------------------------------------------------------------
(***************************************************************************)
(* Schemas: what the constants take for granted.                           *)
(***************************************************************************)
\* A field keeps its bounds, which Diff does not compare, unless its table is rebuilt.
BoundsAreKept == \A old, new \in Manifests : BoundsAgree(old, new)

\* No two enums join to one list, so that a fingerprint tells them apart.
EnumsAreTold == \A m1, m2 \in Manifests : EnumsToldApart(m1, m2)

\* No process ends between the commit of a changeset and its promotion.
PromotionIsUninterrupted == {"promote", "write"} \cap (CrashPoints \cup FaultPoints) = {}

-----------------------------------------------------------------------------
(***************************************************************************)
(* The inductive invariant.  The database is at the registered schema from *)
(* the moment it is accepted, at the new one from its commit on, and a     *)
(* database no fingerprint was recorded in has no table but its manifest's.*)
(***************************************************************************)
At(image, m) == image.fp = {Fingerprint(m)} /\ Conforms(image.tables, m)

Fresh(tables, m) ==
  \A e \in DOMAIN tables :
    /\ e \in DOMAIN m
    /\ tables[e] = [cols |-> CreateTable(m[e]).cols, unique |-> tables[e].unique]
    /\ tables[e].unique \subseteq UniqueFields(m[e])

Accepted == {"serving", "plan", "checkpoint", "create", "copy", "execute", "close", "truncate",
             "prune", "finish"}

SchemaInv ==
  edits = 0 =>
    /\ pc \in Accepted \cup {"ddl", "promote", "restore"} =>
         manifest = [whole |-> TRUE, content |-> schema]
    /\ db.fp = {} => Fresh(db.tables, manifest.content)
    /\ manifest.whole /\ db.fp = {Fingerprint(manifest.content)} =>
         Conforms(db.tables, manifest.content)
    /\ pc \in Accepted => At(db, schema)
    /\ pc \in {"promote", "write"} => At(db, job.new)
    /\ pc = "restore" => /\ db = Blank
                         /\ At(snaps[job.snap].image, schema)

(***************************************************************************)
(* With edits.  A database with a fingerprint enforces some manifest, with *)
(* whatever refused boots have left beside it, and manifest.json need not  *)
(* be that one; one without has nothing in it, or what boots of the        *)
(* manifest that is still there have created so far.                       *)
(***************************************************************************)
Under(image, m) == image.fp = {Fingerprint(m)} /\ Enforced(image.tables, m)

Upgrading == {"plan", "checkpoint", "create", "copy", "execute", "close", "truncate", "restore",
              "promote"}

TruthInv ==
  /\ db.fp # {} => \E m \in Manifests : Under(db, m)
  /\ HalfBorn => manifest.whole /\ Fresh(db.tables, manifest.content)
  /\ pc \in Upgrading \cup {"ddl"} => manifest = [whole |-> TRUE, content |-> schema]
  /\ pc \in Accepted => Under(db, schema)
  /\ pc \in {"promote", "write"} => Under(db, job.new)
  /\ pc = "restore" => /\ db = Blank
                       /\ Under(snaps[job.snap].image, schema)

\* Outside a promotion the manifest is whole and the database is not ahead of it.
SettledInv ==
  edits = 0 =>
    /\ pc # "write" => manifest.whole
    /\ pc \notin {"promote", "write"} => db.fp \subseteq {Fingerprint(manifest.content)}

\* A changeset reaches its execution as the gate of Apply let it.
GateInv ==
  /\ pc \in {"checkpoint", "create", "copy", "close", "truncate"} => Permitted
  /\ pc = "execute" => /\ job.snap # 0 => Permitted
                       /\ HasDestructive(schema, job.new) => job.snap # 0

-----------------------------------------------------------------------------
(***************************************************************************)
(* Databases.                                                              *)
(***************************************************************************)
\* The registered manifest and the new one are valid, and Diff can tell them
\* apart.
LEMMA ManifestPairs ==
  ASSUME BoundsAreKept, NEW old \in Manifests, NEW new \in Manifests
  PROVE  ValidManifest(old) /\ ValidManifest(new) /\ BoundsAgree(old, new)
BY ManifestsAreValid DEF BoundsAreKept

\* A manifest's fingerprint on a database that enforces another with the same
\* fingerprint tells the truth.
LEMMA OtherManifests ==
  ASSUME EnumsAreTold, NEW image, NEW m1 \in Manifests, NEW m2 \in Manifests,
         image.fp = {Fingerprint(m1)}, image.fp = {Fingerprint(m2)}
  PROVE  /\ Conforms(image.tables, m1) => Conforms(image.tables, m2)
         /\ Enforced(image.tables, m1) => Enforced(image.tables, m2)
<1>1. Fingerprint(m1) = Fingerprint(m2)
  OBVIOUS
<1> QED
  BY <1>1, FingerprintTells DEF EnumsAreTold

\* What the transaction of a changeset leaves.
LEMMA MigratedContents ==
  ASSUME NEW image, NEW old, NEW new
  PROVE  /\ MigratedImage(image, old, new).tables = ApplyChangeset(image.tables, old, new)
         /\ MigratedImage(image, old, new).fp = {Fingerprint(new)}
<1> DEFINE tables == ApplyChangeset(image.tables, old, new)
           mid == WithTables(image, tables)
<1>1. mid = [tables |-> tables, rows |-> [e \in DOMAIN tables |-> RowsOf(image, e)], fp |-> image.fp]
  BY DEF WithTables
<1>2. MigratedImage(image, old, new) = [mid EXCEPT !.fp = {Fingerprint(new)}]
  BY DEF MigratedImage
<1> HIDE DEF tables
<1>3. /\ MigratedImage(image, old, new).tables = tables
      /\ MigratedImage(image, old, new).fp = {Fingerprint(new)}
  BY <1>1, <1>2
<1> QED
  BY <1>3 DEF tables

\* The transaction of a changeset takes a database from the old manifest to the
\* new one.
LEMMA CommitUpgrades ==
  ASSUME BoundsAreKept, NEW old \in Manifests, NEW new \in Manifests, NEW image, IsImage(image),
         At(image, old), ~ChangesetRefused(image.tables, old, new)
  PROVE  /\ At(MigratedImage(image, old, new), new)
         /\ MigratedImage(image, old, new).tables = ApplyChangeset(image.tables, old, new)
<1>1. Conforms(ApplyChangeset(image.tables, old, new), new)
  BY ManifestPairs, ExecutorIsSound DEF At
<1> QED
  BY <1>1, MigratedContents DEF At

\* Where tables of no entity are about, it does as long as those of added ones fit.
LEMMA CommitEnforces ==
  ASSUME BoundsAreKept, NEW old \in Manifests, NEW new \in Manifests, NEW image, IsImage(image),
         Under(image, old), ~ChangesetRefused(image.tables, old, new),
         AdoptionsFit(image.tables, old, new)
  PROVE  Under(MigratedImage(image, old, new), new)
<1>1. Enforced(ApplyChangeset(image.tables, old, new), new)
  BY ManifestPairs, ExecutorEnforces DEF Under, IsImage
<1> QED
  BY <1>1, MigratedContents DEF Under

\* ApplyDDL on a new database: what is there is the manifest's, so that when
\* nothing is missing the database enforces the manifest.
LEMMA FreshIsComplete ==
  ASSUME NEW tables, NEW m, Fresh(tables, m), DOMAIN m \subseteq DOMAIN tables,
         \A e \in DOMAIN m : UniqueFields(m[e]) \subseteq tables[e].unique
  PROVE  Conforms(tables, m)
<1>1. DOMAIN tables = DOMAIN m
  BY DEF Fresh
<1>2. ASSUME NEW e \in DOMAIN m
      PROVE  TableConforms(tables[e], m[e])
  <2>1. tables[e].cols = CreateTable(m[e]).cols /\ tables[e].unique = UniqueFields(m[e])
    BY <1>1 DEF Fresh
  <2> QED
    BY <2>1, NewColumns DEF CreateTable, TableConforms
<1> QED
  BY <1>1, <1>2 DEF Conforms

\* Creating one of the manifest's tables keeps it so.
LEMMA FreshWithTable ==
  ASSUME NEW tables, NEW m, Fresh(tables, m), NEW e \in DOMAIN m
  PROVE  Fresh([x \in DOMAIN tables \cup {e} |-> IF x = e THEN CreateTable(m[e]) ELSE tables[x]], m)
<1> DEFINE after == [x \in DOMAIN tables \cup {e} |-> IF x = e THEN CreateTable(m[e]) ELSE tables[x]]
<1>1. /\ CreateTable(m[e]) = [cols |-> CreateTable(m[e]).cols, unique |-> CreateTable(m[e]).unique]
      /\ CreateTable(m[e]).unique = {}
  BY DEF CreateTable
<1>2. ASSUME NEW x \in DOMAIN after
      PROVE  /\ x \in DOMAIN m
             /\ after[x] = [cols |-> CreateTable(m[x]).cols, unique |-> after[x].unique]
             /\ after[x].unique \subseteq UniqueFields(m[x])
  <2>1. CASE x = e
    BY <1>1, <2>1
  <2>2. CASE x # e
    <3>1. x \in DOMAIN tables /\ after[x] = tables[x]
      BY <2>2
    <3> QED
      BY <3>1 DEF Fresh
  <2> QED
    BY <2>1, <2>2
<1> QED
  BY <1>2 DEF Fresh

\* So does creating one of its indexes.
LEMMA FreshWithIndex ==
  ASSUME NEW tables, NEW m, Fresh(tables, m), NEW e \in DOMAIN tables, NEW f \in UniqueFields(m[e])
  PROVE  Fresh([tables EXCEPT ![e].unique = @ \cup {f}], m)
<1> DEFINE after == [tables EXCEPT ![e].unique = @ \cup {f}]
<1>1. tables[e] = [cols |-> CreateTable(m[e]).cols, unique |-> tables[e].unique]
  BY DEF Fresh
<1>2. after[e] = [cols |-> CreateTable(m[e]).cols, unique |-> tables[e].unique \cup {f}]
  BY <1>1
<1>3. DOMAIN after = DOMAIN tables /\ \A x \in DOMAIN tables : x # e => after[x] = tables[x]
  OBVIOUS
<1>4. ASSUME NEW x \in DOMAIN after
      PROVE  /\ x \in DOMAIN m
             /\ after[x] = [cols |-> CreateTable(m[x]).cols, unique |-> after[x].unique]
             /\ after[x].unique \subseteq UniqueFields(m[x])
  <2> HIDE DEF after
  <2>1. CASE x = e
    BY <1>2, <2>1 DEF Fresh
  <2>2. CASE x # e
    BY <1>3, <2>2 DEF Fresh
  <2> QED
    BY <2>1, <2>2
<1> QED
  BY <1>4 DEF Fresh

\* Where the manifest is enforced ApplyDDL finds nothing to do.
LEMMA NothingMissing ==
  ASSUME NEW tables, NEW m, Conforms(tables, m)
  PROVE  DOMAIN m \ DOMAIN tables = {} /\ \A e \in DOMAIN m : UniqueFields(m[e]) \ tables[e].unique = {}
BY DEF Conforms, TableConforms

-----------------------------------------------------------------------------
(***************************************************************************)
(* What is served is what the manifest says.                               *)
(***************************************************************************)
\* No database, no process.
LEMMA SchemaInit == Init => SchemaInv
BY DEF Init, SchemaInv, Accepted, Blank, NoApp, Fresh, At

\* A process that ends, or skips the app, leaves database and manifest.
LEMMA SchemaIdle ==
  ASSUME SchemaInv, pc' \in {"down", "skipped", "load"}, UNCHANGED <<manifest, db>>,
         edits' = 0 => edits = 0
  PROVE  SchemaInv'
BY DEF SchemaInv, Accepted

\* So does one that goes on with an accepted database.
LEMMA SchemaGoesOn ==
  ASSUME SchemaInv, pc \in Accepted, pc' \in Accepted, UNCHANGED <<manifest, db, schema>>,
         edits' = 0 => edits = 0
  PROVE  SchemaInv'
BY DEF SchemaInv, Accepted

\* The steps of a boot.
LEMMA SchemaBoot ==
  ASSUME TypeOK, Phases, SchemaInv, Boot
  PROVE  SchemaInv'
<1> SUFFICES ASSUME edits = 0 PROVE SchemaInv'
  BY DEF Boot, OpenApp, RefuseApp, CreateMissingTable, CreateMissingIndex, RefuseIndex,
         AdoptFingerprint, AcceptSchema, RefuseSchema, counters, disk, SchemaInv
<1> USE DEF disk, process, counters
<1>1. CASE OpenApp
  BY <1>1 DEF OpenApp, SchemaInv, Accepted, TypeOK
<1>2. CASE RefuseApp
  BY <1>2, SchemaIdle DEF RefuseApp, Skip, Down
<1>3. CASE RefuseIndex
  BY <1>3, SchemaIdle DEF RefuseIndex, Skip, Down
<1>4. CASE RefuseSchema
  BY <1>4, SchemaIdle DEF RefuseSchema, Skip, Down
<1>5. CASE CreateMissingTable
  <2>1. PICK e \in MissingTables : db' = WithTable(db, e, CreateTable(schema[e]))
    BY <1>5 DEF CreateMissingTable
  <2>2. manifest = [whole |-> TRUE, content |-> schema] /\ pc' = "ddl"
    BY <1>5 DEF CreateMissingTable, SchemaInv
  <2>3. /\ db'.fp = db.fp
        /\ db'.tables = [x \in DOMAIN db.tables \cup {e} |->
                           IF x = e THEN CreateTable(schema[e]) ELSE db.tables[x]]
    BY <2>1 DEF WithTable, WithTables
  <2>4. db.fp # {Fingerprint(schema)}
    BY <2>1, <2>2, NothingMissing DEF SchemaInv, MissingTables
  <2>5. db.fp = {} => Fresh(db'.tables, schema)
    <3>1. SUFFICES ASSUME db.fp = {} PROVE Fresh(db'.tables, schema)
      OBVIOUS
    <3>2. Fresh(db.tables, schema)
      BY <2>2, <3>1 DEF SchemaInv
    <3>3. e \in DOMAIN schema /\ e \notin DOMAIN db.tables
      BY <2>1 DEF MissingTables
    <3> QED
      BY <2>3, <3>2, <3>3, FreshWithTable
  <2> QED
    BY <1>5, <2>2, <2>3, <2>4, <2>5 DEF CreateMissingTable, SchemaInv, Accepted
<1>6. CASE CreateMissingIndex
  <2>1. PICK e \in DOMAIN schema : \E f \in MissingIndexes(e) :
          db' = [db EXCEPT !.tables[e].unique = @ \cup {f}]
    BY <1>6 DEF CreateMissingIndex
  <2>2. PICK f \in MissingIndexes(e) : db' = [db EXCEPT !.tables[e].unique = @ \cup {f}]
    BY <2>1
  <2>3. manifest = [whole |-> TRUE, content |-> schema] /\ pc' = "ddl"
    BY <1>6 DEF CreateMissingIndex, SchemaInv
  <2>4. e \in DOMAIN db.tables
    BY <1>6, <2>1 DEF CreateMissingIndex, MissingTables
  <2>5. /\ db'.fp = db.fp
        /\ db'.tables = [db.tables EXCEPT ![e].unique = @ \cup {f}]
    BY <2>2 DEF TypeOK, IsImage
  <2>6. db.fp # {Fingerprint(schema)}
    BY <2>2, <2>3, NothingMissing DEF SchemaInv, MissingIndexes
  <2>7. db.fp = {} => Fresh(db'.tables, schema)
    <3>1. SUFFICES ASSUME db.fp = {} PROVE Fresh(db'.tables, schema)
      OBVIOUS
    <3>2. Fresh(db.tables, schema)
      BY <2>3, <3>1 DEF SchemaInv
    <3>3. f \in UniqueFields(schema[e])
      BY <2>2 DEF MissingIndexes
    <3> QED
      BY <2>4, <2>5, <3>2, <3>3, FreshWithIndex
  <2> QED
    BY <1>6, <2>3, <2>5, <2>6, <2>7 DEF CreateMissingIndex, SchemaInv, Accepted
<1>7. CASE AdoptFingerprint
  <2>1. /\ db.fp = {} /\ pc = "ddl" /\ pc' \in Accepted /\ Materialized
        /\ db' = [tables |-> db.tables, rows |-> db.rows, fp |-> {Fingerprint(schema)}]
        /\ UNCHANGED <<manifest, schema>>
    BY <1>7 DEF AdoptFingerprint, Register, Goto, Accepted, TypeOK, IsImage
  <2>2. manifest = [whole |-> TRUE, content |-> schema] /\ Fresh(db.tables, schema)
    BY <2>1 DEF SchemaInv
  <2>3. Conforms(db.tables, schema)
    BY <2>1, <2>2, FreshIsComplete DEF Materialized, MissingTables, MissingIndexes
  <2> QED
    BY <2>1, <2>2, <2>3 DEF SchemaInv, Accepted, At
<1>8. CASE AcceptSchema
  <2>1. /\ db.fp = {Fingerprint(schema)} /\ pc = "ddl" /\ pc' \in Accepted
        /\ UNCHANGED <<manifest, db, schema>>
    BY <1>8 DEF AcceptSchema, Register, Goto, Accepted
  <2> QED
    BY <2>1 DEF SchemaInv, Accepted, At
<1> QED
  BY <1>1, <1>2, <1>3, <1>4, <1>5, <1>6, <1>7, <1>8 DEF Boot

\* Every step keeps the invariant, wherever a process dies.
LEMMA SchemaStep ==
  ASSUME BoundsAreKept, EnumsAreTold, TypeOK, Phases, SnapshotInv, SchemaInv, [Next]_vars
  PROVE  SchemaInv'
<1> USE DEF disk, process, counters, Goto
<1>1. CASE StartServe
  BY <1>1, SchemaIdle DEF StartServe
<1>2. ASSUME NEW new \in Manifests \cup {NoApp}, NEW confirm \in BOOLEAN, NEW w \in Witnesses,
             StartMigrate(new, confirm, w)
      PROVE  SchemaInv'
  BY <1>2, SchemaIdle DEF StartMigrate
<1>3. ASSUME NEW m \in HandEdits, EditManifest(m)
      PROVE  SchemaInv'
  BY <1>3 DEF EditManifest, SchemaInv, TypeOK
<1>4. CASE Crash \/ StopServe \/ WriteFails \/ RefusePlan \/ Finish
  BY <1>4, SchemaIdle DEF Crash, StopServe, WriteFails, RefusePlan, Finish, Down
<1>5. CASE Boot
  BY <1>5, SchemaBoot
<1>6. ASSUME NEW e \in DOMAIN schema, NEW r \in Rows, Write(e, r)
      PROVE  SchemaInv'
  <2>1. db'.tables = db.tables /\ db'.fp = db.fp
    BY <1>6 DEF Write, WithRow, TypeOK, IsImage
  <2> QED
    BY <1>6, <2>1 DEF Write, SchemaInv, Accepted, At
<1>7. CASE AutoCheckpoint
  BY <1>7, SchemaGoesOn DEF AutoCheckpoint, Accepted
<1>8. CASE NoChange \/ AdmitPlan \/ SnapshotCheckpoint \/ SnapshotCreate \/ SnapshotCopy
           \/ RestoreClose \/ PruneOldest \/ PruneDone
  BY <1>8, SchemaGoesOn
  DEF NoChange, AdmitPlan, SnapshotCheckpoint, SnapshotCreate, SnapshotCopy, RestoreClose,
      PruneOldest, PruneDone, Accepted
<1>9. CASE ExecuteNothing
  <2>1. schema \in Manifests /\ job.new \in Manifests /\ AllNoSQL(schema, job.new)
    BY <1>9 DEF ExecuteNothing, Phases, Admitted, Snapshotting
  <2>2. At(db, schema) => At(db, job.new)
    BY <2>1, ManifestPairs, RenamesChangeNothing DEF At
  <2> QED
    BY <1>9, <2>2 DEF ExecuteNothing, SchemaInv, Accepted
<1>10. CASE ExecuteCommit
  <2>1. schema \in Manifests /\ job.new \in Manifests
    BY <1>10 DEF ExecuteCommit, Phases, Admitted, Snapshotting
  <2>2. /\ pc = "execute" /\ pc' = "promote" /\ db' = MigratedImage(db, schema, job.new)
        /\ ~ChangesetRefused(db.tables, schema, job.new)
        /\ UNCHANGED <<manifest, schema, job, edits>>
    BY <1>10 DEF ExecuteCommit
  <2>3. SUFFICES ASSUME edits = 0 PROVE SchemaInv'
    BY <2>2 DEF SchemaInv
  <2>4. manifest = [whole |-> TRUE, content |-> schema] /\ At(db, schema)
    BY <2>2, <2>3 DEF SchemaInv, Accepted
  <2>5. At(db', job.new)
    BY <2>1, <2>2, <2>4, CommitUpgrades DEF TypeOK
  <2>6. db'.fp = {Fingerprint(schema)} => Conforms(db'.tables, schema)
    BY <2>1, <2>5, OtherManifests DEF At
  <2>7. db'.fp # {}
    BY <2>5 DEF At
  <2> QED
    BY <2>2, <2>4, <2>5, <2>6, <2>7 DEF SchemaInv, Accepted
<1>11. CASE ExecuteFail
  <2>1. CASE Down
    BY <1>11, <2>1, SchemaIdle DEF ExecuteFail, Down
  <2>2. CASE ~Down
    BY <1>11, <2>2, SchemaGoesOn DEF ExecuteFail, Accepted
  <2> QED
    BY <2>1, <2>2
<1>12. CASE RestoreTruncate
  <2>1. /\ pc = "truncate" /\ pc' = "restore" /\ db' = Blank
        /\ UNCHANGED <<manifest, schema, snaps, job, edits>>
    BY <1>12 DEF RestoreTruncate
  <2>2. snaps[job.snap].image = db
    BY <2>1 DEF SnapshotInv, SnapshotIsDatabase, Phases
  <2>3. Blank.fp = {} /\ \A m : Fresh(Blank.tables, m)
    BY DEF Blank, NoApp, Fresh
  <2> QED
    BY <2>1, <2>2, <2>3 DEF SchemaInv, Accepted
<1>13. CASE RestoreCopy
  <2>1. /\ pc = "restore" /\ pc' = "down" /\ db' = snaps[job.snap].image
        /\ UNCHANGED <<manifest, edits>>
    BY <1>13 DEF RestoreCopy, Down
  <2>2. edits = 0 => /\ manifest = [whole |-> TRUE, content |-> schema]
                     /\ db'.fp # {} /\ Conforms(db'.tables, schema)
    BY <2>1 DEF SchemaInv, At
  <2> QED
    BY <2>1, <2>2 DEF SchemaInv, Accepted
<1>14. CASE PromoteTruncate
  <2>1. /\ pc = "promote" /\ pc' = "write" /\ manifest' = [whole |-> FALSE, content |-> NoApp]
        /\ UNCHANGED <<db, job, edits>>
    BY <1>14 DEF PromoteTruncate
  <2>2. edits = 0 => At(db, job.new) /\ db.fp # {}
    BY <2>1 DEF SchemaInv, At
  <2> QED
    BY <2>1, <2>2 DEF SchemaInv, Accepted
<1>15. CASE PromoteWrite
  <2>1. /\ pc = "write" /\ pc' \in Accepted /\ manifest' = [whole |-> TRUE, content |-> job.new]
        /\ schema' = job.new /\ UNCHANGED <<db, job, edits>>
    BY <1>15 DEF PromoteWrite, Accepted
  <2>2. edits = 0 => At(db, job.new) /\ db.fp # {}
    BY <2>1 DEF SchemaInv, At
  <2> QED
    BY <2>1, <2>2 DEF SchemaInv, Accepted, At
<1>16. CASE UNCHANGED vars
  BY <1>16 DEF vars, SchemaInv, Accepted
<1> QED
  BY <1>1, <1>2, <1>3, <1>4, <1>5, <1>6, <1>7, <1>8, <1>9, <1>10, <1>11, <1>12, <1>13, <1>14,
     <1>15, <1>16 DEF Next, Routine, Apply

\* Together with what it rests on, the invariant holds for good.
LEMMA AlwaysAtSchema ==
  ASSUME BoundsAreKept, EnumsAreTold
  PROVE  Spec => [](TypeOK /\ Phases /\ SnapshotInv /\ SchemaInv)
<1>1. Init => SnapshotInv /\ SchemaInv
  BY DurableInit, SchemaInit DEF Durable
<1>2. TypeOK /\ Phases /\ SnapshotInv /\ [Next]_vars => SnapshotInv'
  BY SnapshotStep
<1>3. TypeOK /\ Phases /\ SnapshotInv /\ SchemaInv /\ [Next]_vars => SchemaInv'
  BY SchemaStep
<1> QED
  BY <1>1, <1>2, <1>3, TypeCorrect, PTL DEF Spec

\* Nobody edits the manifest where there are no edits to make.
LEMMA NoEdits == ASSUME HandEdits = {} PROVE Spec => [](edits = 0)
<1>1. Init => edits = 0
  BY DEF Init
<1>2. edits = 0 /\ [Next]_vars => (edits = 0)'
  <2> SUFFICES ASSUME edits = 0, [Next]_vars PROVE (edits = 0)'
    OBVIOUS
  <2> USE DEF counters
  <2>1. CASE Boot
    BY <2>1 DEF Boot, OpenApp, RefuseApp, CreateMissingTable, CreateMissingIndex, RefuseIndex,
                AdoptFingerprint, AcceptSchema, RefuseSchema
  <2>2. CASE Apply
    BY <2>2 DEF Apply, NoChange, RefusePlan, AdmitPlan, SnapshotCheckpoint, SnapshotCreate,
                SnapshotCopy, ExecuteNothing, ExecuteFail, RestoreClose,
                RestoreTruncate, RestoreCopy, PromoteTruncate, PromoteWrite, PruneOldest,
                PruneDone, Finish
  <2>3. CASE UNCHANGED vars
    BY <2>3 DEF vars
  <2> QED
    BY <2>1, <2>2, <2>3
    DEF Next, Routine, ExecuteCommit, StartServe, StartMigrate, Crash, StopServe, WriteFails, Write,
        AutoCheckpoint
<1> QED
  BY <1>1, <1>2, PTL DEF Spec

\* An app whose manifest nobody edits is served, and migrated, only over a
\* database that enforces it (boot.go:38-51), wherever migrations before died:
\* between the database and the manifest, in the middle of a restore, anywhere.
THEOREM ServedSchemaAlwaysHolds ==
  ASSUME BoundsAreKept, EnumsAreTold, HandEdits = {}
  PROVE  Spec => []ServedSchemaHolds
<1>1. SchemaInv /\ edits = 0 => ServedSchemaHolds
  BY DEF SchemaInv, Accepted, At, ServedSchemaHolds
<1> QED
  BY <1>1, AlwaysAtSchema, NoEdits, PTL

-----------------------------------------------------------------------------
(***************************************************************************)
(* No app is left half-migrated.                                           *)
(***************************************************************************)
\* Every step keeps the database and the manifest together, as long as no
\* process ends between the commit and the promotion.
LEMMA SettledStep ==
  ASSUME PromotionIsUninterrupted, TypeOK, SchemaInv, SettledInv, [Next]_vars
  PROVE  SettledInv'
<1> USE DEF SettledInv, disk, process, counters, Goto
<1>1. CASE Crash \/ WriteFails
  BY <1>1 DEF Crash, WriteFails, Down, PromotionIsUninterrupted
<1>2. CASE StartServe \/ StopServe \/ AutoCheckpoint
  BY <1>2 DEF StartServe, StopServe, Down, AutoCheckpoint
<1>3. ASSUME NEW new \in Manifests \cup {NoApp}, NEW confirm \in BOOLEAN, NEW w \in Witnesses,
             StartMigrate(new, confirm, w)
      PROVE  SettledInv'
  BY <1>3 DEF StartMigrate
<1>4. ASSUME NEW m \in HandEdits, EditManifest(m)
      PROVE  SettledInv'
  BY <1>4 DEF EditManifest, TypeOK
<1>5. CASE OpenApp \/ RefuseApp \/ RefuseIndex \/ RefuseSchema
  BY <1>5 DEF OpenApp, RefuseApp, RefuseIndex, RefuseSchema, Skip, Down
<1>6. CASE CreateMissingTable
  BY <1>6 DEF CreateMissingTable, WithTable, WithTables
<1>7. CASE CreateMissingIndex
  BY <1>7 DEF CreateMissingIndex, TypeOK, IsImage
<1>8. CASE AdoptFingerprint
  <2>1. db'.fp = {Fingerprint(schema)}
    BY <1>8 DEF AdoptFingerprint, TypeOK, IsImage
  <2> QED
    BY <1>8, <2>1 DEF AdoptFingerprint, Register, SchemaInv
<1>9. CASE AcceptSchema
  BY <1>9 DEF AcceptSchema, Register
<1>10. ASSUME NEW e \in DOMAIN schema, NEW r \in Rows, Write(e, r)
       PROVE  SettledInv'
  BY <1>10 DEF Write, WithRow, TypeOK, IsImage
<1>11. CASE NoChange \/ RefusePlan \/ AdmitPlan \/ SnapshotCheckpoint \/ SnapshotCreate
            \/ SnapshotCopy \/ ExecuteNothing \/ ExecuteFail \/ RestoreClose \/ PruneOldest
            \/ PruneDone \/ Finish
  BY <1>11 DEF NoChange, RefusePlan, AdmitPlan, SnapshotCheckpoint, SnapshotCreate, SnapshotCopy,
               ExecuteNothing, ExecuteFail, RestoreClose, PruneOldest, PruneDone, Finish, Down
<1>12. CASE ExecuteCommit
  BY <1>12 DEF ExecuteCommit
<1>13. CASE RestoreTruncate
  BY <1>13 DEF RestoreTruncate, Blank
<1>14. CASE RestoreCopy
  BY <1>14 DEF RestoreCopy, Down, SchemaInv, At
<1>15. CASE PromoteTruncate
  BY <1>15 DEF PromoteTruncate
<1>16. CASE PromoteWrite
  BY <1>16 DEF PromoteWrite, SchemaInv, At
<1>17. CASE UNCHANGED vars
  BY <1>17 DEF vars
<1> QED
  BY <1>1, <1>2, <1>3, <1>4, <1>5, <1>6, <1>7, <1>8, <1>9, <1>10, <1>11, <1>12, <1>13, <1>14,
     <1>15, <1>16, <1>17 DEF Next, Routine, Boot, Apply

\* So the two are together for good.
LEMMA AlwaysSettled ==
  ASSUME BoundsAreKept, EnumsAreTold, PromotionIsUninterrupted
  PROVE  Spec => []SettledInv
<1>1. Init => SettledInv
  <2> SUFFICES ASSUME Init PROVE SettledInv
    OBVIOUS
  <2>1. PICK m \in Manifests : manifest = [whole |-> TRUE, content |-> m]
    BY DEF Init
  <2> QED
    BY <2>1 DEF Init, SettledInv, Blank
<1>2. TypeOK /\ SchemaInv /\ SettledInv /\ [Next]_vars => SettledInv'
  BY SettledStep
<1> QED
  BY <1>1, <1>2, AlwaysAtSchema, PTL DEF Spec

\* When no process runs, the manifest is whole and the database is the
\* manifest's (schema-migration/spec.md:27-38), until an operator edits it: the
\* failure of a migration, its restore and a death before its commit take the
\* app back, and from the commit on it is at the new manifest.
THEOREM NeverLeftHalfMigrated ==
  ASSUME BoundsAreKept, EnumsAreTold, PromotionIsUninterrupted
  PROVE  Spec => []NeverHalfMigrated
<1>1. SchemaInv /\ SettledInv => NeverHalfMigrated
  BY DEF SchemaInv, SettledInv, NeverHalfMigrated
<1> QED
  BY <1>1, AlwaysAtSchema, AlwaysSettled, PTL

-----------------------------------------------------------------------------
(***************************************************************************)
(* The truth under edits.  An operator may write any manifest over         *)
(* manifest.json whenever no migration is under way, and a boot may find   *)
(* it beside a database that is another's, create its tables and indexes   *)
(* there and refuse it only then.  What the fingerprint stands for is      *)
(* there nevertheless, and what is served is enforced.                     *)
(***************************************************************************)
\* Reasonable steps are steps.
LEMMA CarefulIsNext == [CarefulNext]_vars => [Next]_vars
  BY DEF CarefulNext, CarefulEdit, CarefulCommit, Next

LEMMA CarefulIsSpec == CarefulSpec => Spec
  BY CarefulIsNext, PTL DEF CarefulSpec, Spec

\* No database, no process.
LEMMA TruthInit == Init => TruthInv
BY DEF Init, TruthInv, HalfBorn, Upgrading, Accepted, Blank, NoApp

\* A process that ends, or skips the app, leaves database and manifest.
LEMMA TruthIdle ==
  ASSUME TruthInv, pc' \in {"down", "skipped", "load"}, UNCHANGED <<manifest, db>>
  PROVE  TruthInv'
BY DEF TruthInv, HalfBorn, Accepted, Upgrading

\* So does one that goes on with an accepted database.
LEMMA TruthGoesOn ==
  ASSUME TruthInv, pc \in Accepted, pc' \in Accepted, pc' \in Upgrading => pc \in Upgrading,
         UNCHANGED <<manifest, db, schema>>
  PROVE  TruthInv'
BY DEF TruthInv, HalfBorn, Accepted, Upgrading

\* What a boot finds in a database without a fingerprint is its own manifest's.
LEMMA BornUnderSchema ==
  ASSUME TruthInv, pc = "ddl", db.fp = {}
  PROVE  Fresh(db.tables, schema)
<1>1. CASE HalfBorn
  BY <1>1 DEF TruthInv
<1>2. CASE ~HalfBorn
  BY <1>2 DEF HalfBorn, Fresh
<1> QED
  BY <1>1, <1>2

\* A table created for an entity that has none, and an index, take no
\* constraint away.
LEMMA MoreIsEnforced ==
  ASSUME NEW tables, NEW more, NEW m, Enforced(tables, m), DOMAIN tables \subseteq DOMAIN more,
         \A e \in DOMAIN tables : /\ more[e].cols = tables[e].cols
                                  /\ tables[e].unique \subseteq more[e].unique
  PROVE  Enforced(more, m)
BY DEF Enforced, TableEnforces, ColumnsEnforce

\* The two steps of ApplyDDL.
LEMMA TruthCreates ==
  ASSUME TypeOK, Phases, TruthInv, pc = "ddl", pc' = "ddl", UNCHANGED <<manifest, schema>>,
         db'.fp = db.fp, DOMAIN db'.tables # {},
         DOMAIN db.tables \subseteq DOMAIN db'.tables,
         \A e \in DOMAIN db.tables : /\ db'.tables[e].cols = db.tables[e].cols
                                     /\ db.tables[e].unique \subseteq db'.tables[e].unique,
         Fresh(db.tables, schema) => Fresh(db'.tables, schema)
  PROVE  TruthInv'
<1>1. manifest = [whole |-> TRUE, content |-> schema]
  BY DEF TruthInv
<1>2. \A m : Under(db, m) => Under(db', m)
  BY MoreIsEnforced DEF Under
<1>3. db'.fp # {} => \E m \in Manifests : Under(db', m)
  BY <1>2 DEF TruthInv
<1>4. db'.fp = {} => Fresh(db'.tables, schema)
  BY BornUnderSchema
<1> QED
  BY <1>1, <1>3, <1>4 DEF TruthInv, HalfBorn, Accepted, Upgrading

\* The steps of a boot.
LEMMA TruthBoot ==
  ASSUME EnumsAreTold, TypeOK, Phases, TruthInv, Boot
  PROVE  TruthInv'
<1> USE DEF disk, process, counters
<1>1. CASE OpenApp
  <2>1. /\ pc = "load" /\ pc' = "ddl" /\ manifest.whole /\ schema' = manifest.content
        /\ UNCHANGED <<manifest, db>>
    BY <1>1 DEF OpenApp
  <2>2. manifest = [whole |-> TRUE, content |-> schema']
    BY <2>1 DEF TypeOK
  <2> QED
    BY <2>1, <2>2 DEF TruthInv, HalfBorn, Accepted, Upgrading
<1>2. CASE RefuseApp \/ RefuseIndex \/ RefuseSchema
  BY <1>2, TruthIdle DEF RefuseApp, RefuseIndex, RefuseSchema, Skip, Down
<1>3. CASE CreateMissingTable
  <2>1. PICK e \in MissingTables : db' = WithTable(db, e, CreateTable(schema[e]))
    BY <1>3 DEF CreateMissingTable
  <2>2. pc = "ddl" /\ pc' = "ddl" /\ UNCHANGED <<manifest, schema>>
    BY <1>3 DEF CreateMissingTable
  <2>3. /\ db'.fp = db.fp
        /\ db'.tables = [x \in DOMAIN db.tables \cup {e} |->
                           IF x = e THEN CreateTable(schema[e]) ELSE db.tables[x]]
    BY <2>1 DEF WithTable, WithTables
  <2>4. e \in DOMAIN schema /\ e \notin DOMAIN db.tables
    BY <2>1 DEF MissingTables
  <2>5. Fresh(db.tables, schema) => Fresh(db'.tables, schema)
    BY <2>3, <2>4, FreshWithTable
  <2>6. DOMAIN db'.tables # {} /\ DOMAIN db.tables \subseteq DOMAIN db'.tables
    BY <2>3
  <2>7. \A x \in DOMAIN db.tables : db'.tables[x] = db.tables[x]
    BY <2>3, <2>4
  <2> QED
    BY <2>2, <2>3, <2>5, <2>6, <2>7, TruthCreates
<1>4. CASE CreateMissingIndex
  <2>1. PICK e \in DOMAIN schema : \E f \in MissingIndexes(e) :
          db' = [db EXCEPT !.tables[e].unique = @ \cup {f}]
    BY <1>4 DEF CreateMissingIndex
  <2>2. PICK f \in MissingIndexes(e) : db' = [db EXCEPT !.tables[e].unique = @ \cup {f}]
    BY <2>1
  <2>3. pc = "ddl" /\ pc' = "ddl" /\ UNCHANGED <<manifest, schema>>
    BY <1>4 DEF CreateMissingIndex
  <2>4. e \in DOMAIN db.tables /\ f \in UniqueFields(schema[e])
    BY <1>4, <2>1, <2>2 DEF CreateMissingIndex, MissingTables, MissingIndexes
  <2>5. /\ db'.fp = db.fp
        /\ db'.tables = [db.tables EXCEPT ![e].unique = @ \cup {f}]
    BY <2>2 DEF TypeOK, IsImage
  <2>6. Fresh(db.tables, schema) => Fresh(db'.tables, schema)
    BY <2>4, <2>5, FreshWithIndex
  <2>7. DOMAIN db'.tables = DOMAIN db.tables /\ DOMAIN db'.tables # {}
    BY <2>4, <2>5
  <2>8. \A x \in DOMAIN db.tables : /\ db'.tables[x].cols = db.tables[x].cols
                                    /\ db.tables[x].unique \subseteq db'.tables[x].unique
    <3>1. ASSUME NEW x \in DOMAIN db.tables
          PROVE  /\ db'.tables[x].cols = db.tables[x].cols
                 /\ db.tables[x].unique \subseteq db'.tables[x].unique
      <4>1. CASE x = e
        <5>1. IsTable(db.tables[e])
          BY <4>1 DEF TypeOK, IsImage
        <5>2. db'.tables[e] = [db.tables[e] EXCEPT !.unique = @ \cup {f}]
          BY <2>5, <4>1
        <5> QED
          BY <4>1, <5>1, <5>2 DEF IsTable
      <4>2. CASE x # e
        BY <2>5, <4>2
      <4> QED
        BY <4>1, <4>2
    <3> QED
      BY <3>1
  <2> QED
    BY <2>3, <2>5, <2>6, <2>7, <2>8, TruthCreates
<1>5. CASE AdoptFingerprint
  <2>1. /\ db.fp = {} /\ pc = "ddl" /\ pc' \in {"serving", "plan"} /\ Materialized
        /\ db' = [tables |-> db.tables, rows |-> db.rows, fp |-> {Fingerprint(schema)}]
        /\ UNCHANGED <<manifest, schema>>
    BY <1>5 DEF AdoptFingerprint, Register, Goto, TypeOK, IsImage
  <2>2. manifest = [whole |-> TRUE, content |-> schema] /\ schema \in Manifests
    BY <2>1 DEF TruthInv, Phases
  <2>3. Conforms(db.tables, schema)
    BY <2>1, BornUnderSchema, FreshIsComplete DEF Materialized, MissingTables, MissingIndexes
  <2>4. Under(db', schema) /\ db'.fp # {}
    BY <2>1, <2>3, ConformingEnforces DEF Under
  <2> QED
    BY <2>1, <2>2, <2>4 DEF TruthInv, HalfBorn, Accepted, Upgrading
<1>6. CASE AcceptSchema
  <2>1. /\ db.fp = {Fingerprint(schema)} /\ pc = "ddl" /\ pc' \in {"serving", "plan"}
        /\ UNCHANGED <<manifest, db, schema>>
    BY <1>6 DEF AcceptSchema, Register, Goto
  <2>2. schema \in Manifests /\ manifest = [whole |-> TRUE, content |-> schema]
    BY <2>1 DEF Phases, TruthInv
  <2>3. PICK m \in Manifests : Under(db, m)
    BY <2>1 DEF TruthInv
  <2>4. Under(db, schema)
    BY <2>1, <2>2, <2>3, OtherManifests DEF Under
  <2> QED
    BY <2>1, <2>2, <2>4 DEF TruthInv, HalfBorn, Accepted, Upgrading
<1> QED
  BY <1>1, <1>2, <1>3, <1>4, <1>5, <1>6 DEF Boot

\* Every step keeps the invariant, edits among them.
LEMMA TruthStep ==
  ASSUME BoundsAreKept, EnumsAreTold, TypeOK, Phases, SnapshotInv, TruthInv, [CarefulNext]_vars
  PROVE  TruthInv'
<1> USE DEF disk, process, counters, Goto
<1>1. CASE StartServe
  BY <1>1, TruthIdle DEF StartServe
<1>2. ASSUME NEW new \in Manifests \cup {NoApp}, NEW confirm \in BOOLEAN, NEW w \in Witnesses,
             StartMigrate(new, confirm, w)
      PROVE  TruthInv'
  BY <1>2, TruthIdle DEF StartMigrate
<1>3. ASSUME NEW m \in HandEdits, CarefulEdit(m)
      PROVE  TruthInv'
  <2>1. /\ pc \in {"down", "serving", "skipped"} /\ manifest' = [whole |-> TRUE, content |-> m]
        /\ UNCHANGED <<pc, db, schema, snaps, job>>
    BY <1>3 DEF CarefulEdit, EditManifest
  <2>2. ~HalfBorn
    BY <1>3 DEF CarefulEdit
  <2> QED
    BY <2>1, <2>2 DEF TruthInv, HalfBorn, Accepted, Upgrading
<1>4. CASE Crash \/ WriteFails \/ StopServe \/ RefusePlan \/ Finish
  BY <1>4, TruthIdle DEF Crash, WriteFails, StopServe, RefusePlan, Finish, Down
<1>5. CASE Boot
  BY <1>5, TruthBoot
<1>6. ASSUME NEW e \in DOMAIN schema, NEW r \in Rows, Write(e, r)
      PROVE  TruthInv'
  <2>1. db'.tables = db.tables /\ db'.fp = db.fp
    BY <1>6 DEF Write, WithRow, TypeOK, IsImage
  <2>2. pc = "serving" /\ UNCHANGED <<manifest, pc, schema>>
    BY <1>6 DEF Write
  <2>3. \A m : Under(db, m) => Under(db', m)
    BY <2>1 DEF Under
  <2> QED
    BY <2>1, <2>2, <2>3 DEF TruthInv, HalfBorn, Accepted, Upgrading
<1>7. CASE AutoCheckpoint
  BY <1>7, TruthGoesOn DEF AutoCheckpoint, Accepted, Upgrading
<1>8. CASE NoChange \/ AdmitPlan \/ SnapshotCheckpoint \/ SnapshotCreate \/ SnapshotCopy
           \/ RestoreClose \/ PruneOldest \/ PruneDone
  BY <1>8, TruthGoesOn
  DEF NoChange, AdmitPlan, SnapshotCheckpoint, SnapshotCreate, SnapshotCopy, RestoreClose,
      PruneOldest, PruneDone, Accepted, Upgrading
<1>9. CASE ExecuteNothing
  <2>1. schema \in Manifests /\ job.new \in Manifests /\ AllNoSQL(schema, job.new)
    BY <1>9 DEF ExecuteNothing, Phases, Admitted, Snapshotting
  <2>2. Under(db, schema) => Under(db, job.new)
    BY <2>1, ManifestPairs, RenamesChangeNothing DEF Under
  <2> QED
    BY <1>9, <2>2 DEF ExecuteNothing, TruthInv, HalfBorn, Accepted, Upgrading
<1>10. CASE CarefulCommit
  <2>1. schema \in Manifests /\ job.new \in Manifests
    BY <1>10 DEF CarefulCommit, ExecuteCommit, Phases, Admitted, Snapshotting
  <2>2. /\ pc = "execute" /\ pc' = "promote" /\ db' = MigratedImage(db, schema, job.new)
        /\ ~ChangesetRefused(db.tables, schema, job.new)
        /\ UNCHANGED <<manifest, schema, job>>
    BY <1>10 DEF CarefulCommit, ExecuteCommit
  <2>3. AdoptionsFit(db.tables, schema, job.new)
    BY <1>10 DEF CarefulCommit
  <2>4. Under(db', job.new)
    BY <2>1, <2>2, <2>3, CommitEnforces DEF TypeOK, TruthInv, Accepted
  <2>5. db'.fp # {}
    BY <2>4 DEF Under
  <2> QED
    BY <2>1, <2>2, <2>4, <2>5 DEF TruthInv, HalfBorn, Accepted, Upgrading
<1>11. CASE ExecuteFail
  <2>1. CASE Down
    BY <1>11, <2>1, TruthIdle DEF ExecuteFail, Down
  <2>2. CASE ~Down
    BY <1>11, <2>2, TruthGoesOn DEF ExecuteFail, Accepted, Upgrading
  <2> QED
    BY <2>1, <2>2
<1>12. CASE RestoreTruncate
  <2>1. /\ pc = "truncate" /\ pc' = "restore" /\ db' = Blank
        /\ UNCHANGED <<manifest, schema, snaps, job>>
    BY <1>12 DEF RestoreTruncate
  <2>2. snaps[job.snap].image = db
    BY <2>1 DEF SnapshotInv, SnapshotIsDatabase, Phases
  <2>3. Blank.fp = {} /\ DOMAIN Blank.tables = {}
    BY DEF Blank, NoApp
  <2> QED
    BY <2>1, <2>2, <2>3 DEF TruthInv, HalfBorn, Accepted, Upgrading
<1>13. CASE RestoreCopy
  <2>1. /\ pc = "restore" /\ pc' = "down" /\ db' = snaps[job.snap].image
        /\ UNCHANGED manifest
    BY <1>13 DEF RestoreCopy, Down
  <2>2. schema \in Manifests /\ Under(db', schema) /\ db'.fp # {}
    BY <2>1 DEF TruthInv, Under, Phases, Admitted, Snapshotting
  <2> QED
    BY <2>1, <2>2 DEF TruthInv, HalfBorn, Accepted, Upgrading
<1>14. CASE PromoteTruncate
  <2>1. /\ pc = "promote" /\ pc' = "write" /\ UNCHANGED <<db, job>>
    BY <1>14 DEF PromoteTruncate
  <2>2. Under(db, job.new) /\ db.fp # {}
    BY <2>1 DEF TruthInv, Under
  <2> QED
    BY <2>1, <2>2 DEF TruthInv, HalfBorn, Accepted, Upgrading
<1>15. CASE PromoteWrite
  <2>1. /\ pc = "write" /\ pc' \in {"finish", "prune"} /\ manifest' = [whole |-> TRUE, content |-> job.new]
        /\ schema' = job.new /\ UNCHANGED <<db, job>>
    BY <1>15 DEF PromoteWrite
  <2>2. Under(db, job.new) /\ db.fp # {}
    BY <2>1 DEF TruthInv, Under
  <2> QED
    BY <2>1, <2>2 DEF TruthInv, HalfBorn, Accepted, Upgrading
<1>16. CASE UNCHANGED vars
  BY <1>16 DEF vars, TruthInv, HalfBorn, Accepted, Upgrading
<1> QED
  BY <1>1, <1>2, <1>3, <1>4, <1>5, <1>6, <1>7, <1>8, <1>9, <1>10, <1>11, <1>12, <1>13, <1>14,
     <1>15, <1>16 DEF CarefulNext, Routine, Apply

\* Together with what it rests on, the invariant holds for good.
LEMMA AlwaysTrue ==
  ASSUME BoundsAreKept, EnumsAreTold
  PROVE  CarefulSpec => [](TypeOK /\ Phases /\ SnapshotInv /\ TruthInv)
<1>1. Init => SnapshotInv /\ TruthInv
  BY DurableInit, TruthInit DEF Durable
<1>2. TypeOK /\ Phases /\ SnapshotInv /\ [CarefulNext]_vars => SnapshotInv'
  BY SnapshotStep, CarefulIsNext
<1>3. TypeOK /\ Phases /\ SnapshotInv /\ TruthInv /\ [CarefulNext]_vars => TruthInv'
  BY TruthStep
<1> QED
  BY <1>1, <1>2, <1>3, TypeCorrect, CarefulIsSpec, PTL DEF CarefulSpec

\* A fingerprint is never recorded, and never left, over tables that do not
\* enforce what it stands for (boot.go:44-51, execute.go:24-28), however often the
\* manifest is edited by hand, whatever refused boots have created beside, and
\* wherever a boot, a migration, a restore or a promotion dies.
THEOREM FingerprintAlwaysTruthful ==
  ASSUME BoundsAreKept, EnumsAreTold
  PROVE  CarefulSpec => []FingerprintIsTruthful
<1>1. TruthInv => FingerprintIsTruthful
  <2> SUFFICES ASSUME TruthInv, NEW m \in Manifests, db.fp = {Fingerprint(m)}
               PROVE  Enforced(db.tables, m)
    BY DEF FingerprintIsTruthful
  <2>1. PICK other \in Manifests : Under(db, other)
    BY DEF TruthInv
  <2> QED
    BY <2>1, OtherManifests DEF Under
<1> QED
  BY <1>1, AlwaysTrue, PTL

\* So an edited manifest is refused unless the database enforces it
\* (boot.go:38-51): every constraint of what is served, or migrated, is there.
THEOREM EditedSchemaAlwaysEnforced ==
  ASSUME BoundsAreKept, EnumsAreTold
  PROVE  CarefulSpec => []ServedSchemaEnforced
<1>1. TruthInv => ServedSchemaEnforced
  BY DEF TruthInv, Accepted, Under, ServedSchemaEnforced
<1> QED
  BY <1>1, AlwaysTrue, PTL

-----------------------------------------------------------------------------
(***************************************************************************)
(* No data is lost unguarded.                                              *)
(***************************************************************************)
\* Every step keeps to the gate.
LEMMA GateStep ==
  ASSUME TypeOK, Phases, GateInv, [Next]_vars
  PROVE  GateInv'
<1> USE DEF GateInv, disk, process, counters, Goto
<1>1. CASE Crash \/ WriteFails \/ StartServe \/ StopServe \/ AutoCheckpoint
  BY <1>1 DEF Crash, WriteFails, StartServe, StopServe, Down, AutoCheckpoint
<1>2. ASSUME NEW new \in Manifests \cup {NoApp}, NEW confirm \in BOOLEAN, NEW w \in Witnesses,
             StartMigrate(new, confirm, w)
      PROVE  GateInv'
  BY <1>2 DEF StartMigrate
<1>3. ASSUME NEW m \in HandEdits, EditManifest(m)
      PROVE  GateInv'
  BY <1>3 DEF EditManifest
<1>4. CASE Boot
  BY <1>4 DEF Boot, OpenApp, RefuseApp, CreateMissingTable, CreateMissingIndex, RefuseIndex,
              AdoptFingerprint, AcceptSchema, RefuseSchema, Register, Skip, Down
<1>5. ASSUME NEW e \in DOMAIN schema, NEW r \in Rows, Write(e, r)
      PROVE  GateInv'
  BY <1>5 DEF Write
<1>6. CASE NoChange \/ RefusePlan \/ ExecuteNothing \/ ExecuteCommit \/ RestoreTruncate
           \/ RestoreCopy \/ PromoteTruncate \/ PromoteWrite \/ PruneOldest \/ PruneDone \/ Finish
  BY <1>6 DEF NoChange, RefusePlan, ExecuteNothing, ExecuteCommit, RestoreTruncate, RestoreCopy,
              PromoteTruncate, PromoteWrite, PruneOldest, PruneDone, Finish, Down
<1>7. CASE AdmitPlan
  BY <1>7 DEF AdmitPlan, Phases, Admitted, Snapshotting, Permitted
<1>8. CASE SnapshotCheckpoint \/ RestoreClose
  BY <1>8 DEF SnapshotCheckpoint, RestoreClose, Permitted
<1>9. CASE SnapshotCreate
  <2>1. pc' = "copy" /\ job' = [job EXCEPT !.snap = clock + 1] /\ UNCHANGED schema
    BY <1>9 DEF SnapshotCreate
  <2>2. job'.confirm = job.confirm /\ job'.new = job.new /\ job'.witnesses = job.witnesses
    BY <2>1 DEF TypeOK
  <2> QED
    BY <1>9, <2>1, <2>2 DEF SnapshotCreate, Permitted
<1>10. CASE SnapshotCopy
  BY <1>10 DEF SnapshotCopy, Phases, Permitted
<1>11. CASE ExecuteFail
  BY <1>11 DEF ExecuteFail, Down, Permitted
<1>12. CASE UNCHANGED vars
  BY <1>12 DEF vars, Permitted
<1> QED
  BY <1>1, <1>2, <1>3, <1>4, <1>5, <1>6, <1>7, <1>8, <1>9, <1>10, <1>11, <1>12 DEF Next, Routine, Apply

\* A safe operation narrows no column.
LEMMA SafeColumns ==
  ASSUME NEW of, NEW nf, NEW entities, NEW others,
         ValidField(of, entities), ValidField(nf, others),
         of.type # nf.type => IsWidening(of.type, nf.type),
         of.type = "enum" /\ nf.type = "enum" => of.values \subseteq nf.values,
         NEW before, NEW after, Enforces(before, of), Enforces(after, nf)
  PROVE  ~Narrows(before, after)
<1>1. before.affinity = after.affinity \/ (before.affinity = "INTEGER" /\ after.affinity = "REAL")
  BY DEF Enforces, Affinity, IsWidening
<1>2. ASSUME NEW was \in before.checks, NEW is \in after.checks, was[1] = "in", is[1] = "in"
      PROVE  was[2] \subseteq is[2]
  <2>1. was \in Checks(of) /\ is \in Checks(nf)
    BY DEF Enforces
  <2>2. CASE of.type = "boolean"
    <3>1. nf.type = "boolean"
      BY <2>2 DEF IsWidening
    <3> QED
      BY <2>1, <2>2, <3>1 DEF Checks
  <2>3. CASE of.type = "enum"
    <3>1. nf.type = "enum"
      BY <2>3 DEF IsWidening
    <3>2. was = <<"in", of.values>> /\ is = <<"in", nf.values>>
      BY <2>1, <2>3, <3>1 DEF Checks
    <3> QED
      BY <2>3, <3>1, <3>2
  <2>4. CASE of.type \notin {"boolean", "enum"}
    BY <1>2, <2>1, <2>4 DEF Checks
  <2> QED
    BY <2>2, <2>3, <2>4
<1> QED
  BY <1>1, <1>2 DEF Narrows

\* So a safe changeset loses nothing, and takes nothing from a table of no entity.
LEMMA SafeCommits ==
  ASSUME BoundsAreKept, NEW old \in Manifests, NEW new \in Manifests, NEW image, IsImage(image),
         Under(image, old), ~ChangesetRefused(image.tables, old, new), ~HasDestructive(old, new)
  PROVE  ~LosesData(image, MigratedImage(image, old, new))
<1> DEFINE after == MigratedImage(image, old, new)
<1>1. Dropped(old, new) = {} /\ Kept(old, new) = DOMAIN old
  <2>1. Dropped(old, new) = {}
    BY SafeOperations
  <2> QED
    BY <2>1 DEF Dropped, Kept
<1>2. after.tables = ApplyChangeset(image.tables, old, new)
  BY MigratedContents
<1>3. \A e : RowsOf(image, e) \subseteq RowsOf(after, e)
  BY <1>1, MigratedIsImage
<1> HIDE DEF after
<1>4. ASSUME NEW e \in DOMAIN image.tables, NEW c \in DOMAIN image.tables[e].cols
      PROVE  /\ c \in DOMAIN after.tables[e].cols
             /\ ~Narrows(image.tables[e].cols[c], after.tables[e].cols[c])
  <2> DEFINE of == old[e].fields[c]
             nf == new[e].fields[c]
  <2>1. CASE e \notin DOMAIN old
    <3>1. e \in DOMAIN ApplyChangeset(image.tables, old, new)
      BY <1>1 DEF ApplyChangeset
    <3>2. e \notin Kept(old, new)
      BY <1>1, <2>1
    <3>3. ApplyChangeset(image.tables, old, new)[e] \in {CreateEntity(e, image.tables, new[e]), image.tables[e]}
      BY <3>1, <3>2 DEF ApplyChangeset
    <3>4. CreateEntity(e, image.tables, new[e]).cols = image.tables[e].cols
      BY DEF CreateEntity, IsImage, IsTable
    <3>5. after.tables[e].cols = image.tables[e].cols
      BY <1>2, <3>3, <3>4
    <3> QED
      BY <3>5 DEF Narrows
  <2>2. CASE e \in DOMAIN old
    <3>1. e \in Kept(old, new) /\ e \in DOMAIN new
      BY <1>1, <2>2 DEF Kept
    <3>2. TableEnforces(image.tables[e], old[e])
      BY <2>2 DEF Under, Enforced
    <3>3. TableEnforces(after.tables[e], new[e])
      <4>1. TableEnforces(MigratedTable(e, image.tables[e], old, new), new[e])
        BY <3>1, <3>2, ManifestPairs, MigratedTableIsSound
      <4>2. ApplyChangeset(image.tables, old, new)[e] = MigratedTable(e, image.tables[e], old, new)
        BY <1>1, <3>1 DEF ApplyChangeset, Kept, Added
      <4> QED
        BY <1>2, <4>1, <4>2
    <3>4. c \in DOMAIN old[e].fields
      BY <3>2 DEF TableEnforces, ColumnsEnforce
    <3>5. c \in KeptFields(old[e], new[e]) /\ c \in DOMAIN new[e].fields
      BY <3>1, <3>4, SafeOperations DEF DroppedFields, KeptFields
    <3>6. Enforces(image.tables[e].cols[c], of) /\ Enforces(after.tables[e].cols[c], nf)
      BY <3>2, <3>3, <3>4, <3>5 DEF TableEnforces, ColumnsEnforce
    <3>7. ValidField(of, DOMAIN old) /\ ValidField(nf, DOMAIN new)
      BY <2>2, <3>1, <3>4, <3>5, FieldsAreValid, ManifestsAreValid
    <3>8. /\ of.type # nf.type => IsWidening(of.type, nf.type)
          /\ of.type = "enum" /\ nf.type = "enum" => of.values \subseteq nf.values
      BY <3>1, <3>5, SafeOperations
    <3>9. ~Narrows(image.tables[e].cols[c], after.tables[e].cols[c])
      BY <3>6, <3>7, <3>8, SafeColumns
    <3> QED
      BY <3>3, <3>5, <3>9 DEF TableEnforces, ColumnsEnforce
  <2> QED
    BY <2>1, <2>2
<1> QED
  BY <1>3, <1>4 DEF LosesData, after

\* A step that leaves every row and every column loses nothing.
LEMMA NothingLost ==
  ASSUME NEW before, NEW after,
         \A e \in DOMAIN before.tables :
           /\ RowsOf(before, e) \subseteq RowsOf(after, e)
           /\ after.tables[e].cols = before.tables[e].cols
  PROVE  ~LosesData(before, after)
BY DEF LosesData, Narrows

\* A boot only adds tables, indexes and a fingerprint.
LEMMA BootLosesNothing ==
  ASSUME TypeOK, Phases, Boot
  PROVE  ~LosesData(db, db')
<1>1. CASE UNCHANGED db
  BY <1>1, NothingLost
<1>2. CASE CreateMissingTable
  <2>1. PICK e \in MissingTables : db' = WithTable(db, e, CreateTable(schema[e]))
    BY <1>2 DEF CreateMissingTable
  <2>2. e \in EntityIds /\ e \notin DOMAIN db.tables
    BY <1>2, <2>1, NoAppIsNoManifest
    DEF CreateMissingTable, MissingTables, EntityIds, Phases, Admitted
  <2>3. \A x : RowsOf(db, x) \subseteq RowsOf(db', x)
    BY <2>1, <2>2, WithTableIsImage, CreatedIsTable DEF TypeOK
  <2>4. \A x \in DOMAIN db.tables : db'.tables[x] = db.tables[x]
    BY <2>1, <2>2 DEF WithTable, WithTables
  <2> QED
    BY <2>3, <2>4, NothingLost
<1>3. CASE CreateMissingIndex
  <2>1. PICK e \in DOMAIN schema : \E f \in MissingIndexes(e) :
          db' = [db EXCEPT !.tables[e].unique = @ \cup {f}]
    BY <1>3 DEF CreateMissingIndex
  <2>2. PICK f \in MissingIndexes(e) : db' = [db EXCEPT !.tables[e].unique = @ \cup {f}]
    BY <2>1
  <2>3. db'.rows = db.rows /\ db'.tables = [db.tables EXCEPT ![e].unique = @ \cup {f}]
    BY <2>2 DEF TypeOK, IsImage
  <2>4. \A x \in DOMAIN db.tables : db'.tables[x].cols = db.tables[x].cols
    BY <2>3
  <2> QED
    BY <2>3, <2>4, NothingLost DEF RowsOf
<1>4. CASE AdoptFingerprint
  <2>1. db'.rows = db.rows /\ db'.tables = db.tables
    BY <1>4 DEF AdoptFingerprint, TypeOK, IsImage
  <2> QED
    BY <2>1, NothingLost DEF RowsOf
<1> QED
  BY <1>1, <1>2, <1>3, <1>4
  DEF Boot, OpenApp, RefuseApp, RefuseIndex, AcceptSchema, RefuseSchema, disk

\* A step that loses data does so after the gate, under a whole and newest copy.
LEMMA LossStep ==
  ASSUME BoundsAreKept, TypeOK, Phases, SnapshotInv, GateInv, [Next]_vars, LosesData(db, db'),
         pc = "execute" => Under(db, schema), pc = "restore" => db = Blank
  PROVE  /\ Permitted
         /\ \E t \in DOMAIN snaps : Newer(t) = {} /\ snaps[t] = [whole |-> TRUE, image |-> db]
<1> DEFINE Guarded == /\ Permitted
                      /\ \E t \in DOMAIN snaps :
                           Newer(t) = {} /\ snaps[t] = [whole |-> TRUE, image |-> db]
<1> SUFFICES Guarded
  OBVIOUS
<1> HIDE DEF Guarded
<1> USE DEF disk, process, counters, Goto
<1>1. db' # db
  BY NothingLost
<1>2. ASSUME pc \in {"execute", "truncate"}, job.snap # 0 PROVE Guarded
  BY <1>2 DEF GateInv, SnapshotInv, SnapshotIsNewest, SnapshotIsDatabase, Snapshotting, Phases, Guarded
<1>3. CASE Boot
  BY <1>3, BootLosesNothing
<1>4. ASSUME NEW e \in DOMAIN schema, NEW r \in Rows, Write(e, r)
      PROVE  Guarded
  <2>1. e \in DOMAIN db.rows /\ db' = WithRow(db, e, r)
    BY <1>4 DEF Write
  <2>2. \A x : RowsOf(db, x) \subseteq RowsOf(db', x)
    BY <2>1, WithRowIsImage DEF TypeOK
  <2>3. db'.tables = db.tables
    BY <2>1 DEF WithRow, TypeOK, IsImage
  <2> QED
    BY <2>2, <2>3, NothingLost
<1>5. CASE ExecuteCommit
  <2>1. /\ pc = "execute" /\ db' = MigratedImage(db, schema, job.new)
        /\ ~ChangesetRefused(db.tables, schema, job.new)
    BY <1>5 DEF ExecuteCommit
  <2>2. schema \in Manifests /\ job.new \in Manifests /\ Under(db, schema)
    BY <2>1 DEF Phases, Admitted, Snapshotting
  <2>3. HasDestructive(schema, job.new)
    BY <2>1, <2>2, SafeCommits DEF TypeOK
  <2> QED
    BY <1>2, <2>1, <2>3 DEF GateInv
<1>6. CASE RestoreTruncate
  BY <1>2, <1>6 DEF RestoreTruncate, Phases
<1>7. CASE RestoreCopy
  <2>1. db = Blank
    BY <1>7 DEF RestoreCopy
  <2>2. ~LosesData(db, db')
    BY <2>1 DEF LosesData, Blank, NoApp
  <2> QED
    BY <2>2
<1>8. CASE Apply
  BY <1>1, <1>5, <1>6, <1>7, <1>8
  DEF Apply, NoChange, RefusePlan, AdmitPlan, SnapshotCheckpoint, SnapshotCreate, SnapshotCopy,
      ExecuteNothing, ExecuteFail, RestoreClose, PromoteTruncate, PromoteWrite, PruneOldest,
      PruneDone, Finish
<1>9. CASE UNCHANGED vars
  BY <1>1, <1>9 DEF vars
<1> QED
  BY <1>1, <1>3, <1>4, <1>5, <1>8, <1>9
  DEF Next, Routine, StartServe, StartMigrate, EditManifest, Crash, StopServe, WriteFails, AutoCheckpoint

\* Every process keeps to the gate, for good.
LEMMA AlwaysGated == Spec => []GateInv
<1>1. Init => GateInv
  BY DEF Init, GateInv
<1>2. TypeOK /\ Phases /\ GateInv /\ [Next]_vars => GateInv'
  BY GateStep
<1> QED
  BY <1>1, <1>2, TypeCorrect, PTL DEF Spec

Guarded == LosesData(db, db') =>
             /\ Permitted
             /\ \E t \in DOMAIN snaps : Newer(t) = {} /\ snaps[t] = [whole |-> TRUE, image |-> db]

\* Whatever the manifests, the rows and the places where processes die: a step
\* that loses rows, columns or values a column could hold is one the operator
\* confirmed and witnessed, and a whole copy of what it loses is the newest
\* snapshot (changeset.go:1-5, apply.go:61-101).
THEOREM LossIsAlwaysGuarded ==
  ASSUME BoundsAreKept, EnumsAreTold, HandEdits = {}
  PROVE  Spec => LossIsGuarded
<1>1. /\ TypeOK /\ Phases /\ SnapshotInv /\ GateInv /\ SchemaInv /\ edits = 0 /\ [Next]_vars
      => [Guarded]_vars
  BY LossStep, ConformingEnforces DEF SchemaInv, Accepted, At, Under, Guarded
<1> QED
  BY <1>1, AlwaysGated, AlwaysAtSchema, NoEdits, PTL DEF Spec, LossIsGuarded, Guarded

\* An edit of the manifest loses nothing either, neither when it is made nor when
\* a boot or a migration meets it, even where refused edits have left tables.
THEOREM EditedLossIsGuarded ==
  ASSUME BoundsAreKept, EnumsAreTold
  PROVE  CarefulSpec => LossIsGuarded
<1>1. /\ TypeOK /\ Phases /\ SnapshotInv /\ GateInv /\ TruthInv /\ [CarefulNext]_vars
      => [Guarded]_vars
  BY LossStep, CarefulIsNext DEF TruthInv, Accepted, Guarded
<1> QED
  BY <1>1, AlwaysGated, AlwaysTrue, CarefulIsSpec, PTL DEF CarefulSpec, LossIsGuarded, Guarded

-----------------------------------------------------------------------------
(***************************************************************************)
(* Migration implements AtomicUpgrade, for every value of the constants:   *)
(* each step of the boot, of the upgrade and of the restore is one of the  *)
(* abstract app, or is not seen by its client.                             *)
(*                                                                         *)
(* Only the commit of a changeset and a write are seen.  For the others to *)
(* be invisible, the manifest has to be the database's whenever no         *)
(* changeset is being promoted (SchemaInv and SettledInv), and the         *)
(* snapshot has to be the database while it is restored (SnapshotInv).     *)
(***************************************************************************)
RowsOfApp == [e \in DOMAIN AppOf |-> RowsOf(ImageOf, e)]

RefinementInv == TypeOK /\ Phases /\ SnapshotInv /\ SchemaInv /\ SettledInv /\ edits = 0

-----------------------------------------------------------------------------
\* A step that leaves the client's view alone is a stutter.
LEMMA Invisible ==
  ASSUME AppOf' = AppOf, \A e : RowsOf(ImageOf', e) = RowsOf(ImageOf, e)
  PROVE  RowsOfApp' = RowsOfApp
BY DEF RowsOfApp

\* A changeset carries the rows of every entity that stays, and starts the
\* others empty.
LEMMA MigratedRows ==
  ASSUME NEW image, IsImage(image), NEW old \in Manifests, NEW new \in Manifests,
         DOMAIN image.tables = DOMAIN old, NEW e \in DOMAIN new
  PROVE  RowsOf(MigratedImage(image, old, new), e) = IF e \in DOMAIN old THEN RowsOf(image, e) ELSE {}
<1> DEFINE tables == ApplyChangeset(image.tables, old, new)
           mid == WithTables(image, tables)
<1>1. e \in DOMAIN tables
  BY DEF ApplyChangeset, Added, Dropped
<1>2. mid = [tables |-> tables, rows |-> [x \in DOMAIN tables |-> RowsOf(image, x)], fp |-> image.fp]
  BY DEF WithTables
<1>3. MigratedImage(image, old, new) = [mid EXCEPT !.fp = {Fingerprint(new)}]
  BY DEF MigratedImage
<1>4. e \notin DOMAIN old => RowsOf(image, e) = {}
  BY DEF RowsOf, IsImage
<1> HIDE DEF tables
<1>5. MigratedImage(image, old, new).rows = [x \in DOMAIN tables |-> RowsOf(image, x)]
  BY <1>2, <1>3
<1>6. RowsOf(MigratedImage(image, old, new), e) = RowsOf(image, e)
  BY <1>1, <1>5 DEF RowsOf
<1> QED
  BY <1>4, <1>6

\* The boot is not seen: it creates tables and indexes, and no rows.
LEMMA BootInvisible ==
  ASSUME RefinementInv, Boot
  PROVE  AppOf' = AppOf /\ RowsOfApp' = RowsOfApp
<1> USE DEF disk, process, counters, Goto, RefinementInv
<1>1. AppOf' = AppOf /\ pc # "restore" /\ pc' # "restore"
  BY DEF Boot, OpenApp, RefuseApp, CreateMissingTable, CreateMissingIndex, RefuseIndex,
         AdoptFingerprint, AcceptSchema, RefuseSchema, Register, Skip, Down, AppOf
<1>2. \A e : RowsOf(db', e) = RowsOf(db, e)
  <2>1. CASE CreateMissingTable
    <3>1. PICK e \in MissingTables : db' = WithTable(db, e, CreateTable(schema[e]))
      BY <2>1 DEF CreateMissingTable
    <3> DEFINE tables == [x \in DOMAIN db.tables \cup {e} |->
                            IF x = e THEN CreateTable(schema[e]) ELSE db.tables[x]]
    <3>2. db' = WithTables(db, tables)
      BY <3>1 DEF WithTable
    <3>3. db'.rows = [x \in DOMAIN db.tables \cup {e} |-> RowsOf(db, x)]
      BY <3>2 DEF WithTables
    <3>4. \A x : x \notin DOMAIN db.tables => RowsOf(db, x) = {}
      BY DEF RowsOf, TypeOK, IsImage
    <3> QED
      BY <3>3, <3>4 DEF RowsOf
  <2>2. CASE CreateMissingIndex \/ AdoptFingerprint
    <3>1. db'.rows = db.rows
      BY <2>2 DEF CreateMissingIndex, AdoptFingerprint, TypeOK, IsImage
    <3> QED
      BY <3>1 DEF RowsOf
  <2>3. CASE UNCHANGED db
    BY <2>3
  <2> QED
    BY <2>1, <2>2, <2>3 DEF Boot, OpenApp, RefuseApp, RefuseIndex, AcceptSchema, RefuseSchema
<1> QED
  BY <1>1, <1>2, Invisible DEF ImageOf

\* A write is an insertion.
LEMMA WriteInserts ==
  ASSUME RefinementInv, NEW e \in DOMAIN schema, NEW r \in Rows, Write(e, r)
  PROVE  /\ AppOf' = AppOf /\ e \in DOMAIN AppOf
         /\ RowsOfApp' = [RowsOfApp EXCEPT ![e] = @ \cup {r}]
<1>1. /\ pc = "serving" /\ pc' = "serving" /\ e \in DOMAIN db.rows /\ db' = WithRow(db, e, r)
      /\ UNCHANGED manifest
  BY DEF Write, process
<1>2. AppOf = manifest.content /\ AppOf' = AppOf /\ ImageOf = db /\ ImageOf' = db'
  BY <1>1 DEF AppOf, ImageOf
<1>3. AppOf = schema
  BY <1>1, <1>2 DEF RefinementInv, SchemaInv, Accepted
<1>4. db'.rows = [db.rows EXCEPT ![e] = @ \cup {r}]
  BY <1>1 DEF WithRow, RefinementInv, TypeOK, IsImage
<1>5. RowsOf(db', e) = RowsOf(db, e) \cup {r} /\ \A x : x # e => RowsOf(db', x) = RowsOf(db, x)
  BY <1>1, <1>4 DEF RowsOf
<1> QED
  BY <1>2, <1>3, <1>5 DEF RowsOfApp

\* Executing a changeset is the upgrade, with SQL or without.
LEMMA ExecuteUpgrades ==
  ASSUME BoundsAreKept, RefinementInv, ExecuteNothing \/ ExecuteCommit
  PROVE  /\ AppOf' = job.new /\ job.new \in Manifests
         /\ RowsOfApp' = [e \in DOMAIN job.new |-> IF e \in DOMAIN AppOf THEN RowsOfApp[e] ELSE {}]
<1> USE DEF RefinementInv
<1>1. /\ pc = "execute" /\ pc' = "promote" /\ UNCHANGED <<manifest, job>>
      /\ schema \in Manifests /\ job.new \in Manifests
  BY DEF ExecuteNothing, ExecuteCommit, Goto, disk, Phases, Admitted, Snapshotting
<1>2. AppOf = schema /\ AppOf' = job.new /\ ImageOf = db /\ ImageOf' = db'
  BY <1>1 DEF AppOf, ImageOf, SchemaInv, Accepted
<1>3. DOMAIN db.tables = DOMAIN schema
  BY <1>1 DEF SchemaInv, Accepted, At, Conforms
<1>4. ASSUME NEW e \in DOMAIN job.new
      PROVE  RowsOf(db', e) = IF e \in DOMAIN schema THEN RowsOf(db, e) ELSE {}
  <2>1. CASE ExecuteNothing
    <3>1. db' = db /\ AllNoSQL(schema, job.new)
      BY <2>1 DEF ExecuteNothing, disk
    <3>2. Fingerprint(job.new) = Fingerprint(schema)
      BY <1>1, <3>1, ManifestPairs, RenamesChangeNothing
    <3>3. DOMAIN job.new = DOMAIN schema
      BY <3>2 DEF Fingerprint
    <3> QED
      BY <3>1, <3>3
  <2>2. CASE ExecuteCommit
    BY <1>1, <1>3, <2>2, MigratedRows DEF ExecuteCommit, TypeOK
  <2> QED
    BY <2>1, <2>2
<1> QED
  BY <1>1, <1>2, <1>4 DEF RowsOfApp

\* Nothing else is seen: not the gate, not the snapshot, not a failure, not the
\* restore, not the promotion and not a death outside it.
LEMMA OtherInvisible ==
  ASSUME RefinementInv, PromotionIsUninterrupted, RestoreIsUninterrupted, HandEdits = {},
         [Next]_vars, ~Boot, ~ExecuteNothing, ~ExecuteCommit,
         \A e \in DOMAIN schema, r \in Rows : ~Write(e, r)
  PROVE  AppOf' = AppOf /\ RowsOfApp' = RowsOfApp
<1> USE DEF disk, process, counters, Goto, RefinementInv
<1> DEFINE Unseen == AppOf' = AppOf /\ RowsOfApp' = RowsOfApp
<1> SUFFICES Unseen
  OBVIOUS
<1> HIDE DEF Unseen
<1>1. ASSUME pc \notin {"promote", "write", "restore"}, pc' \notin {"promote", "write", "restore"},
             UNCHANGED <<manifest, db>>
      PROVE  Unseen
  BY <1>1, Invisible DEF AppOf, ImageOf, Unseen
<1>2. CASE Crash \/ WriteFails
  BY <1>1, <1>2 DEF Crash, WriteFails, Down, PromotionIsUninterrupted, RestoreIsUninterrupted
<1>3. CASE StartServe \/ StopServe \/ AutoCheckpoint
  BY <1>1, <1>3 DEF StartServe, StopServe, Down, AutoCheckpoint
<1>4. ASSUME NEW new \in Manifests \cup {NoApp}, NEW confirm \in BOOLEAN, NEW w \in Witnesses,
             StartMigrate(new, confirm, w)
      PROVE  Unseen
  BY <1>1, <1>4 DEF StartMigrate
<1>5. CASE NoChange \/ RefusePlan \/ AdmitPlan \/ SnapshotCheckpoint \/ SnapshotCreate
           \/ SnapshotCopy \/ ExecuteFail \/ RestoreClose \/ PruneOldest \/ PruneDone \/ Finish
  BY <1>1, <1>5
  DEF NoChange, RefusePlan, AdmitPlan, SnapshotCheckpoint, SnapshotCreate, SnapshotCopy,
      ExecuteFail, RestoreClose, PruneOldest, PruneDone, Finish, Down
<1>6. CASE RestoreTruncate
  <2>1. pc = "truncate" /\ pc' = "restore" /\ UNCHANGED <<manifest, snaps, job>>
    BY <1>6 DEF RestoreTruncate
  <2>2. snaps[job.snap].image = db
    BY <2>1 DEF SnapshotInv, SnapshotIsDatabase, Phases
  <2> QED
    BY <2>1, <2>2, Invisible DEF AppOf, ImageOf, Unseen
<1>7. CASE RestoreCopy
  <2>1. pc = "restore" /\ pc' = "down" /\ db' = snaps[job.snap].image /\ UNCHANGED manifest
    BY <1>7 DEF RestoreCopy, Down
  <2> QED
    BY <2>1, Invisible DEF AppOf, ImageOf, Unseen
<1>8. CASE PromoteTruncate
  <2>1. pc = "promote" /\ pc' = "write" /\ UNCHANGED <<db, job>>
    BY <1>8 DEF PromoteTruncate
  <2> QED
    BY <2>1, Invisible DEF AppOf, ImageOf, Unseen
<1>9. CASE PromoteWrite
  <2>1. /\ pc = "write" /\ pc' \in {"finish", "prune"} /\ UNCHANGED db
        /\ manifest' = [whole |-> TRUE, content |-> job.new]
    BY <1>9 DEF PromoteWrite
  <2> QED
    BY <2>1, Invisible DEF AppOf, ImageOf, Unseen
<1>10. CASE UNCHANGED vars
  BY <1>10, Invisible DEF vars, AppOf, ImageOf, Unseen
<1> QED
  BY <1>2, <1>3, <1>4, <1>5, <1>6, <1>7, <1>8, <1>9, <1>10 DEF Next, Routine, Apply

-----------------------------------------------------------------------------
\* The initial states map to initial states.
LEMMA RefinementInit == Init => Abstract!Init
<1> SUFFICES ASSUME Init PROVE Abstract!Init
  OBVIOUS
<1>1. PICK m \in Manifests : manifest = [whole |-> TRUE, content |-> m]
  BY DEF Init
<1>2. AppOf = m /\ ImageOf = Blank
  BY <1>1 DEF Init, AppOf, ImageOf
<1>3. \A e : RowsOf(Blank, e) = {}
  BY DEF RowsOf, Blank, NoApp
<1> QED
  BY <1>2, <1>3 DEF Abstract!Init

\* Every step maps to a step or to a stutter.
LEMMA RefinementStep ==
  ASSUME BoundsAreKept, PromotionIsUninterrupted, RestoreIsUninterrupted, HandEdits = {},
         RefinementInv, [Next]_vars
  PROVE  Abstract!Next \/ (AppOf' = AppOf /\ RowsOfApp' = RowsOfApp)
<1>1. CASE Boot
  BY <1>1, BootInvisible
<1>2. ASSUME NEW e \in DOMAIN schema, NEW r \in Rows, Write(e, r)
      PROVE  Abstract!Next
  <2>1. Abstract!Insert(e, r)
    BY <1>2, WriteInserts DEF Abstract!Insert, RowsOfApp
  <2> QED
    BY <1>2, <2>1, WriteInserts DEF Abstract!Next
<1>3. CASE ExecuteNothing \/ ExecuteCommit
  <2>1. job.new \in Manifests /\ Abstract!Upgrade(job.new)
    BY <1>3, ExecuteUpgrades DEF Abstract!Upgrade, RowsOfApp
  <2> QED
    BY <2>1 DEF Abstract!Next
<1> QED
  BY <1>1, <1>2, <1>3, OtherInvisible

\* To a client a migration is one atomic upgrade: snapshot, transaction, restore
\* and promotion, with the boots and the deaths between them, are one step or
\* none (migrate/changeset.go:1-5, apply.go:33-42).
THEOREM UpgradesAreAlwaysAtomic ==
  ASSUME BoundsAreKept, EnumsAreTold, PromotionIsUninterrupted, RestoreIsUninterrupted,
         HandEdits = {}
  PROVE  Spec => UpgradesAreAtomic
<1>1. RefinementInv /\ [Next]_vars => [Abstract!Next]_<<AppOf, RowsOfApp>>
  BY RefinementStep
<1>2. RefinementInv /\ [Next]_vars =>
        [Abstract!Next]_<<AppOf, [e \in DOMAIN AppOf |-> RowsOf(ImageOf, e)]>>
  BY <1>1 DEF RowsOfApp
<1> QED
  BY <1>2, RefinementInit, AlwaysAtSchema, AlwaysSettled, NoEdits, PTL
  DEF RefinementInv, Spec, UpgradesAreAtomic, Abstract!Spec
=============================================================================
