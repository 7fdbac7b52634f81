----------------------------- MODULE Migration -----------------------------
(***************************************************************************)
(* The life of one app on one machine: the runtime boots and serves it,    *)
(* the migrate command upgrades it, an operator edits its manifest.json,   *)
(* and any of these processes may die between two of its writes.           *)
(*                                                                         *)
(* Modelled: registry.Load (one app), store.Open / ApplyDDL / Checkpoint,  *)
(* migrate.Apply with Snapshot, Execute, restoreInPlace and Prune, and the *)
(* serve and migrate commands around them.  One process runs at a time.    *)
(*                                                                         *)
(* A process stops in one of three ways: the migrate command returns and   *)
(* closes the store; it ends in log.Fatalf, which closes nothing; or it    *)
(* dies.  The serve command has no clean end.                              *)
(***************************************************************************)
EXTENDS Changeset

CONSTANTS
  Manifests,      \* the valid manifests of this app
  HandEdits,      \* those an operator writes over manifest.json
  Witnesses,      \* the sets of witnesses the migrate command may be given
  Rows,           \* row ids
  Retention,      \* migrate.DefaultRetention
  CrashPoints,    \* where a process may die
  FaultPoints,    \* where writing a file may fail
  MaxSnapshots,   \* bound on the snapshots ever begun
  MaxCrashes,     \* bound on the crashes
  MaxEdits        \* bound on the edits

ASSUME ManifestsAreValid == \A m \in Manifests : ValidManifest(m)
ASSUME EditsAreManifests == HandEdits \subseteq Manifests
ASSUME RetentionIsPositive == Retention \in Nat \ {0}
ASSUME BoundsAreNaturals == MaxSnapshots \in Nat /\ MaxCrashes \in Nat /\ MaxEdits \in Nat

VARIABLES
  manifest,   \* manifest.json: whole is FALSE while it is truncated
  file,       \* data.db alone, without its log: state and content
  db,         \* what a connection to data.db reads: the file under its log
  snaps,      \* .snapshots/: timestamp -> a whole or a torn copy
  clock,      \* the last timestamp given to a snapshot
  pc,         \* what the process does next; "down" when none runs
  mode,       \* which command the process runs
  schema,     \* the manifest the process holds for the app
  job,        \* the arguments of migrate.Apply and the snapshot it took
  acked,      \* rows whose insertion was acknowledged and that no confirmed
              \* migration dropped (an observer, not part of the code)
  crashes, edits

disk == <<manifest, file, db, snaps, clock>>
process == <<pc, mode, schema, job>>
counters == <<acked, crashes, edits>>
vars == <<disk, process, counters>>

-----------------------------------------------------------------------------
(***************************************************************************)
(* Database contents.                                                      *)
(***************************************************************************)
NoApp == [e \in {} |-> {}]

NoJob == [new |-> NoApp, confirm |-> FALSE, witnesses |-> NoApp, snap |-> 0]

\* A database with _schema_meta and nothing else: what opening an absent or
\* an empty file makes.
Blank == [tables |-> NoApp, rows |-> NoApp, fp |-> {}]

RowsOf(image, e) == IF e \in DOMAIN image.rows THEN image.rows[e] ELSE {}

WithTables(image, tables) ==
  [tables |-> tables, rows |-> [e \in DOMAIN tables |-> RowsOf(image, e)], fp |-> image.fp]

WithTable(image, e, table) ==
  WithTables(image, [x \in DOMAIN image.tables \cup {e} |->
                       IF x = e THEN table ELSE image.tables[x]])

WithRow(image, e, r) == [image EXCEPT !.rows[e] = @ \cup {r}]

\* A mutant: a rebuilt table is not refilled from the old one.
MigratedImageWithoutCopy(image, old, new) ==
  LET tables == ApplyChangeset(image.tables, old, new)
      rebuilt == {e \in Kept(old, new) : DiffEntity(e, old[e], new[e]) # {}
                                          /\ NeedsRebuild(old[e], new[e])}
  IN [tables |-> tables,
      rows |-> [e \in DOMAIN tables |-> IF e \in rebuilt THEN {} ELSE RowsOf(image, e)],
      fp |-> {Fingerprint(new)}]

\* Execute's transaction: the changeset and the fingerprint together.
MigratedImage(image, old, new) ==
  [WithTables(image, ApplyChangeset(image.tables, old, new)) EXCEPT !.fp = {Fingerprint(new)}]

-----------------------------------------------------------------------------
Init ==
  /\ manifest \in {[whole |-> TRUE, content |-> m] : m \in Manifests}
  /\ file = [state |-> "absent", image |-> Blank]
  /\ db = Blank
  /\ snaps = [t \in {} |-> {}]
  /\ clock = 0
  /\ pc = "down" /\ mode = "serve" /\ schema = NoApp /\ job = NoJob
  /\ acked = {} /\ crashes = 0 /\ edits = 0

\* The process is gone and its memory with it.
Down == pc' = "down" /\ schema' = NoApp /\ job' = NoJob /\ UNCHANGED mode

Goto(label) == pc' = label /\ UNCHANGED <<mode, schema, job>>

\* What a checkpoint, or the close of the last connection, does to the files.
FlushLog == file' = [file EXCEPT !.image = db]

-----------------------------------------------------------------------------
(***************************************************************************)
(* Commands and operators.                                                 *)
(***************************************************************************)
StartServe ==
  /\ pc = "down"
  /\ pc' = "load" /\ mode' = "serve"
  /\ UNCHANGED <<disk, schema, job, counters>>

StartMigrate(new, confirm, witnesses) ==
  /\ pc = "down"
  /\ clock < MaxSnapshots
  /\ pc' = "load" /\ mode' = "migrate"
  /\ job' = [new |-> new, confirm |-> confirm, witnesses |-> witnesses, snap |-> 0]
  /\ UNCHANGED <<disk, schema, counters>>

EditManifest(m) ==
  /\ pc \in {"down", "serving", "skipped"}
  /\ edits < MaxEdits
  /\ manifest' = [whole |-> TRUE, content |-> m]
  /\ edits' = edits + 1
  /\ UNCHANGED <<file, db, snaps, clock, process, acked, crashes>>

Crash ==
  /\ pc \in CrashPoints
  /\ crashes < MaxCrashes
  /\ crashes' = crashes + 1
  /\ Down
  /\ UNCHANGED <<disk, acked, edits>>

\* Stopping the runtime is no different from killing it.
StopServe ==
  /\ pc \in {"serving", "skipped"}
  /\ Down
  /\ UNCHANGED <<disk, counters>>

-----------------------------------------------------------------------------
(***************************************************************************)
(* Boot: registry.Load.                                                    *)
(***************************************************************************)

\* The app is recorded as not served.  A migrate command then finds no app
\* to migrate and ends.
Skip == \/ mode = "serve" /\ pc' = "skipped" /\ schema' = NoApp /\ UNCHANGED <<mode, job>>
        \/ mode = "migrate" /\ Down

Register == Goto(IF mode = "serve" THEN "serving" ELSE "plan")

\* Read and validate manifest.json, then open the database, creating it.
OpenApp ==
  /\ pc = "load"
  /\ manifest.whole /\ file.state # "torn"
  /\ file' = [file EXCEPT !.state = "ok"]
  /\ schema' = manifest.content
  /\ pc' = "ddl"
  /\ UNCHANGED <<manifest, db, snaps, clock, mode, job, counters>>

RefuseApp ==
  /\ pc = "load"
  /\ ~(manifest.whole /\ file.state # "torn")
  /\ Skip
  /\ UNCHANGED <<disk, counters>>

\* ApplyDDL: each statement commits on its own, tables before indexes.
MissingTables == DOMAIN schema \ DOMAIN db.tables

MissingIndexes(e) == UniqueFields(schema[e]) \ db.tables[e].unique

CreateMissingTable ==
  /\ pc = "ddl"
  /\ \E e \in MissingTables : db' = WithTable(db, e, CreateTable(schema[e]))
  /\ UNCHANGED <<manifest, file, snaps, clock, process, counters>>

CreateMissingIndex ==
  /\ pc = "ddl"
  /\ MissingTables = {}
  /\ \E e \in DOMAIN schema : \E f \in MissingIndexes(e) \cap DOMAIN db.tables[e].cols :
       db' = [db EXCEPT !.tables[e].unique = @ \cup {f}]
  /\ UNCHANGED <<manifest, file, snaps, clock, process, counters>>

\* The column is not there, or two rows hold one value.
RefuseIndex ==
  /\ pc = "ddl"
  /\ MissingTables = {}
  /\ \E e \in DOMAIN schema : \E f \in MissingIndexes(e) :
       f \in DOMAIN db.tables[e].cols => Cardinality(db.rows[e]) > 1
  /\ FlushLog
  /\ Skip
  /\ UNCHANGED <<manifest, db, snaps, clock, counters>>

Materialized == MissingTables = {} /\ \A e \in DOMAIN schema : MissingIndexes(e) = {}

\* A mutant: a fingerprint that differs is overwritten.
AdoptAnyFingerprint ==
  /\ pc = "ddl"
  /\ Materialized
  /\ VerifySchema(db.tables, schema)
  /\ db' = [db EXCEPT !.fp = {Fingerprint(schema)}]
  /\ Register
  /\ UNCHANGED <<manifest, file, snaps, clock, counters>>

\* VerifySchema and checkSchemaFingerprint.
AdoptFingerprint ==
  /\ pc = "ddl"
  /\ Materialized
  /\ VerifySchema(db.tables, schema) /\ db.fp = {}
  /\ db' = [db EXCEPT !.fp = {Fingerprint(schema)}]
  /\ Register
  /\ UNCHANGED <<manifest, file, snaps, clock, counters>>

\* A mutant: the boot checks the columns only.
AcceptColumns ==
  /\ pc = "ddl"
  /\ Materialized
  /\ VerifySchema(db.tables, schema) /\ db.fp # {}
  /\ Register
  /\ UNCHANGED <<disk, counters>>

AcceptSchema ==
  /\ pc = "ddl"
  /\ Materialized
  /\ VerifySchema(db.tables, schema) /\ db.fp = {Fingerprint(schema)}
  /\ Register
  /\ UNCHANGED <<disk, counters>>

RefuseSchema ==
  /\ pc = "ddl"
  /\ Materialized
  /\ ~(VerifySchema(db.tables, schema) /\ db.fp \in {{}, {Fingerprint(schema)}})
  /\ FlushLog
  /\ Skip
  /\ UNCHANGED <<manifest, db, snaps, clock, counters>>

Boot == \/ OpenApp \/ RefuseApp \/ CreateMissingTable \/ CreateMissingIndex \/ RefuseIndex
        \/ AdoptFingerprint \/ AcceptSchema \/ RefuseSchema

-----------------------------------------------------------------------------
(***************************************************************************)
(* Serving.                                                                *)
(***************************************************************************)
Write(e, r) ==
  /\ pc = "serving"
  /\ e \in DOMAIN schema \cap DOMAIN db.rows
  /\ \A a \in acked : a[2] # r
  /\ db' = WithRow(db, e, r)
  /\ acked' = acked \cup {<<e, r>>}
  /\ UNCHANGED <<manifest, file, snaps, clock, process, crashes, edits>>

AutoCheckpoint ==
  /\ pc = "serving"
  /\ file.image # db
  /\ FlushLog
  /\ UNCHANGED <<manifest, db, snaps, clock, process, counters>>

-----------------------------------------------------------------------------
(***************************************************************************)
(* migrate.Apply.  Every failure ends the command in log.Fatalf.           *)
(***************************************************************************)
NoChange ==
  /\ pc = "plan"
  /\ ValidManifest(job.new)
  /\ IsEmpty(schema, job.new)
  /\ Goto("finish")
  /\ UNCHANGED <<disk, counters>>

Permitted == job.confirm /\ MissingWitnesses(schema, job.new, job.witnesses) = {}

RefusePlan ==
  /\ pc = "plan"
  /\ \/ ~ValidManifest(job.new)
     \/ HasDestructive(schema, job.new) /\ ~Permitted
  /\ Down
  /\ UNCHANGED <<disk, counters>>

\* A mutant: a destructive changeset goes straight to its execution.
AdmitPlanWithoutSnapshot ==
  /\ pc = "plan"
  /\ ValidManifest(job.new)
  /\ ~IsEmpty(schema, job.new)
  /\ HasDestructive(schema, job.new) => Permitted
  /\ Goto("execute")
  /\ UNCHANGED <<disk, counters>>

AdmitPlan ==
  /\ pc = "plan"
  /\ ValidManifest(job.new)
  /\ ~IsEmpty(schema, job.new)
  /\ HasDestructive(schema, job.new) => Permitted
  /\ Goto(IF HasDestructive(schema, job.new) THEN "checkpoint" ELSE "execute")
  /\ UNCHANGED <<disk, counters>>

\* A mutant: data.db is copied without the log that completes it.
SnapshotWithoutCheckpoint ==
  /\ pc = "checkpoint"
  /\ Goto("create")
  /\ UNCHANGED <<disk, counters>>

SnapshotCheckpoint ==
  /\ pc = "checkpoint"
  /\ FlushLog
  /\ Goto("create")
  /\ UNCHANGED <<manifest, db, snaps, clock, counters>>

\* The copy, begun and done.  Its name sorts after every older one's.
WithSnapshot(t, snapshot) == [s \in DOMAIN snaps \cup {t} |-> IF s = t THEN snapshot ELSE snaps[s]]

\* A mutant: two snapshots get one name.
SnapshotOverLast ==
  /\ pc = "create"
  /\ clock' = clock
  /\ snaps' = WithSnapshot(clock + 1, [whole |-> FALSE, image |-> Blank])
  /\ job' = [job EXCEPT !.snap = clock + 1]
  /\ pc' = "copy"
  /\ UNCHANGED <<manifest, file, db, mode, schema, counters>>

SnapshotCreate ==
  /\ pc = "create"
  /\ clock' = clock + 1
  /\ snaps' = WithSnapshot(clock + 1, [whole |-> FALSE, image |-> Blank])
  /\ job' = [job EXCEPT !.snap = clock + 1]
  /\ pc' = "copy"
  /\ UNCHANGED <<manifest, file, db, mode, schema, counters>>

SnapshotCopy ==
  /\ pc = "copy"
  /\ snaps' = WithSnapshot(job.snap, [whole |-> TRUE, image |-> file.image])
  /\ Goto("execute")
  /\ UNCHANGED <<manifest, file, db, clock, counters>>

ExecuteNothing ==
  /\ pc = "execute"
  /\ AllNoSQL(schema, job.new)
  /\ Goto("promote")
  /\ UNCHANGED <<disk, counters>>

ExecuteCommit ==
  /\ pc = "execute"
  /\ ~AllNoSQL(schema, job.new)
  /\ ~ChangesetRefused(db.tables, schema, job.new)
  /\ db' = MigratedImage(db, schema, job.new)
  /\ acked' = {a \in acked : a[1] \notin Dropped(schema, job.new)}
  /\ Goto("promote")
  /\ UNCHANGED <<manifest, file, snaps, clock, crashes, edits>>

\* A mutant: a changeset that failed and left nothing to restore is promoted.
ExecuteFailAndPromote ==
  /\ pc = "execute"
  /\ ~AllNoSQL(schema, job.new)
  /\ \/ job.snap = 0 /\ Goto("promote")
     \/ job.snap # 0 /\ Goto("close")
  /\ UNCHANGED <<disk, counters>>

\* The schema refuses, or a row does, or the disk: the transaction rolls back.
ExecuteFail ==
  /\ pc = "execute"
  /\ ~AllNoSQL(schema, job.new)
  /\ \/ job.snap = 0 /\ Down
     \/ job.snap # 0 /\ Goto("close")
  /\ UNCHANGED <<disk, counters>>

\* restoreInPlace: close, overwrite the file, reopen.
RestoreClose ==
  /\ pc = "close"
  /\ FlushLog
  /\ Goto("truncate")
  /\ UNCHANGED <<manifest, db, snaps, clock, counters>>

RestoreTruncate ==
  /\ pc = "truncate"
  /\ file' = [state |-> "empty", image |-> Blank]
  /\ db' = Blank
  /\ Goto("restore")
  /\ UNCHANGED <<manifest, snaps, clock, counters>>

\* A mutant: the oldest snapshot is restored.
RestoreOldest ==
  /\ pc = "restore"
  /\ \E t \in DOMAIN snaps :
       /\ \A s \in DOMAIN snaps : t <= s
       /\ snaps[t].whole
       /\ file' = [state |-> "ok", image |-> snaps[t].image]
       /\ db' = snaps[t].image
  /\ Down
  /\ UNCHANGED <<manifest, snaps, clock, counters>>

RestoreCopy ==
  /\ pc = "restore"
  /\ file' = [state |-> "ok", image |-> snaps[job.snap].image]
  /\ db' = snaps[job.snap].image
  /\ Down
  /\ UNCHANGED <<manifest, snaps, clock, counters>>

\* os.WriteFile truncates manifest.json, then writes it.
PromoteTruncate ==
  /\ pc = "promote"
  /\ manifest' = [whole |-> FALSE, content |-> NoApp]
  /\ Goto("write")
  /\ UNCHANGED <<file, db, snaps, clock, counters>>

PromoteWrite ==
  /\ pc = "write"
  /\ manifest' = [whole |-> TRUE, content |-> job.new]
  /\ schema' = job.new
  /\ pc' = IF job.snap = 0 THEN "finish" ELSE "prune"
  /\ UNCHANGED <<file, db, snaps, clock, mode, job, counters>>

Newer(t) == {s \in DOMAIN snaps : s > t}

PruneOldest ==
  /\ pc = "prune"
  /\ \E t \in DOMAIN snaps :
       /\ Cardinality(Newer(t)) >= Retention
       /\ \A s \in DOMAIN snaps : s >= t
       /\ snaps' = [s \in DOMAIN snaps \ {t} |-> snaps[s]]
  /\ UNCHANGED <<manifest, file, db, clock, process, counters>>

PruneDone ==
  /\ pc = "prune"
  /\ \A t \in DOMAIN snaps : Cardinality(Newer(t)) < Retention
  /\ Goto("finish")
  /\ UNCHANGED <<disk, counters>>

\* The command returns; the registry closes the store.
Finish ==
  /\ pc = "finish"
  /\ FlushLog
  /\ Down
  /\ UNCHANGED <<manifest, db, snaps, clock, counters>>

\* Writing a file fails: a torn snapshot, a torn database, or a manifest.json
\* that is torn or could not be opened stays behind.
WriteFails ==
  /\ pc \in FaultPoints
  /\ pc \in {"create", "copy", "truncate", "restore", "promote", "write"}
  /\ file' = IF pc = "restore" THEN [state |-> "torn", image |-> Blank] ELSE file
  /\ Down
  /\ UNCHANGED <<manifest, db, snaps, clock, counters>>

\* All of Apply but the commit of the changeset.
Apply == \/ NoChange \/ RefusePlan \/ AdmitPlan
         \/ SnapshotCheckpoint \/ SnapshotCreate \/ SnapshotCopy
         \/ ExecuteNothing \/ ExecuteFail
         \/ RestoreClose \/ RestoreTruncate \/ RestoreCopy
         \/ PromoteTruncate \/ PromoteWrite
         \/ PruneOldest \/ PruneDone \/ Finish

-----------------------------------------------------------------------------
\* All but an edit and the commit of a changeset.
Routine ==
  \/ StartServe
  \/ \E new \in Manifests \cup {NoApp}, confirm \in BOOLEAN, w \in Witnesses : StartMigrate(new, confirm, w)
  \/ Crash \/ StopServe \/ WriteFails
  \/ Boot
  \/ \E e \in DOMAIN schema, r \in Rows : Write(e, r)
  \/ AutoCheckpoint
  \/ Apply

Next == Routine \/ ExecuteCommit \/ \E m \in HandEdits : EditManifest(m)

Spec == Init /\ [][Next]_vars

(***************************************************************************)
(* What an edited manifest takes for granted.  ApplyDDL commits before the *)
(* checks that may refuse the app, so that it leaves things behind: a      *)
(* database that was begun and has no fingerprint yet, and tables of       *)
(* entities that are in no accepted manifest.  The operator keeps from     *)
(* editing over the first, and gives the second a shape that fits when an  *)
(* entity of their name is added after all.                                *)
(***************************************************************************)
HalfBorn == db.fp = {} /\ DOMAIN db.tables # {}

CarefulEdit(m) == ~HalfBorn /\ EditManifest(m)

CarefulCommit == AdoptionsFit(db.tables, schema, job.new) /\ ExecuteCommit

CarefulNext == Routine \/ CarefulCommit \/ \E m \in HandEdits : CarefulEdit(m)

CarefulSpec == Init /\ [][CarefulNext]_vars

-----------------------------------------------------------------------------
(***************************************************************************)
(* Properties.                                                             *)
(***************************************************************************)
\* The assumption of the durability theorems: a process that overwrites data.db
\* with a snapshot gets to the end of it.
RestoreIsUninterrupted == "restore" \notin CrashPoints \cup FaultPoints

EntityIds == UNION {DOMAIN m : m \in Manifests}

IsImage(image) ==
  /\ image = [tables |-> image.tables, rows |-> image.rows, fp |-> image.fp]
  /\ DOMAIN image.tables \subseteq EntityIds
  /\ \A e \in DOMAIN image.tables : IsTable(image.tables[e])
  /\ image.rows \in [DOMAIN image.tables -> SUBSET Rows]
  /\ image.fp \subseteq {Fingerprint(m) : m \in Manifests} /\ IsOptional(image.fp)

IsFile(f) ==
  /\ f = [state |-> f.state, image |-> f.image]
  /\ f.state \in {"absent", "empty", "torn", "ok"} /\ IsImage(f.image)

IsSnapshot(s) ==
  /\ s = [whole |-> s.whole, image |-> s.image]
  /\ s.whole \in BOOLEAN /\ IsImage(s.image)

\* Every variable has the shape the code gives it; the snapshots' timestamps
\* are those given out so far.
TypeOK ==
  /\ manifest \in [whole : BOOLEAN, content : Manifests \cup {NoApp}]
  /\ manifest.whole => manifest.content \in Manifests
  /\ IsFile(file)
  /\ IsImage(db)
  /\ clock \in Nat
  /\ DOMAIN snaps \subseteq 1..clock
  /\ \A t \in DOMAIN snaps : IsSnapshot(snaps[t])
  /\ pc \in {"down", "load", "skipped", "ddl", "serving", "plan", "checkpoint", "create", "copy",
             "execute", "close", "truncate", "restore", "promote", "write", "prune", "finish"}
  /\ mode \in {"serve", "migrate"}
  /\ schema \in Manifests \cup {NoApp}
  /\ job \in [new : Manifests \cup {NoApp}, confirm : BOOLEAN,
              witnesses : Witnesses \cup {NoApp}, snap : 0..clock]
  /\ acked \subseteq EntityIds \X Rows
  /\ crashes \in Nat /\ edits \in Nat

Holds(image, a) == a[2] \in RowsOf(image, a[1])

\* An app is served, or migrated, only over a database that enforces the
\* schema it is served with and that carries its fingerprint (boot.go:38-51).
ServedSchemaHolds ==
  pc \in {"serving", "plan"} =>
    Conforms(db.tables, schema) /\ db.fp = {Fingerprint(schema)}

\* Every constraint of the schema an app is served, or migrated, with is in its
\* database, though refused edits may have left more there (boot.go:38-51).
ServedSchemaEnforced ==
  pc \in {"serving", "plan"} =>
    Enforced(db.tables, schema) /\ db.fp = {Fingerprint(schema)}

\* The recorded fingerprint tells the truth about the tables: every constraint
\* it stands for is there, whatever boots of other manifests have created in
\* between (boot.go:44-51, execute.go:24-28).
FingerprintIsTruthful ==
  \A m \in Manifests : db.fp = {Fingerprint(m)} => Enforced(db.tables, m)

\* What a client was told is stored is there whenever the app is served.
AckedRowsServed == pc = "serving" => \A a \in acked : Holds(db, a)

\* While the database file is destroyed, be it by a restore under way or by
\* one that died, the newest snapshot is whole and holds every acknowledged
\* row (snapshot.go:27-61).
SnapshotSavesRows ==
  (file.state \in {"empty", "torn"}) =>
    \E t \in DOMAIN snaps : /\ Newer(t) = {}
                            /\ snaps[t].whole
                            /\ \A a \in acked : Holds(snaps[t].image, a)

\* With no edit of manifest.json, no app is ever left half-migrated: when no
\* process runs, the manifest is whole, and the database that has been
\* materialized is the manifest's (schema-migration/spec.md:27-38).
NeverHalfMigrated ==
  (pc = "down" /\ edits = 0) =>
    /\ manifest.whole
    /\ db.fp # {} => Conforms(db.tables, manifest.content) /\ db.fp = {Fingerprint(manifest.content)}

\* What a column of the later schema can no longer hold of the earlier one.
Narrows(old, new) ==
  /\ new # old
  /\ \/ new.affinity # old.affinity /\ ~(old.affinity = "INTEGER" /\ new.affinity = "REAL")
     \/ \E was \in old.checks, is \in new.checks :
          was[1] = "in" /\ is[1] = "in" /\ ~(was[2] \subseteq is[2])

\* A step loses rows, the column that held their values, or some of the
\* values that column could hold.
LosesData(before, after) ==
  \E e \in DOMAIN before.tables :
    \/ ~(RowsOf(before, e) \subseteq RowsOf(after, e))
    \/ /\ RowsOf(before, e) # {}
       /\ \E c \in DOMAIN before.tables[e].cols :
            \/ c \notin DOMAIN after.tables[e].cols
            \/ Narrows(before.tables[e].cols[c], after.tables[e].cols[c])

\* No step loses data unless the operator confirmed it, gave the witnesses it
\* needs, and the newest snapshot is a whole copy of what is about to be lost
\* (changeset.go:1-5).
LossIsGuarded ==
  [][LosesData(db, db') =>
       /\ Permitted
       /\ \E t \in DOMAIN snaps : Newer(t) = {} /\ snaps[t] = [whole |-> TRUE, image |-> db]]_vars
=============================================================================
