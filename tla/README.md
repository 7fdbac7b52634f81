# Verification of pocketknife

pocketknife runs small apps from declarative manifests. An app is a directory
with a `manifest.json`, a SQLite file `data.db` and a directory `.snapshots`;
one binary serves every app over HTTP and MCP (`serve`), and upgrades one app to
a new manifest (`migrate`). These modules model the part of it that can lose or
spoil a user's data or act without consent: how a manifest becomes a database schema; how
a change of manifest changes the schema and the rows; how booting, seeding, serving, migrating
and dying processes share the files; how concurrent requests and tool calls share the rows;
and what an app's untrusted functions may do to them.

## Inventory

| Component | State | Operations | Meets | What makes it correct |
|---|---|---|---|---|
| Manifest and validation (`schema`, `validate`) | none | parse, validate | everything reads it | only manifests the rest can handle pass |
| Fingerprint (`schema/fingerprint.go`) | none | digest | boot, executor | equal digests mean equal constraints |
| Materialization (`materialize`) | none | manifest to DDL | boot, executor | the tables enforce the manifest |
| Diff, classify, witness gate (`migrate`) | none | changeset of two manifests, class of each operation, witnesses it needs | apply flow | safe means no row is lost; every change can be requested |
| Executor (`migrate/execute.go`) | the database, in one transaction | native statements or table rebuild | store | ends at the schema a fresh materialization gives |
| Apply flow (`migrate/apply.go`, `snapshot.go`) | `data.db`, `.snapshots`, `manifest.json`, registry | gate, snapshot, execute, restore, promote, prune | all of the above | all or nothing; no row lost without consent and a way back |
| Boot and registry (`registry`) | the registry | open, create tables, check columns, check or adopt fingerprint, register or skip | store | never serves a schema the database does not enforce |
| Store (`store`) | `data.db` and its log; one connection | open, DDL, checkpoint, migration transaction, rows | SQLite | a migration commits whole or not at all |
| Row operations (`domain`) | none | coerce, create, read, list, update, delete | store, API, MCP, tools | references exist, constraints hold, concurrent requests do not break either |
| Tools (`tools`) | one transaction per call | resolve templates, run steps | domain, store | a call applies whole or not at all |
| Seeding (`seed`) | one transaction per app | first boot only | boot, domain | an app is seeded completely, once, before it is served |
| Sandbox (`sandbox`) | compile cache, one state per invocation | compile, invoke, gated host calls | store, domain, broker | capabilities, limits, no shared state, true answers |
| Consent (`consent`) | none (its caller keeps the grants) | union of capabilities, widening | sandbox | a wider function does not run on an old consent |
| Broker, API, MCP, validate endpoint, CORS | none | requests | outside | stateless |
| Command line (`cmd/pocketknife`) | the process | serve, migrate, validate | all | failures end the process without closing the store |

Hard behaviours: DDL at boot commits statement by statement; the changeset's
commit, the write of `manifest.json` and the snapshot's pruning are three separate
writes; the restore overwrites `data.db` in place; the write-ahead log makes the
database file alone stale; a manifest is also edited by hand; classification, the
fingerprint, the executor and the materializer each have their own idea of which
members of a field matter; a catalog may name one app twice; a row operation is several
statements of one connection that is free in between; a guest makes any call in any order, may
never return, and runs on while its manifest or its binary is replaced. The hazards of PROJECT.json give each at its line.

## Modules

`Schema` - manifests, the validation gate, the fingerprint, and the lowering of a
manifest to tables. A field is a record of the members the rest of the code reads;
an optional member is a set of at most one element. A column carries what SQLite
enforces: affinity, NOT NULL, CHECKs, foreign key, DEFAULT clause. `Conforms` is
the reference definition of "the database enforces the manifest"; `VerifySchema` is
the code's own check, which compares column names only. A text is its length, the
number a CAST finds in it and the pieces its commas cut it into, because lengths,
casts and the comma join of the fingerprint are what the code tells texts apart by.

`Changeset` - `Diff`, `Classify`, the witness gate and what `applyChangeset` does to
a schema (`ApplyChangeset`) or why SQLite refuses it (`ChangesetRefused`). A changeset
is a set: its order only orders statements of one transaction.

`Evolution` - an app under any sequence of completed migrations: the changeset
engine alone, over a large universe of manifests. `Migrate` is the effect of one
whole `Apply`.

`IndexNames` - `Evolution` one level down: tables and unique indexes under the names SQLite knows them by (`db`), and the
statements of `materialize.Statements` and `applyChangeset` in their order: CREATE ... IF NOT EXISTS skips a name
that is taken, DROP INDEX goes by name, DROP TABLE takes indexes along, a rebuild needs a free temporary name.
`BySet` maps it to `Evolution`, where a table's unique columns are a set. `Load` runs the DDL again over an
existing database; the migrate command is a `Load` and then `Apply`. `InOrder` is a loop over a manifest's entities.

`Migration` - one app, its files and the processes that use them. `manifest`
is `manifest.json` (whole, or truncated while it is written), `file` is `data.db`
without its log, `db` is what a connection reads, `snaps` the snapshots by timestamp,
`pc` the step of the process that runs, `schema` its registered manifest, `job` the
arguments of `Apply`. Each action is one step between two points where a death is
visible on disk: `OpenApp` to `RefuseSchema` are `registry.Load`; `NoChange` to `PruneDone` are
`migrate.Apply` in its order; `RestoreClose`, `RestoreTruncate`, `RestoreCopy` are
`restoreInPlace`; `PromoteTruncate` and `PromoteWrite` are the two halves of
`os.WriteFile`. `acked` observes the rows a client was told are stored; only the drop of
their entity, confirmed, takes them out.

`AtomicUpgrade` - what the apply flow promises a client: an app at one manifest with
its rows, upgraded in one step. `MigrationRefinement` maps `Migration` to it: the app is at
its new manifest from the commit of the changeset on, and a database under restore
stands for the snapshot it is restored from.

`RowStore` - the rows of one app and the statements of `store` on them: insert, partial
update, delete with its cascades, and the error SQLite answers a statement with. A
database is one function from row ids to rows, since ids are unique over the tables; the
column `updated_at` is left out, and so are CHECKs, which ask what coercion has asked.

`Runtime` - requests of several clients over one served app. `call[c]` is the local state of
one handler: its step (`pc`), the references still to be checked (`checks`), the row update
found first (`existing`), a tool's next step (`k`) and its results. A plain request is
`CreateIn`, `UpdateIn` and so on cut at each statement, because the store's only
connection is free between two statements: `Find`, `CheckReference`, `Insert` or `Update`, `Reread`. Any of these statements may
`Fail`, the read-back after the committed write too: the caller is then told of an error, and the row is there.
A tool call holds the connection (`conn`) from `ToolBegin` to `ToolCommit` or `ToolRollback` and
works on its own rows (`work`); each `ToolStep` is a whole step, since nobody else can run in
between. A list is `Count` and `Select`. `Cancel` ends a tool's context. A step's outcome is a set
of one element, so that it is computed once. A filter is refused as `query.go` refuses it (`BadQuery`): the system columns may be
asked about, a datetime must be one (`Datetimes`), and what two values compare as is `Matches`. Sort keys and the order in which one request's
references are checked are left out: a page is any set of matching rows of the right size.

`RowMigration` - extends `Evolution` by the rows: what the statements of a migration do to them.
Values are tagged with their SQLite storage class; a real is held in quarters, the least fraction at which rounding, truncating,
flooring and ceiling are four different things, and halves are among them. A text says what integer it begins with (what a CAST to INTEGER takes: 0 of
`0.2e1`) and, in `Leading`, what number (what a CAST to REAL takes: 2). `SelectExpr`, `FilledIn`, `SqlLiteral`, `CoerceExpr` and
`RemapExpr` are the expressions of `execute.go` and `witness.go`; `Cast`, `Round` and `WithAffinity` are what
SQLite does with them; `RowsAccepted` is what makes the transaction fail. Nothing in the code compares a backfill with its field's
type, and nothing here does: the history variable `typed` says whether every backfill so far was a value of its field's type. A rebuild drops the old
table while others refer to it (`DroppedWithTable`). `Maps` is the reference definition: what the
comments of `witness.go` say a witness means, without SQL.

`Boot` - a catalog of several directories, the serving process and migrate commands. `Stat` and `OpenApp` are the
two steps of `registry.Load` between which another process may create the same `data.db`;
`SeedPass` to `SeedFails` are the loop of `runServe` and `seed.Apply`, row by row in one transaction (`tx`).
`results` is what `Load` returns, `reg` the registry, `turn` the loop's index. Opening, materializing and checking
one app is one step here and five in `Migration`; a whole migration is one step.

`Capabilities` - a function's capabilities, their validation, their checks, and package `consent`.

`Sandbox` - extends `RowStore` by the functions. `run[c]` is one goroutine's `Compile` and `Invoke`, with the
invocation it threads through the host calls: `mod` the compiled module, `output` and `pending` its buffers, `ask`
the gated call under way and how far it got, `asked` the number of the last call that got past its memory range. `pending` stays what it was until a
handler answers (`Finish`), so a call that is refused for its range leaves the answer before it, and a denied one clears it. The URL of a fetch is the
host and the path put together, and `joins` says what a path that does not begin with a slash makes of the host (`HostReached`). A statement of the store may fail
(`StatementFails`), the read-back of a committed write too. `Lookup`, `ReadAndCompile` and `Publish` are the critical
sections of `Compile`; `Gate` to `Read` are the handlers, cut at each statement of the store. `Guest` is
what a guest may do, in any order; a deadline (`Timeout`) reaches a guest or a provider but not
a statement. `Upgrade` is a new version of the manifest: the user agrees to what `consent.Widened` shows.

`ChangesetProofs`, `EvolutionProofs`, `IndexNamesProofs`, `MigrationProofs`, `BootProofs`, `RowStoreProofs`,
`RuntimeProofs`, `SandboxProofs` - the theorems. The modules `MC...` give the instances.

External to the code and modelled from how it is used: SQLite's automatic
checkpoint (`AutoCheckpoint`), its conversions of values, the death of a process (`Crash`), the hand that
edits a manifest or a catalog and deletes a database (`EditManifest`, `EditCatalog`, `DeleteData`), the author who
replaces a binary (`ReplaceFile`), the guest program.

## Runs

Passing:

- `Evolution`: 105 manifests - thirteen shapes of one field (types, requiredness,
  uniqueness, defaults, enums, two references) beside variants of a second field,
  with and without a second entity, renamed or not - and every migration between any
  two, in every order. SchemaConforms: native and rebuild paths together always end at
  the schema a fresh materialization gives. NextBootAccepts: the next boot serves what a
  migration leaves. RefusedOnlyForDrops: the executor refuses, whatever the rows, only
  drops of indexed or referencing columns. SafeMapsForward: a changeset with no
  destructive operation keeps every value the old columns admit. Every pair of
  manifests is one step, so longer sequences add no new kind of step; two fields are
  enough for native, rebuild, safe and destructive operations to meet in one changeset.
- `Migration`: six manifests that make an all-rename, a safe rebuild, a destructive
  drop, an added entity, a dropped one and a new unique index; one row, two snapshots with a
  retention of one, two crashes at any step of `EveryStep`, writes of the snapshot that
  fail. It shows durability of acknowledged rows, the snapshot's coverage of every restore,
  that nothing is half-migrated outside the promotion, that any loss was confirmed,
  witnessed and snapshotted, and that the flow refines `AtomicUpgrade`.
- `Migration_Edits`: `manifest.json` is overwritten by hand twice, by versions that add an entity or a unique field, change a constraint or drop a
  field, and processes die at any step, in the promotion and the restore too. A boot creates what the edited manifest adds before it
  refuses the app, so tables and indexes stay behind that no manifest asked for. FingerprintIsTruthful: a recorded fingerprint stands for constraints
  that are enforced. ServedSchemaEnforced: what is served or migrated is enforced. LossIsGuarded holds for edits too. The steps are those of
  `CarefulSpec`: an operator does not edit over a database whose first boot died half way (`HalfBorn`), and when an entity of which a refused boot left
  a table is added after all, it is added in the shape of that table (`AdoptionsFit`). Both are needed, as the findings below say.
- `RowMigration`: eleven manifests of a task - its field in nine shapes, dropped, or added with a default -
  with a reference to a person whose table is rebuilt too; up to two rows, nine values (integers, reals with and without a
  fraction, one of them negative, whole, partial and exponential numerals, a plain text), seven sets of witnesses (the three modes of
  coercion, backfills of which one suits no field of numbers, a remap). ValuesMapAsDeclared: each value a migration would leave is what its
  witness means, and other values stay; three quarters tell rounding from truncating, whatever the sign. TypedRowsHold: after any sequence of migrations the rows
  are rows of the manifest, as long as every backfill was of its field's type. BackfillsNulls: no migration fails for a null that a backfill was asked and given for. RowsKept: no row goes with a table dropped for a rebuild. SafeChangesetsRun:
  what is called safe runs over the rows there are. Two rows are the least that meet in a
  unique index, and one reference the least a cascade needs.
- `IndexNames`: 110 manifests of a task with or without a task log, fields unique, required, renamed, with a default,
  that come and go. ImplementsEvolution: as long as no two columns share an index name (`NamesNeverMeet`; ids may contain underscores, and the findings give a pair that does), boots and
  migrations do by name what `Evolution` says of sets, so its abstraction of names is sound. NamesRefuseNothing: no temporary
  table and no index stands in the way of another. Two entities are enough, since every statement concerns
  one or two names.
- `Boot`: three directories, two with the same app id; a library whose second book file may
  dangle, a journal with a seed file its manifest does not allow; a server, one migrate command, failing statements of
  one app, one edit (of a directory, or a deleted database), any number of restarts and deaths at any step. SeededOnce,
  SeededWhole and SeededBeforeServed say that the boot that created a database leaves all of the seed in
  it, once, before it serves it; OthersServed that only an app's own faults keep it from being served. A migrate command that
  waits for a seed transaction's lock may give up (`MigrateFails`). Two directories of one id are the
  least that replace each other in the registry, one more shows that the rest is served.
- `Sandbox`: two callers, two invocations, one gated call each of seven (one for each handler), limits of one, failing statements; two functions
  that share a module, and one edit: a second version that widens one function and takes everything from the
  other, or a new binary. OneModule: whoever compiles a path runs what was published first. AnswersTruthful:
  what a guest is told is what its call did, but for a backend error of a create or an update. RowsHold: functions'
  calls keep the constraints among each other. InvocationsEnd assumes weak fairness of the host's
  goroutines and the deadline only; guests and providers owe nothing. Two callers make every pair of calls
  meet at every statement, and a second call finds nothing that the first could not leave for the other caller.
- `Sandbox_Versions`: one caller, two invocations of two calls each of nine (fetches of two hosts and with a path that goes on with the host's name among them), and two
  edits among three versions: widened, narrowed to nothing, widened again, while an invocation runs on. AnswersAreOwn: after a call that was
  denied, refused, failed or answered a guest reads the result of the last one that got past its memory range, and nothing of a denied one. EffectsConsented: no
  effect the user was not shown, but for fetches with such a path. Two calls are the least of which one can leave its answer to the
  next; three versions are the least in which a function is narrowed and widened again.
- `Runtime`: two clients send three requests of fifteen over people, tasks and notes that use each of
  the three on-delete actions, with a unique title and a bounded one, and a tool of six steps whose
  last fails when a note holds a task. Constraints hold although a reference is checked before
  the row is written; failed requests and tools write nothing, but where the read-back of a committed create or update fails or
  finds no row; an update changes only the fields
  it names, although it reads the row first; a tool that commits ran whole, alone, on the database
  it began with; and everybody is answered, whoever holds the connection. Fairness is weak, of each
  handler: goroutines are scheduled, and `database/sql` serves those who wait for the
  connection in turn (with a bound on requests, weak fairness says as much). Two clients make every
  pair of handlers meet at every statement; the third request finds what two left behind.
  Nothing happens once all requests are answered, so deadlock is not checked there; `RequestsAnswered`
  says that no request is stuck.

What each bound leaves out: two crashes, because after the second one the process is down in a state
that the first could have left; two snapshots, because retention is compared
with their number and one of each side suffices; one row in `Migration`, where rows are copied and lost only as a
set; at most two edits, since the second can restore what the first changed.

Violations - each is a disagreement between the code and what its own comments or
specification say, with the quotation under "findings":

- `Evolution_RenameBounds`: a rename with a new `max` is promoted without SQL or fingerprint; the next boot refuses the app.
- `Migration_Restore`: a death during the restore makes the next boot serve an empty database.
- `Boot_Unseeded`: the migrate command creates the databases of a catalog, and no boot seeds them.

Other findings are what a run leaves out by name. Each comes back as a counterexample when that one thing of the run is changed:

- `Migration` with `promote` among its `CrashPoints`: a death between the commit and the end of the promotion leaves the app half-migrated (`NeverHalfMigrated`).
- `Migration_Edits` under `Spec` instead of `CarefulSpec`: a first boot that died between its tables and the fingerprint lets an edited manifest be
  adopted, and the table that a refused boot made of an added entity is taken for that of another shape by the migration that adds it (`FingerprintIsTruthful`).
- `Migration_Edits` with `ServedSchemaHolds`: the unique index that a refused boot made stays when the edit is taken back, and refuses rows the manifest
  allows. With two manifests of the enum values `a`, `b` and of the one value `a,b`, which have one fingerprint, it serves one over the CHECK of the other.
- `RowMigration` with `StoredRowsHold` instead of `TypedRowsHold`: a text given as the backfill of a field of numbers is stored.
- `RowMigration` with a pair of manifests that `ManifestsAreTold` refuses, one of which adds a unique field with a default: that is called safe, and fails over two
  rows (`SafeChangesetsRun`).
- `RowMigration` with a field that widens and becomes required at once, and `BackfillsNulls` without its exception: no null of it is backfilled.
- `Sandbox_Versions` with `EffectsConsented` without `KeepsHost`: the host that is checked need not be the host of the URL, when the path does not begin with a slash.

"findings" also lists what needs no run to be seen: two unique fields whose index names
coincide (`log_title` of `task`, `title` of `task_log`) get one index between them, and one is not unique; a unique field cannot be
dropped; a field that needs two witnesses can be given
one; rounding to boolean truncates; a gated call with a bad range leaves the previous answer pending; a create or an update
whose row is deleted before it is read back answers success without a row, and so does a function's update of
a row that never was; a list's total and its rows are of two moments; of two directories with one app id the first store
is never closed; integers beyond 2^53 do not survive a widening called safe.

## Proofs

`MigrationProofs`, for every set of manifests, witnesses and rows, every retention, every
bound and every set of crash and fault points:

- `TypeCorrect`: `Spec => [](TypeOK /\ Phases)`. `TypeOK` alone is not inductive: a commit records the
  fingerprint of `job.new` and a restore reads `snaps[job.snap]`, so `Phases` says at which steps the job,
  the registered schema and its snapshot are there.
- `AckedRowsAlwaysServed` and `SnapshotAlwaysSavesRows`, under `RestoreIsUninterrupted` (no process ends
  between the truncation of `data.db` and the end of its restore; the run `Migration_Restore` shows the
  assumption is needed). The inductive invariant is `TypeOK /\ Phases /\ Durable`: from the copy to
  the end of the transaction the newest snapshot is this job's and equals the database, and while
  the file is empty the snapshot stands in for it; acknowledged rows are in whichever of the two counts.

`ChangesetProofs` and `EvolutionProofs`, for every pair, and every universe, of valid manifests in which a field
keeps its bounds unless its table is rebuilt (`BoundsAgree`: `Diff` does not compare `min` and `max`, and the run `Evolution_RenameBounds`
shows the assumption is needed):

- `ExecutorIsSound`: a changeset takes a database that enforces the old manifest to one that enforces the new. `Diff` leaves
  nothing out (`EntityOperations` to `FieldOperations`), so a field without an operation that rebuilds keeps a column that
  is still right (`ColumnKept`); the native statements, the rebuild and CREATE TABLE each make the others.
- `SchemaAlwaysConforms`, `NextBootAlwaysAccepts`, `OnlyDropsAreRefused`: `SchemaConforms` becomes inductive with the
  fingerprint beside it (`EvolutionInv`); renames alone open no transaction and leave both as they are (`RenamesChangeNothing`).

The rows, in `EvolutionProofs` too, for every set of values, witnesses, row ids and numerals, of any size:

- `RowsAreOfTheManifest` (`TypedRowsHold`), `RowsAreKept` and `WitnessesMeanWhatTheySay` (`ValuesMapAsDeclared`), under
  `ScalarsAreRendered` besides (every number has a text, and so has a truth value, as in SQLite and Go; a bounded instance renders only its own). That every backfill
  was a value of its field's type is no hypothesis of the theorem but in the property (`typed`), since the code accepts any. `TypedRowsHold`
  speaks of the manifest, but what the next migration reads is the database, and a table that is not rebuilt keeps columns that
  an earlier manifest made. So the inductive invariant `RowInv` is about the database: `EvolutionInv`; every value is what its column's affinity leaves as it is and
  its checks let pass (`Sits`), the unique indexes hold and so does the foreign key check (`FitRows`); and, as long as `typed`, every value is of its column's class
  (`TypedRows`). The argument goes by storage class:
  a CAST ends in the class it is to (`CastTo`), column affinity keeps what a value is worth and leaves a value of the column's own class
  alone (`AffinityKeeps`), the literal of a valid default, or of a backfill of the right type, is of its field's class (`Literals`). With that each branch of
  `SelectExpr` is looked at once: fields that keep their type (`SelectsSame`), widen (`SelectsWider`) or narrow (`SelectsNarrower`), where the guard of
  `coerce=fail` is what makes a copied value fit. That the witness is there at all, and of the kind the branch
  reads, follows from the gate (`AdmittedIsWitnessed`); the code checks it a second time and the proof shows it need not.
- `SafeChangesetsMapForward` (`SafeMapsForward`) and `SafeChangesetsCommit` (`SafeChangesetsRun`), under `SafetyOverlooksNothing`: a changeset without a destructive
  operation tightens no bound and gives no field that is new and unique a default (`NothingTightened`). `Classify` looks at neither, and
  the findings name both; `MCRowMigration` evaluates the assumption on its manifests. `Classify` looks at one operation at a
  time; the theorems are about all operations of a changeset together (`SafeFields`), and the second about the rows too: values that differ stay
  different when they widen (`WidenedDiffer`), a new unique or referencing field is null, and the rows others refer to stay.

The second half of `MigrationProofs` brings in `ChangesetProofs`, for every set of manifests as above whose enums no two of which
join to one list (`EnumsToldApart`; the run `Migration` evaluates both on its instance), every retention, every bound:

- `ServedSchemaAlwaysHolds` and `LossIsAlwaysGuarded`, for an app whose manifest nobody edits by hand, wherever processes die and writes
  fail. What is served is not inductive, since a boot checks columns by name and takes the fingerprint's word for the rest. `SchemaInv`
  says what the word is worth: a database that carries the manifest's fingerprint enforces it, one that carries
  none has only the manifest's own tables (`Fresh`: a first boot may die between two of them), and from the commit to the end of the promotion
  it is at the new manifest. A death in between leaves a manifest whose fingerprint is not the database's, and the app is not served
  again; this is where enums that join to one list would deceive the boot. The loss of data needs `GateInv` too: at the execution,
  a destructive changeset has a snapshot, and a snapshot was permitted (`SafeCommits`: a safe one loses nothing).
- `FingerprintAlwaysTruthful`, `EditedSchemaAlwaysEnforced` (`ServedSchemaEnforced`) and `EditedLossIsGuarded`: the truth of the fingerprint, the schema served and the guard
  of a loss, when the manifest is edited by hand any number of times, by versions that create tables and indexes too, wherever processes die, for every behaviour of `CarefulSpec`.
  `TruthInv` no longer ties the database to the manifest: a database with a fingerprint has the tables of some manifest and enforces it, whatever
  else refused boots have left beside, and one without is empty, or what the boot under way, or one that died, has made of the manifest that is still there. What stays
  behind is only ever more than a manifest asks for (`MoreIsEnforced`), so the schema served is enforced, and the database may enforce more. A migration that adds an entity may meet its table, which is where `AdoptionsFit` is used.
- `NeverLeftHalfMigrated`, under `PromotionIsUninterrupted` besides (no process ends between the commit and the end of the promotion);
  until an operator edits the manifest.
- `UpgradesAreAlwaysAtomic`: `Migration` implements `AtomicUpgrade`, under all of these and `RestoreIsUninterrupted`. The commit is the
  upgrade, a write is an insertion, and each of the other steps is a stutter, by the invariants above.

`IndexNamesProofs`, for every set of valid manifests, every order of their entities, and all ids, under `NamesNeverMeet`: no index has the
name of another or of a table, and no table that of another's rebuild. Ids may contain underscores, so the code does not see to it, and the
findings give two columns that share a name. `MCIndexNames` evaluates it for ids with underscores, and `PlainNamesNeverMeet` proves it where no
id of an entity has one (the ids of fields may).

- `NamesImplementSets` (`ImplementsEvolution`) and `NamesAlwaysRefuseNothing` (`NamesRefuseNothing`). Neither is inductive: both speak of
  tables and unique columns, and the next statement goes by the names underneath, where an index left over, or one of a wrong name,
  is not seen until a statement meets it. `IndexInv` says that the database is, to the last name, the one that its tables and their unique
  columns make (`Db`), at the shape of its manifest (`Shape`: columns and unique columns). Each statement takes such a database to such a database
  (`TableCreated` to `TableGone`), and so does each path of the executor for one entity (`EntityCreated`, `EntityRebuilt`, `EntityAltered`), where
  the native path's refusals turn out to be those of `NativeRefused`. That no index of a table about to be created is in the way, and that
  a DROP INDEX finds what it names, is where `NamesNeverMeet` is used. The loops over entities are folds, functions on the sets of places of an order: two
  such functions that take the same steps agree on the whole (`FoldsAgree`, by the least size of a set on which they do not), so each loop
  has a lemma that says what it makes of all entities (`TablesCreated` to `EntitiesDropped`), and `Executed` puts them together.
  The operators of `Evolution` under `BySet` are instances of their own to the prover; `SameDifference` to `SameChangeset` say that they are the same.
- `IndexedSchemaConforms`: with `ExecutorIsSound`, and so under `BoundsAgree`, the database by its names enforces the manifest: each unique field
  has an index, and no other column has one.

`BootProofs`, for every catalog, every set of manifests and seed folders, and every number of migrate processes:

- `SeedingHappensOnce`: `SeededOnce` is not inductive, since nothing in it keeps two results of one boot from
  both calling an app fresh. `BootInv` adds that at most one result still to be acted on claims an
  app, that a claimed app has a database and no seed, and that a boot that found no database
  (`Looking`) holds for an unseeded app too - whoever creates the file in between.
- `SeedsAreWhole`, `SeedingComesFirst`, `OthersAreServed` and `BootsAreTyped`, by `SeedInv` beside it: every batch in a database is
  the whole list of a folder's rows (`Filled`), a result the loop is done with is that of an app that was seeded
  or has gone (`Done`), and an app that has gone, or never was registered, has itself to blame (`Accounted`) - still, when somebody looks,
  because versions only go up (`Aged`). That the list has every row of every file in the file's order is a matter of a flattened sequence
  (`FlattenPlaces`), by induction over the files: with a set that contains 0 and the successor of each of its members, since the induction
  theorems of the library are out of reach.

`RowStoreProofs` and `RuntimeProofs`, for every app, set of clients, requests, tools and initial rows that keep the constraints
(`RequestsAreKnown`: a request is on an entity of the app or a tool of it; `ToolsAreValid`: so is each step of a tool, as the validation gate
asks; `DatabasesHold`; `IdsAreOld`: new ids are new):

- `RowsStayConstrained` (`ConstraintsHold`): references, uniqueness and required fields, after any interleaving. A reference
  that was checked may be gone when the row is written; SQLite's own check then refuses the statement, and the proof never uses the
  earlier one. Each statement of the store keeps the constraints (`RowStoreProofs`); for a delete, the rows that go are the least set
  that has the row and, with any row, those that cascade to it, and leastness is all the proof needs, so there is no induction over chains of references.
- `FailuresNeverWrite` (with the exceptions the property names: the read-back of a committed create or update), `UpdatesArePartial`, `ToolsAreAtomic`: `RuntimeInv` says that the rows a tool works on are sound
  and began as the committed ones, that only the holder of the connection is between two steps of a tool and nobody has written since
  it began (`Holds`), and that a request writes in its last statement but the reread (`WritesLast`).

`SandboxProofs`, for every set of callers, functions, requests, files and bounds:

- `ModuleIsShared`, `ResultsAreOwn`: `AnswersAreOwn` is not inductive, since an answer outlives its call until the next one is answered; `SandboxInv` ties what is pending to the
  call it answers and counts the calls in order (`Counted`). It is local to an invocation
  but for the cache, which only grows; so a step of one caller needs to be looked at for
  that caller only (`LocalStep`), and one that returns to the guest in one place (`FinishStep`).
- `FunctionsActAsConsented`: `EffectsConsented` is not inductive, since the gate compares a call with the capabilities of
  the version the invocation was started under, not with the consent. `ConsentInv` says that the consent covers every
  declared function and every invocation under way. It is kept because `Widened` is exactly what the new union adds to the old,
  and because consent never shrinks. What is
  consented is the host that is checked: fetches whose path goes on with the host's name are outside of the property.
- `FunctionsKeepConstraints` (`RowsHold`) and `GuestsAreToldTheTruth` (`AnswersTruthful`), from `RowStoreProofs` and an invariant (`RowsInv`) that says how far a
  data call has got: it writes in one statement, before which it has written nothing and after which only its read-back can fail, which is the
  one error of a create or an update that `AnswersTruthful` lets a write precede.
  That a call is on an entity of the app follows from the gate and from `OperationsAreOfEntities`, since capabilities are validated against those.

The assumptions of the constants are those of the modules, and TLC evaluates them on every run: manifests are valid, with enum values and defaults
that JSON has; versions, ids, values and witnesses are of their kinds; edits, folders and files are of their sets, and lists are finite; a
numeral of a number is worth the number; requests are of the six kinds; the server is no migrate process, retention is positive and
the bounds are naturals. SHA-256 is taken to be injective. The hypotheses of a theorem (`BoundsAreKept` and the like) are named above; `MCMigration` and
`MCRowMigration` evaluate those that range over a finite set. `IndexNames` assumes besides that two ids do not have the same pieces, that the order lists
every entity once, and that an entity has finitely many fields.

Only model-checked: liveness, which is out of the prover's reach - `RequestsAnswered` and `InvocationsEnd`, under the weak fairness of the handlers' and the
host's goroutines. `Boot` and `Migration` are checked without fairness: their loops are over the files and entities of one process, and what could keep
an app from being served for good, a death at the wrong moment, no fairness undoes. Every other property that a passing run checks is also a theorem, but for `BackfillsNulls`.

## Not modelled

A checkpoint, or a migration statement by statement, beside a serving process of the same app: `Migration` runs
one process at a time, and in `Boot` a migration is one step. The repository declares the serialization of the two
out of scope (docs/stabilization-followup-report.md:154). Values of rows in `Migration` (a row is its id: what a witness does to a
value is `RowMigration`, and what a CHECK refuses there is the nondeterminism of `ExecuteFail`); the order of fields; sort keys of lists; the checks a manifest's tools pass at validation; memory, WASI
and encodings of the sandbox; HTTP, MCP and CORS, which translate and keep no state; the list under "components" in PROJECT.json gives
the rest with its reasons. A file that is partly copied is "torn" and refused by SQLite; one of length zero is opened as a new database.

## What is left

1. A serving process beside the migrate command at the level of statements: the busy checkpoint, and a server on tables
   that change under it.
2. The validation of tools as part of `Schema`.
3. Proofs: `RowMigration` beside `Migration`, so that the values of rows are followed through crashes and restores.
