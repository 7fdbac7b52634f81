---------------------------- MODULE MCMigration ----------------------------
(***************************************************************************)
(* Small instances of Migration: an app of one or two entities, and a      *)
(* handful of manifests chosen so that the changesets between them cover   *)
(* each path of migrate.Apply.                                             *)
(***************************************************************************)
EXTENDS MigrationRefinement

Field(name, type, required, unique) ==
  [name |-> name, type |-> type, required |-> required, unique |-> unique,
   default |-> {}, min |-> {}, max |-> {}, values |-> {}, ref |-> {}]

Task(fields) == [name |-> "Task", fields |-> fields]
Note == [name |-> "Note", fields |-> [n1 |-> Field("body", "text", FALSE, FALSE)]]

Title == Field("title", "text", TRUE, FALSE)
Count == Field("count", "integer", FALSE, FALSE)
UniqueTitle == Field("title", "text", TRUE, TRUE)
RenamedTitle == Field("heading", "text", TRUE, FALSE)
LaxTitle == Field("title", "text", FALSE, FALSE)

Base == [task |-> Task([f1 |-> Title, f2 |-> Count])]
Renamed == [task |-> Task([f1 |-> RenamedTitle, f2 |-> Count])]       \* no SQL
Widened == [task |-> Task([f1 |-> Title, f2 |-> [Count EXCEPT !.type = "real"]])] \* safe
Dropped1 == [task |-> Task([f1 |-> Title])]                           \* destructive
Unique == [task |-> Task([f1 |-> UniqueTitle, f2 |-> Count])]         \* destructive
Lax == [task |-> Task([f1 |-> LaxTitle, f2 |-> Count])]
WithNote == [task |-> Task([f1 |-> Title, f2 |-> Count]), note |-> Note]
WithOtherNote ==
  [WithNote EXCEPT !.note.fields.n1 = Field("body", "integer", TRUE, FALSE)]
WithSerial ==
  [task |-> Task([f1 |-> Title, f2 |-> Count, f3 |-> Field("serial", "text", FALSE, TRUE)])]

Core == {Base, Renamed, Widened, Dropped1, WithNote, Unique}

\* Edits of one constraint, of a type, of the set of columns, of a uniqueness
\* and of the set of entities: the boots that refuse the last two leave an index
\* and a table behind.
Edited == {Base, Lax, Dropped1, WithSerial, Unique, WithNote, WithOtherNote}

NoWitness == NoApp
Coerce == [f2 |-> "coerce"]
Coercions == {NoWitness, Coerce}

\* Where a process may die without breaking a documented statement.
EveryStep == {"load", "ddl", "plan", "checkpoint", "create", "copy", "execute", "close",
              "truncate", "prune", "finish"}
Anywhere == EveryStep \cup {"restore", "promote", "write"}

\* What the theorems of MigrationProofs assume of the manifests is so here.
ASSUME ManifestsAreTold ==
  \A m1, m2 \in Core \cup Edited : BoundsAgree(m1, m2) /\ EnumsToldApart(m1, m2)

EveryWrite == {"create", "copy", "truncate", "restore", "promote", "write"}
=============================================================================
