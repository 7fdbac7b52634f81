------------------------ MODULE MigrationRefinement ------------------------
(***************************************************************************)
(* Migration implements AtomicUpgrade, as long as no process dies, and no  *)
(* write of manifest.json fails, between the commit of a changeset and the *)
(* end of its promotion, and none dies while it overwrites data.db.        *)
(*                                                                         *)
(* The app is at a new manifest from the moment its changeset is executed; *)
(* a database being restored stands for the snapshot it is restored from.  *)
(***************************************************************************)
EXTENDS Migration

AppOf == IF pc \in {"promote", "write"} THEN job.new ELSE manifest.content

ImageOf == IF pc = "restore" THEN snaps[job.snap].image ELSE db

Abstract == INSTANCE AtomicUpgrade
              WITH app <- AppOf, rows <- [e \in DOMAIN AppOf |-> RowsOf(ImageOf, e)]

\* The whole flow of Load, Apply, snapshot, restore and promotion, crashes
\* outside the two windows included, is one atomic upgrade at a time to the
\* client (migrate/changeset.go:1-5, apply.go:33-42).
UpgradesAreAtomic == Abstract!Spec
=============================================================================
