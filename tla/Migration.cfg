CONSTANTS
  Manifests <- Core
  HandEdits = {}
  Witnesses <- Coercions
  Rows = {r1}
  Retention = 1
  CrashPoints <- EveryStep
  FaultPoints = {"create", "copy", "truncate"}
  MaxSnapshots = 2
  MaxCrashes = 2
  MaxEdits = 0
SPECIFICATION Spec
INVARIANTS
  TypeOK
  ServedSchemaHolds
  AckedRowsServed
  SnapshotSavesRows
  NeverHalfMigrated
PROPERTIES
  LossIsGuarded
  UpgradesAreAtomic
