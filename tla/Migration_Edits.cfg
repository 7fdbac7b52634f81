CONSTANTS
  Manifests <- Edited
  HandEdits <- Edited
  Witnesses <- Coercions
  Rows = {r1}
  Retention = 1
  CrashPoints <- Anywhere
  FaultPoints <- EveryWrite
  MaxSnapshots = 1
  MaxCrashes = 1
  MaxEdits = 2
SPECIFICATION CarefulSpec
INVARIANTS
  ServedSchemaEnforced
  FingerprintIsTruthful
PROPERTY LossIsGuarded
