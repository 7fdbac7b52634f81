CONSTANTS
  Manifests <- Core
  HandEdits = {}
  Witnesses <- Coercions
  Rows = {r1}
  Retention = 1
  CrashPoints = {"restore"}
  FaultPoints = {"create", "copy", "truncate"}
  MaxSnapshots = 1
  MaxCrashes = 1
  MaxEdits = 0
SPECIFICATION Spec
INVARIANTS
  AckedRowsServed
