CONSTANTS
  c1 = c1
  c2 = c2
  Datetimes = {}
  App <- Library
  Callers = {c1, c2}
  Manifests <- TheManifests
  FirstManifest <- First
  Operations <- SomeOperations
  FirstFiles <- TheFiles
  NewBinaries = {"two"}
  Broken = "broken"
  Asks <- TheAsks
  Chunks = {1}
  Inputs = {1, 2}
  MaxInput = 1
  MaxOutput = 1
  HasBroker = TRUE
  Databases <- TheDatabases
  MaxInvocations = 2
  MaxCalls = 1
  MaxEdits = 1
SPECIFICATION Spec
INVARIANTS
  OneModule
  AnswersTruthful
  RowsHold
PROPERTIES
  InvocationsEnd
CHECK_DEADLOCK FALSE
