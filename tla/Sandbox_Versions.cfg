CONSTANTS
  c1 = c1
  c2 = c2
  Datetimes = {}
  App <- Library
  Callers = {c1}
  Manifests <- ThreeManifests
  FirstManifest <- First
  Operations <- SomeOperations
  FirstFiles <- TheFiles
  NewBinaries = {"two"}
  Broken = "broken"
  Asks <- FewAsks
  Chunks = {1}
  Inputs = {1, 2}
  MaxInput = 1
  MaxOutput = 1
  HasBroker = TRUE
  Databases <- TheDatabases
  MaxInvocations = 2
  MaxCalls = 2
  MaxEdits = 2
SPECIFICATION Spec
INVARIANTS
  AnswersAreOwn
  EffectsConsented
CHECK_DEADLOCK FALSE
