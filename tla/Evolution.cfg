CONSTANTS
  Manifests <- EveryShape
  Witnesses <- AllWitnesses
  Values <- Samples
SPECIFICATION Spec
INVARIANTS
  SchemaConforms
  NextBootAccepts
  RefusedOnlyForDrops
  SafeMapsForward
