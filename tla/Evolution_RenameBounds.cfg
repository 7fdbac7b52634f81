CONSTANTS
  Manifests <- Bounds
  Witnesses <- AllWitnesses
  Values <- Samples
SPECIFICATION Spec
INVARIANT NextBootAccepts
