CONSTANTS
  Manifests <- Apart
  Witnesses <- Backfills
  Values <- Samples
  Pieces <- ThePieces
  EntityOrder <- TheOrder
SPECIFICATION Spec
INVARIANTS
  NamesRefuseNothing
PROPERTIES
  ImplementsEvolution
