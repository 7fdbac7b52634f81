CONSTANTS
  Manifests <- TheManifests
  Witnesses = {}
  Values <- TheValues
  RowWitnesses <- TheWitnesses
  Numerals <- TheNumerals
  Leading <- TheLeading
  Rendered <- TheRendered
  RowIds <- TheIds
  MaxRows = 2
SPECIFICATION RowSpec
INVARIANTS
  TypedRowsHold
  SafeChangesetsRun
  ValuesMapAsDeclared
  BackfillsNulls
PROPERTIES
  RowsKept
