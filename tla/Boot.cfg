CONSTANTS
  Dirs <- TheDirs
  Manifests <- TheManifests
  NoManifest = NoManifest
  Folders <- TheFolders
  Catalogs <- TheCatalogs
  Edits <- TheEdits
  Server = server
  Migrators = {migrator}
  FaultyApps = {"library"}
  MaxEdits = 1
SPECIFICATION Spec
INVARIANTS
  TypeOK
  SeededOnce
  SeededWhole
  SeededBeforeServed
  OthersServed
