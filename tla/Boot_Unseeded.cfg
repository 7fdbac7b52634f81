CONSTANTS
  Dirs <- TheDirs
  Manifests <- TheManifests
  NoManifest = NoManifest
  Folders <- TheFolders
  Catalogs <- OneLibrary
  Edits <- TheEdits
  Server = server
  Migrators = {migrator}
  FaultyApps = {}
  MaxEdits = 0
SPECIFICATION Spec
INVARIANTS
  ServedIsSeeded
