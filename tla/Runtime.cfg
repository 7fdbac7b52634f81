CONSTANTS
  c1 = c1
  c2 = c2
  App <- TaskApp
  Datetimes <- Times
  Clients = {c1, c2}
  NoClient = NoClient
  Requests <- TheRequests
  Tools <- TheTools
  Operations <- SomeOperations
  Databases <- TheDatabases
  MaxSent = 3
SPECIFICATION Spec
INVARIANTS
  ConstraintsHold
  FailuresWriteNothing
PROPERTIES
  UpdatesKeepOtherFields
  ToolsRunWhole
  RequestsAnswered
CHECK_DEADLOCK FALSE
