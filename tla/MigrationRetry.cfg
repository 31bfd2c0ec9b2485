CONSTANTS
  Order <- MCOrder
  Main <- MCMain
  Session = "session.db"
  Databases <- MCDatabases
  Rollbacks = FALSE
  RollbackFaults = FALSE
  NoMarker = NoMarker
  MaxCrashes = 0
  MaxErrors = 0
SPECIFICATION Spec
INVARIANT NextBootRetries
