CONSTANTS
  Order <- MCOrder
  Main <- MCMain
  Session = "session.db"
  Databases <- MCDatabases
  Rollbacks = TRUE
  RollbackFaults = FALSE
  NoMarker = NoMarker
  MaxCrashes = 2
  MaxErrors = 3
SPECIFICATION FairSpec
INVARIANTS NoDataLost HalfMigratedIsMarked LogFollowsDatabase
PROPERTY RecoveryFinishes
