SPECIFICATION FairSpec
CONSTANTS
  MaxRuns = 2
  MaxHandlers = 4
  MaxOutputs = 1
  MaxKeys = 1
  MaxLosses = 0
  ClientsAreKilled = TRUE
  TerminalIsKilled = FALSE
  ClientsTakeTurns = TRUE
  ServerNoticesFirst = TRUE
CHECK_DEADLOCK FALSE
PROPERTIES
  RestartedClientConnects
