SPECIFICATION FairSpec
CONSTANTS
  MaxRuns = 1
  MaxHandlers = 2
  MaxOutputs = 1
  MaxKeys = 1
  MaxLosses = 0
  ClientsAreKilled = FALSE
  TerminalIsKilled = FALSE
  ClientsTakeTurns = TRUE
  ServerNoticesFirst = TRUE
CHECK_DEADLOCK FALSE
PROPERTIES
  ExitEndsSession
