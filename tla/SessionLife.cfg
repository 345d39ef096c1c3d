SPECIFICATION FairSpec
CONSTANTS
  MaxRuns = 2
  MaxHandlers = 4
  MaxOutputs = 2
  MaxKeys = 1
  MaxLosses = 2
  ClientsAreKilled = TRUE
  TerminalIsKilled = TRUE
  ClientsTakeTurns = TRUE
  ServerNoticesFirst = TRUE
CHECK_DEADLOCK FALSE
INVARIANTS
  OutputIsKept
  OutputInOrder
  RefusedAfterTheEnd
PROPERTIES
  IsDurable
  OutputArrives
  ClientLearnsOfTheEnd
