SPECIFICATION Spec
CONSTANTS
  MaxRuns = 2
  MaxHandlers = 2
  MaxOutputs = 3
  MaxKeys = 1
  MaxLosses = 0
  ClientsAreKilled = FALSE
  TerminalIsKilled = FALSE
  ClientsTakeTurns = FALSE
  ServerNoticesFirst = FALSE
CHECK_DEADLOCK FALSE
INVARIANTS
  BothSeeTheOutput
