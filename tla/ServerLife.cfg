SPECIFICATION FairSpec
CONSTANTS
  Terminals = {t1, t2}
  Free = Free
  Canceller = Canceller
  NoInstance = NoInstance
  MaxPending = 1
INVARIANTS
  WorkerIsWoken
  NothingIsLeft
PROPERTIES
  StopEndsOrIsStuck
  TellingRegisters
CHECK_DEADLOCK FALSE
