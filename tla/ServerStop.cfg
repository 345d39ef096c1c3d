SPECIFICATION FairSpec
CONSTANTS
  Terminals = {t1, t2}
  Free = Free
  Canceller = Canceller
  NoInstance = NoInstance
  MaxPending = 1
PROPERTIES
  StopCompletes
CHECK_DEADLOCK FALSE
