SPECIFICATION FairSpec
CONSTANTS
  Reader = Reader
  Keepalive = Keepalive
  Writers = {w1, w2}
  Poller = Poller
  NoOne = NoOne
  ReconnectEnabled = TRUE
  MayGoSilent = TRUE
  MaxLosses = 2
INVARIANTS
  IInv
  JoinIsSafe
  ReadsAnOpenSocket
  SomebodyReconnects
PROPERTIES
  DeadConnectionIsReplaced
  LocksAreReleased
CHECK_DEADLOCK FALSE
