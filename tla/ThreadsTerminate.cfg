SPECIFICATION Spec
CONSTANTS
  Reader = Reader
  Keepalive = Keepalive
  Writers = {w1}
  Poller = Poller
  NoOne = NoOne
  ReconnectEnabled = TRUE
  MayGoSilent = FALSE
  MaxLosses = 1
INVARIANTS
  ClientSurvives
CHECK_DEADLOCK FALSE
