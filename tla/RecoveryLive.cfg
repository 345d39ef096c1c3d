SPECIFICATION FairSpec
CONSTANTS
  Conns = {c1, c2}
  NoConn = NoConn
  Lengths = {1}
  MaxBackupBytes = 8
  HalfRange = 100
  MaxPackets = 2
  MaxFaults = 2
  ServerNoticesFirst = TRUE
PROPERTIES
  AttemptsEnd
  EventualDelivery
  Reconnects
CHECK_DEADLOCK FALSE
