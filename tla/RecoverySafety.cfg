SPECIFICATION Spec
CONSTANTS
  Conns = {c1, c2, c3}
  NoConn = NoConn
  Lengths = {1}
  MaxBackupBytes = 2
  HalfRange = 100
  MaxPackets = 3
  MaxFaults = 2
  ServerNoticesFirst = FALSE
SYMMETRY Symmetry
INVARIANTS
  IInv
  InOrderDelivery
  AnnouncedIsHeld
  ConnectedMeansComplete
  ShutdownMeansErased
PROPERTIES
  LiveSocketIsNotReplaced
  RetainedBacklogIsResent
  ImplementsStream
CHECK_DEADLOCK FALSE
