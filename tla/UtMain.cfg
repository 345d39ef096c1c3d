SPECIFICATION UtSpec
CONSTANTS
  Chars = {a, b}
  Backspace = Backspace
  Control = Control
  PendingLimit = 2
  MaxKeys = 3
  MaxPackets = 2
  MaxLosses = 1
  Names = {n1, n2}
  Settings = {s1, s2}
  NoProfile = NoProfile
  Children = {c1, c2, c3}
  NoChild = NoChild
INVARIANTS
  NothingIsSwallowed
  LiveIsListed
  OnlyTheProxyIsKept
PROPERTIES
  CommandEnds
  StopsOrListens
  ReadingEnds
CHECK_DEADLOCK FALSE
