SPECIFICATION FairSpec
CONSTANTS
  MaxConns = 2
  Listeners = {{"client"}, {"server"}}
  MaxChunks = 2
  MayRefuse = TRUE
  SpeakingFirst = {"server"}
  HandlesAreReused = FALSE
INVARIANTS
  RightStream
  NothingLost
PROPERTIES
  GracefulClose
  Delivery
  HangUpIsPassedOn
CHECK_DEADLOCK FALSE
