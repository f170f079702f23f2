CONSTANTS
  Publishers = {p1}
  InCap = 1  MaxEvents = 2  MaxLives = 2
SPECIFICATION FairSpec
CHECK_DEADLOCK FALSE
INVARIANTS TypeOK HeartbeatsFollowNode InboundOnce NoUseAfterClose
PROPERTIES ShutdownEnds
