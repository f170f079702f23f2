CONSTANTS
  a = a  b = b  Nodes = {a, b}  Topics = {t}
  PossibleDials <- AnyWay
  QueueCap = 1  WireCap = 1  InCap = 1  MaxEvents = 2  MaxBreaks = 1
SPECIFICATION FairSpec
CHECK_DEADLOCK FALSE
INVARIANTS TypeOK OneCopy
PROPERTY QueuedArrives
