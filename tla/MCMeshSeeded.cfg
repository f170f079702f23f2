CONSTANTS
  a = a  b = b  Nodes = {a, b}  Topics = {t}
  PossibleDials <- Example
  QueueCap = 1  WireCap = 1  InCap = 1  MaxEvents = 1  MaxBreaks = 0
SPECIFICATION Spec
CHECK_DEADLOCK FALSE
PROPERTY InterestedPeersReceive
