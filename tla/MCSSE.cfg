CONSTANTS
  t1 = t1  t2 = t2  k1 = k1
  Topics = {t1, t2}
  Publishers = {p1}
  Inbound = {}
  Patterns = {k1}
  Covers <- Wild
  ChanCap = 2  BufCap = 2  Batch = 1  MaxReplay = 1  MaxEvents = 3
  MaxTopics = 2  Oversized <- Second
  MaxStreams = 2  MaxUpsets = 1
SPECIFICATION FairSpec
CHECK_DEADLOCK FALSE
INVARIANTS TypeOK CursorCovered
PROPERTY EventsCome
