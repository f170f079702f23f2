CONSTANTS
  t1 = t1  t2 = t2  k1 = k1
  Topics = {t1}
  Publishers = {p1, p2}
  Inbound = {}
  Patterns = {k1}
  Covers <- Plain
  ChanCap = 9  BufCap = 9  Batch = 9  MaxReplay = 9  MaxEvents = 3
  MaxTopics = 2  Oversized = {}
  MaxStreams = 2  MaxUpsets = 0
SPECIFICATION Spec
SYMMETRY Symmetry
CHECK_DEADLOCK FALSE
INVARIANTS OvertakenStillComes
