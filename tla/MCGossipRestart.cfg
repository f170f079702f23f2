SPECIFICATION Spec
CONSTANTS
  Peers = {p1}
  EarlyPeers = {p1}
  Topics = {t1}
  Clients = {c1}
  QueueCap = 3
  RxCap = 3
  MaxAttempts = 1
  MaxOps = 1
  MaxBreaks = 0
  MaxRestarts = 1
INVARIANT ReconnectGetsSnapshot
