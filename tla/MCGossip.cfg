SPECIFICATION FairSpec
CONSTANTS
  Peers = {p1}
  EarlyPeers = {}
  Topics = {t1}
  Clients = {c1, c2}
  QueueCap = 1
  RxCap = 1
  MaxAttempts = 1
  MaxOps = 2
  MaxBreaks = 1
  MaxRestarts = 1
INVARIANTS TypeOK SettledUndamagedAgree PipelineFaithful
PROPERTIES SnapshotComes UndamagedConverges
