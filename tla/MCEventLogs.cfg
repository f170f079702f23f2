SPECIFICATION BackendSpec
CONSTANTS
  Topics = {t1}  MemTopics = {t1, t2}
  Payloads = {p1, p2}
  Replayers = {r1}
  Callers = {c1, c2}
  MaxOffset = 2
  ReplayBuf = 1
  NoCaller = NoCaller
INVARIANTS TypeOK KeysInStep AckedDurable ReadAgrees WriterExcludes MemPagesAgree
PROPERTIES RefinesEventLog WritersReturn MemRefinesEventLog
