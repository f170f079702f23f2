CONSTANTS
  Words = {"a", "b"}  MaxParts = 2
  Patterns <- SomePatterns  EventTopics <- OneTopic
  Ids = {c1}
  Publishers = {p1}
  Conns = {s1}
  Peers = {q1}
  ChanCap = 1  MaxEvents = 2  MaxSubs = 2  MaxStops = 1
SPECIFICATION NodeSpec
CHECK_DEADLOCK FALSE
INVARIANTS
  NodeTypeOK PersistedFirst NoOrphanRoute NoDeadSubscription
  DeliveredByDenotation NoEmptyTopic
PROPERTIES OkMeansDelivered FailureIsolated
