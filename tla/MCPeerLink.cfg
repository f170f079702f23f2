CONSTANTS
  QueueCap = 1  MaxAttempts = 1  MaxLinks = 2  MaxMsgs = 2  MaxBreaks = 2
SPECIFICATION FairSpec
INVARIANTS TypeOK EachMessageOnce CleanupKeepsNewer
PROPERTIES SilentPeerNoticed HealthRecovers
