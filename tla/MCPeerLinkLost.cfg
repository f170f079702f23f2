CONSTANTS
  QueueCap = 1  MaxAttempts = 1  MaxLinks = 1  MaxMsgs = 1  MaxBreaks = 1
SPECIFICATION Spec
INVARIANT FailedSendsCounted
