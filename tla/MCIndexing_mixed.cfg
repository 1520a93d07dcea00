SPECIFICATION FairSpec
CONSTANTS
  a = a
  b = b
  w1 = w1
  w2 = w2
  Event <- TwoEvents
  Worker <- TwoWorkers
  Log <- MixedLog
  LegacyEvents <- Legacy
  MaxChunks = 2
  CommitEvery = 3
  MaxStreak = 2
  MaxFaults = 2
  MaxReplays = 1
  HandlersKeepUp = TRUE
CHECK_DEADLOCK FALSE
INVARIANT TypeOK
INVARIANT CommittedIsKept
INVARIANT IndexFollowsEdits
PROPERTY ReceiptMeansSearchable
PROPERTY FirstReceiptIsFinal
PROPERTY TopicIsConsumed
