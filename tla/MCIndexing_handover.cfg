SPECIFICATION Spec
CONSTANTS
  a = a
  b = b
  w1 = w1
  w2 = w2
  Event <- OneEvent
  Worker <- TwoWorkers
  Log <- EditLog
  LegacyEvents <- NoEvents
  MaxChunks = 2
  CommitEvery = 3
  MaxStreak = 3
  MaxFaults = 2
  MaxReplays = 0
  HandlersKeepUp = TRUE
CHECK_DEADLOCK FALSE
INVARIANT IndexIsNewest
