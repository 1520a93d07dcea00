SPECIFICATION ReportSpec
CONSTANTS
  w1 = w1
  w2 = w2
  u1 = u1
  u2 = u2
  None = None
  Worker <- OneWorker
  Update <- OneUpdate
  Minute = 2
  Interval = 2
  Gap = 2
  Retention = 6
  Batch = 3
  Horizon = 8
INVARIANT TypeOK
INVARIANT CatchUpIsExcluded
INVARIANT LiveArrivalsAreScored
INVARIANT BatchArmIsNeutral
