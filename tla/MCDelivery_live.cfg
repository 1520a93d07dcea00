SPECIFICATION LiveSpec
CONSTANTS
  i1 = i1
  i2 = i2
  w1 = w1
  w2 = w2
  None = None
  Incident <- TwoIncidents
  Worker <- TwoWorkers
  Logs <- LiveLogs
  OldTs = 0
  LeaseTicks = 1
  Debounce = 0
  DrainLimit = 1
  MaxFaults = 1
  LeaseOutlivesDelivery = TRUE
PROPERTY OwedIsDelivered
PROPERTY LogIsConsumed
