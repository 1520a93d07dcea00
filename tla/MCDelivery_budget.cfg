SPECIFICATION Spec
CONSTANTS
  i1 = i1
  i2 = i2
  w1 = w1
  w2 = w2
  None = None
  Incident <- OneIncident
  Worker <- OneWorker
  Logs <- FullLog
  OldTs = 0
  LeaseTicks = 2
  Debounce = 1
  DrainLimit = 10
  MaxFaults = 1
  LeaseOutlivesDelivery = TRUE
INVARIANT BudgetDefers
