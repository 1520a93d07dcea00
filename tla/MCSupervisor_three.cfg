SPECIFICATION FairSpec
CONSTANTS
  poller = poller
  embedder = embedder
  autopilot = autopilot
  Order <- ThreeChildren
  Backoff = 3
  FastDeath = 2
  MaxFast = 2
  Poll = 1
  Slack = 0
  MaxDowntime = 3
  Unkillable <- Stuck
CHECK_DEADLOCK FALSE
INVARIANT TypeOK
INVARIANT DowntimeIsBounded
INVARIANT HaltMeansOutage
PROPERTY RestartsAreThrottled
INVARIANT NoOrphans
PROPERTY DeadIsRestarted
PROPERTY SignalIsObeyed
