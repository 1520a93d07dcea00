SPECIFICATION Spec
CONSTANTS
  poller = poller
  embedder = embedder
  autopilot = autopilot
  Order <- TwoChildren
  Backoff = 6
  FastDeath = 3
  MaxFast = 2
  Poll = 1
  Slack = 1
  MaxDowntime = 6
  Unkillable <- None
CHECK_DEADLOCK FALSE
PROPERTY OutageHalts
