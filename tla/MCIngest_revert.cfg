SPECIFICATION Spec
CONSTANTS
  f1 = f1
  f2 = f2
  NoTag = NoTag
  Feed <- OneFeed
  Story <- OpenAndShut
  MaxEdits = 2
  MaxWait = 2
  MaxFaults = 0
  Reverts = TRUE
INVARIANT PublishedIsCurrent
