SPECIFICATION FairSpec
CONSTANTS
  f1 = f1
  f2 = f2
  NoTag = NoTag
  Feed <- OneFeed
  Story <- OpenAndShut
  MaxEdits = 1
  MaxWait = 2
  MaxFaults = 2
  Reverts = FALSE
INVARIANT TypeOK
INVARIANT ValidatorIsEarned
INVARIANT PublishedIsCurrent
PROPERTY BackoffIsHonoured
PROPERTY PageIsPublished
