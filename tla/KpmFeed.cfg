SPECIFICATION FairSpec
CONSTANTS
  Adapters = {"sim", "flexric"}
  MaxRuns = 2
  MaxDrops = 1
  MaxLate = 1
  MaxRefusals = 2
  MaxQueue = 3
CHECK_DEADLOCK FALSE
INVARIANT FeedTypeOK
INVARIANT HeldIsServed
INVARIANT ServedIsOwned
PROPERTY FeedRecovers
