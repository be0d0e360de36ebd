SPECIFICATION FairSpec
CONSTANTS
  n1 = n1
  n2 = n2
  n3 = n3
  Node = {n1, n2, n3}
  Zone = {"A", "B"}
  MaxRun = 2
  Fleets <- MCFleets
  Followed <- MCFollowed
  Overrides <- MCOverrides
CHECK_DEADLOCK FALSE
INVARIANT WatchTypeOK
 
PROPERTY RunMismatchIsOld
PROPERTY HealthyZoneIsQuiet
PROPERTY SilenceIsReported
