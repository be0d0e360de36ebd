SPECIFICATION FairSpec
CONSTANTS
  Capacity = 2
  Channel = 1
  MaxSamples = 5
  MaxDue = 2
CHECK_DEADLOCK FALSE
INVARIANT RecorderTypeOK
INVARIANT SamplesConserved
INVARIANT SnapshotsTell
PROPERTY ShutdownEnds
