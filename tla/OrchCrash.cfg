SPECIFICATION FairSpec
CONSTANTS
    MaxRun = 1
    RunKinds <- MCOneZone
    Node = {"c"}
    NodeZone <- MCZone
    NodeType <- MCType
    NodeProfile <- MCProfile
    Required <- MCClientQuorum
    MaxStale = 1
    MaxTasks = 3
    Headroom = TRUE
    Crashes = TRUE
INVARIANT TypeOK
INVARIANT ConnectedHasSocket
INVARIANT StartIsRemembered
PROPERTY StoppingResolves
PROPERTY TimedStartResolves
