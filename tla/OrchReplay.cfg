SPECIFICATION Spec
CONSTANTS
    MaxRun = 1
    RunKinds <- MCOneZone
    Node = {"c"}
    NodeZone <- MCZone
    NodeType <- MCType
    NodeProfile <- MCProfile
    Required <- MCClientQuorum
    MaxStale = 0
    MaxTasks = 1
    Headroom = FALSE
    Crashes = TRUE
PROPERTY StoppedStaysStopped
