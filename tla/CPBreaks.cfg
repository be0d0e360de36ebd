SPECIFICATION FairSpecAll
CONSTANTS
    MaxRun = 1
    RunKinds <- MCOneZone
    Node = {"c"}
    NodeZone <- MCZone
    NodeType <- MCType
    NodeProfile <- MCProfile
    Required <- MCQuorum
    MaxStale = 1
    MaxTasks = 1
    Headroom = FALSE
    Crashes = FALSE
    Forgets = {"c"}
    Autostart = {"c"}
    Flowing = {"c"}
    StartFails = TRUE
    Breaks = TRUE
    MaxExits = 1
    Outbound = 1
    MaxDown = 1
PROPERTY EndedRunIsTold
CHECK_DEADLOCK FALSE
