SPECIFICATION FairSpecAll
CONSTANTS
    MaxRun = 2
    RunKinds <- MCTwoZones
    Node = {"c"}
    NodeZone <- MCZone
    NodeType <- MCType
    NodeProfile <- MCProfile
    Required <- MCQuorum
    MaxStale = 0
    MaxTasks = 1
    Headroom = FALSE
    Crashes = FALSE
    Forgets = {}
    Autostart = {"c"}
    Flowing = {"c"}
    StartFails = TRUE
    Breaks = FALSE
    Outbound = 2
    MaxDown = 2
    MaxExits = 0
INVARIANT NodesTypeOK
INVARIANT ReportsBelong
INVARIANT RecordsOwnZone
PROPERTY EndedRunIsLeft
CHECK_DEADLOCK FALSE
