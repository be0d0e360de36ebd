SPECIFICATION Spec
CONSTANTS
    MaxRun = 2
    RunKinds <- MCTwoZones
    Node = {"c"}
    NodeZone <- MCZone
    NodeType <- MCType
    NodeProfile <- MCProfile
    Required <- MCClientQuorum
    MaxStale = 0
    MaxTasks = 1
    Headroom = TRUE
    Crashes = FALSE
INVARIANT OneActiveRunPerZone
INVARIANT PersistedWhenQuiet
PROPERTY ImplementsZoneSlots
