SPECIFICATION FairSpec
CONSTANTS
    Gnb = {"g"}
    Ue = {"u", "v"}
    MaxSteps = 1
    MaxPending = 3
    MaxExtra = 1
    MaxEnds = 1
    SendsRaise = TRUE
INVARIANT ControlTypeOK
PROPERTY CapSlipsOnlySo
INVARIANT InForceIsOnDisk
PROPERTY StaleIsReverted
PROPERTY LostAdminReverts
PROPERTY StopEnds
