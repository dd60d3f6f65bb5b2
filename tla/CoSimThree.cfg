CONSTANTS
    ZoneSize = 2
    MaxOpen = 4
    WearLimit = 5
    CountMod = 16
    NumZones = 3
    Requests = {}
    MgmtZones = {}
    Concurrent = FALSE
    Workers = 3
    ResetZones = 3
SPECIFICATION Spec
INVARIANTS NothingLeftOut OneHardwareUser WorkerOwnsZone VerifiedIsStored
CHECK_DEADLOCK FALSE
