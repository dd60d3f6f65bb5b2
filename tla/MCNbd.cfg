CONSTANTS
    ZoneSize = 2
    MaxOpen = 1
    WearLimit = 1
    CountMod = 4
    NumZones = 2
    Requests <- AllRequests
    MgmtZones <- FirstZone
    Concurrent = FALSE
SPECIFICATION Spec
INVARIANTS WriteAlwaysDecided BoundaryStates
PROPERTIES WriteEndsIdle EveryRequestAnswered
