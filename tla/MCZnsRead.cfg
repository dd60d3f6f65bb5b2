CONSTANTS
    ZoneSize = 2
    MaxOpen = 1
    WearLimit = 1
    CountMod = 4
    NumZones = 2
    ZoneIds = 4
    Sqes <- InsideSqes
SPECIFICATION Spec
INVARIANTS OpenZonesWithinLimit
