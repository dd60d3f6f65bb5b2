CONSTANTS
    ZoneSize = 2
    MaxOpen = 1
    WearLimit = 1
    CountMod = 4
    NumZones = 2
    Requests <- WriteRequests
    MgmtZones <- FirstZone
    Concurrent = TRUE
SPECIFICATION Spec
PROPERTIES WriteEndsIdle
