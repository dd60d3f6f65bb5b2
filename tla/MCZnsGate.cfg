CONSTANTS
    ZoneSize = 3
    MaxOpen = 1
    WearLimit = 1
    CountMod = 4
    NumZones = 2
    ZoneIds = 4
    GateLbas <- InsideLbas
    GateOps = {1, 2, 3}
    Sqes <- GateSqes
SPECIFICATION GateSpec
INVARIANTS CountIsOpenZones MirrorFollowsPointer
PROPERTIES ImplementsDevice
