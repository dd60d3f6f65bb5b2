CONSTANTS
    ZoneSize = 2
    MaxOpen = 1
    WearLimit = 1
    CountMod = 4
    NumZones = 2
    LBAs = {0, 1, 2, 3, 4}
    HoldTicks = 10
    LowTicks = 6
SPECIFICATION Spec
INVARIANTS
    RulesSeeTarget
    VerdictMatchesMemory
    ThermalVerdict
PROPERTY StoresOnlyTarget
