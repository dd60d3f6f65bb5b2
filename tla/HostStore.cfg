CONSTANTS
    ZoneSize = 2
    NumZones = 2
    LogicalPages = 2
    Values = {1, 2}
    Rejects = TRUE
    Pinned = TRUE
SPECIFICATION Spec
INVARIANTS IntactUnlessRetried
PROPERTIES CallsReturn
