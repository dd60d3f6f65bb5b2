CONSTANTS
    NumChannels = 2
    NumDies = 2
    MaxConnections = 2
    Durations = {1, 2}
    RamDelay = 1
    MaxTime = 3
    MaxEvents = 2
    MaxLocks = 4
    BlockSize = 2
    BlockErases = 2
    PlaneSize = 2
    NumPlanes = 8
    DieSize = 2
    PackageSize = 2
    SsdSize = 2
    UsedBlocks = {0, 1, 2, 4, 8}
    WrittenBlocks = {0, 1}
    MaxOperations = 5
    WordBits = 32
    Words = {{24, 21, 19, 17, 2}, {31, 30, 0}}
    WaitEdges = 352
SPECIFICATION Spec
INVARIANTS
    OverlapOnlyBehindExpiry
    TimesAgree
    FreeCountNotShort
    LeastWornIsNoWorse
    DumpIsExact
PROPERTY EarliestFit
CHECK_DEADLOCK FALSE
