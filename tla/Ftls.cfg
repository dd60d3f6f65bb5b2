CONSTANTS
    Implementations = {"PAGE", "BAST", "FAST", "DFTL", "BIMODAL"}
    BlockSize = 2
    BlockErases = 1
    PlaneSize = 2
    LogicalBlocks = 2
    AddressPerPage = 2
    BastPlanes = 2
    FastPlanes = 4
    DftlPlanes = 1
    BdftlPlanes = 2
    PagePlanes = 1
    BastLogBlocks = 1
    FastLogBlocks = 2
    DftlEntries = 2
    BdftlEntries = 1
    BastPages = {0, 1, 2}
    FastPages = {0, 1, 3}
    FastRequests = 9
    DftlPages = {0, 1, 2}
    DftlRequests = 6
    BdftlPages = {0, 1, 2}
    BdftlRequests = 6
    PagePages = {0, 1, 2}
    PageRequests = 8
    StartTimes = {0, 1}
    LongValues = 16
SPECIFICATION Spec
INVARIANTS
    TypeOK
    ReadsLastWrite
    TrimmedStaysGone
    ProgramsEmptyPages
    BlocksPartitioned
    CountersMatchTables
    BlockStateMatchesPages
    
    OneModePerBlock
CHECK_DEADLOCK FALSE
