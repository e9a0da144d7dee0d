SPECIFICATION ClientsSpec
CONSTANTS
    HeaderSize = 2
    LargeSize = 2
    CleanupSize = 2
    Align = 2
    MaxSmall = 4
    FailLimit = 0
    WordMod = 64
    PoolSize = 8
    Sizes = {3, 5}
    DataSizes = {0, 3}
    NRegions = 4
    RegionSize = 8
    MaxCleanups = 2
    MaxAtReset = 0
    ArraySize = 2
    ListSize = 4
    PartSize = 2
    ElemSize = 1
    Counts = {1, 2}
    Batches = {2}
    OtherSize = 1
    MaxBlocks = 5
    MaxElements = 5
INVARIANTS
    TypeOK
    RecordsSafe
    RegionsExact
    SkippedBlocksFailed
    CleanupRecordsIntact
    HandlersRunOnce
    ElementsKept
PROPERTY ImplementsAllocator
