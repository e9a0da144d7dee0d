SPECIFICATION Spec
CONSTANTS
    NPages = 3
    PageShift = 4
    MinShift = 1
    WordBits = 4
    ByteBits = 2
    Sizes = {2, 4, 8, 16, 32}
    MaxLive = 7
INVARIANTS
    TypeOK
    MapsMatchLive
    ListsExact
    FreeRunsMaximal
    EmptyPoolIsWhole
    StatsExact
PROPERTIES
    ImplementsAllocator
    BadFreeChangesNothing
CHECK_DEADLOCK FALSE
