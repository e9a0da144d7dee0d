SPECIFICATION Spec
CHECK_DEADLOCK FALSE
CONSTANTS
    Block = 3
    IntMax = 127
    Word = 256
    MaxFormat = 3
    BufferSize = 6
    HeadSize = 2
    LogLevel = 3
    UintMod = 256
    MaxDigits = 4
    Boundless = 1000000
    SubjectLen = 3
    MaxPieces = 5
    CodecTexts <- SomeTexts
    RawTexts <- SomeRaw
    CodePoints <- SomePoints
    Numbers <- SomeNumbers
    SplitTexts <- SomeSplits
    Separators <- SomeSeparators
    Replacements <- SomeReplacements
    Keys <- SomeKeys
    Directives <- SomeDirectives
INVARIANTS
    TypeOK
    RoundTrips
    SizesExact
    PiecesRight
    NeverPast
    PrintedIsPrefix
PROPERTY MatchLoopEnds
