SPECIFICATION Spec
CHECK_DEADLOCK FALSE
CONSTANTS
    Slots = 2
    HashLen = 2
    Radix = 31
    UintMod = 8
    IntBits = 4
    Keys <- PrefixKeys
    Values <- OneValue
    MaxNodes = 2
INVARIANT FindExact
