SPECIFICATION Spec
CHECK_DEADLOCK FALSE
SYMMETRY Words
VIEW StateWithoutCall
CONSTANTS
    W1 = W1
    W2 = W2
    Slots = 2
    HashLen = 2
    Radix = 31
    HashUintMod = 8
    IntBits = 4
    HashKeys <- CollidingKeys
    HashValues <- MixedValues
    MaxNodes = 2
    TableKeys <- SomeKeys
    TableValues <- SomeValues
    NewSizes <- EmptyOrSome
    UintBits = 3
    MaxBits = 3
    MaxDepth = 3
    ReuseAddresses = FALSE
INVARIANTS
    TypeOK
    FreeBeforeLastfree
PROPERTIES
    RefinesMultiMap
    ReleasedOnce
