SPECIFICATION Spec
CHECK_DEADLOCK FALSE
CONSTANTS
    Keys <- SomeKeys
    Values <- SomeValues
    NewSizes <- EmptyOrSome
    UintBits = 3
    MaxBits = 3
    MaxDepth = 3
    ReuseAddresses = FALSE
INVARIANT RehashMakesRoom
