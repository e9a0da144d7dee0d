SPECIFICATION Spec
CONSTANTS
    Size = 4
    UintMod = 8
    MaxLen = 5
    MaxTotal = 11
INVARIANTS
    TypeOK
    NoConcurrentSlotAccess
    InOrderDelivery
    NeverOverfull
PROPERTY RefinesBoundedFifo
