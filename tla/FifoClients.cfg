SPECIFICATION FairSpecC
CONSTANTS
    Size = 2
    UintMod = 4
    MaxLen = 1
    MaxTotal = 6
    NUM = 6
    Threads = {t1, t2}
    t1 = t1
    t2 = t2
    Nobody = Nobody
INVARIANTS
    EachAgeOnce
    LockProtectsOut
PROPERTY AllPrintedInTheEnd
