SPECIFICATION Spec
CHECK_DEADLOCK FALSE
CONSTANTS
    Threads = {t1, t2}
    Second = 2
    MaxNow = 12
INVARIANT AtMostASecondOld
