SPECIFICATION Spec
CHECK_DEADLOCK FALSE
CONSTANTS
    N = 5
    KeyDiv = 2
    LongBits = 6
INVARIANT DuplicateRefused
