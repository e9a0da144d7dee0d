SPECIFICATION Spec
CHECK_DEADLOCK FALSE
CONSTANTS
    N = 4
    KeyDiv = 1
INVARIANT RedBlack
