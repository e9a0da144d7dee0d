SPECIFICATION Spec
CHECK_DEADLOCK FALSE
CONSTANTS
    RbNodes = 9
    BstNodes = 11
    QueueNodes = 5
    KeyDiv = 2
    LongBits = 6
INVARIANTS
    TypeOK
    RedBlackKept
    BalancedKept
    WalkSorted
    QueueKept
