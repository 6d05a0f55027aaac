SPECIFICATION FairSpec
CONSTANTS
    Requests = {r1, r2, r3}
    Keys = {k1}
    Bodies = {b1, b2}
    Faults = {"race", "late", "redis", "crash", "expire"}
    NONE = NONE
CHECK_DEADLOCK FALSE
INVARIANTS
    TypeOK
    HoldersExclusive
    ReplayHasOrder
    ReplayHasSameContent
    SecondOrderNeedsSlip
    ErrorLeavesNoOrder
PROPERTY
    NoKeyLockedForever
