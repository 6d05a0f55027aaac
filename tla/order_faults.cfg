SPECIFICATION Spec
CONSTANTS
    Orders = {o1}
    Funded = {o1}
    Workers = {w1, w2}
    Cancels = {c1}
    MaxAttempts = 2
    MaxStalled = 1
    RealTrading = TRUE
    Faults = {"commit", "request", "redis", "mark", "crash", "stall", "slow"}
    NONE = NONE
SYMMETRY Symmetry
INVARIANTS
    TypeOK
    ExecutionExclusive
    ChargedBeforePlaced
    FilledIsBacked
    ExecutionsBounded
PROPERTY
    SettledUnclaimedIsInert
