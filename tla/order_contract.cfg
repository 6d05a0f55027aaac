SPECIFICATION FairSpec
CONSTANTS
    Orders = {o1}
    Funded = {o1}
    Workers = {w1, w2}
    Cancels = {c1, c2}
    MaxAttempts = 2
    MaxStalled = 1
    RealTrading = TRUE
    Faults = {"request", "redis", "mark"}
    NONE = NONE
PROPERTY
    ContractKept
