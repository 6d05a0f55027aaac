SPECIFICATION FairSpec
CONSTANTS
    Orders = {o1, o2}
    Funded = {}
    Workers = {w1}
    Cancels = {c1}
    MaxAttempts = 2
    MaxStalled = 1
    RealTrading = FALSE
    Faults = {"commit"}
    NONE = NONE
PROPERTIES
    EveryOrderSettles
