SPECIFICATION FairSpec
CONSTANTS
    Listed = {m1}
    Unlisted = {u1}
    Prices = {4, 6}
    One = 10
    MaxQuotes = 3
    Faults = {"reorder", "lookup", "db", "connect", "rollback"}
    NONE = NONE
CHECK_DEADLOCK FALSE
INVARIANTS
    TypeOK
    QueuedMeansScheduled
    TimerExcludesBatch
    RestingPriceIsNewest
PROPERTY
    HandlerComesToRest
