SPECIFICATION FairSpec
CONSTANTS
    Markets = {m1, m2}
    Syncs = {s1}
    Handlers = {h1}
    MaxLapses = 1
    Faults = {"missed", "provider", "db"}
CHECK_DEADLOCK FALSE
INVARIANTS
    TypeOK
    OpenRowExplained
PROPERTIES
    ClosedForGood
    EventStatusRepaired
