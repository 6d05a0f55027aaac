SPECIFICATION Spec
CONSTANTS
    Markets = {m1}
    Prices = {1, 2}
    Polls = {p1}
    Syncs = {s1}
    Batches = {api, scheduler}
    MaxFailures = 1
    Faults = {"provider", "db", "exact"}
    NONE = NONE
SYMMETRY Processes
INVARIANT
    TokensFollowMarket
PROPERTY
    UnquotedSideKept
