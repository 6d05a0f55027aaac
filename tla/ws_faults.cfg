SPECIFICATION FairSpec
CONSTANTS
    Sockets = {s1, s2}
    Tokens = {t1}
    MaxAttempts = 2
    Faults = {"network", "db", "activate", "scheduler"}
    NONE = NONE
CHECK_DEADLOCK FALSE
INVARIANTS
    TypeOK
    OneSocket
    ReconnectAhead
    QuietAfterShutdown
    ActiveIsSubscribed
PROPERTY
    ServiceRecovers
