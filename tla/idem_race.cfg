SPECIFICATION Spec
CONSTANTS
    Requests = {r1, r2}
    Keys = {k1}
    Bodies = {b1}
    Faults = {"race"}
    NONE = NONE
CHECK_DEADLOCK FALSE
INVARIANT OneOrderPerKey
