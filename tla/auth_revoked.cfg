SPECIFICATION Spec
CONSTANTS
    Calls = {c1, c2}
    Server = server
    Users = {u1}
    MaxRevocations = 2
    MaxUnsaid = 2
INVARIANTS
    TypeOK
    RefusalsBounded
