SPECIFICATION Spec
CONSTANTS
    Listed = {m1}
    Unlisted = {}
    Prices = {4, 6}
    One = 10
    MaxQuotes = 2
    Faults = {}
    NONE = NONE
CHECK_DEADLOCK FALSE
SYMMETRY Symmetry
INVARIANT
    YesPriceOfYesToken
