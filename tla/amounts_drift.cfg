SPECIFICATION Spec
CONSTANTS
    Dollar = 2000
    One = 1000
    Share = 4
    Fine = 3
    Prices <- MCPrices
    Limits <- MCLimits
    Amounts <- MCAmounts
    Quantities <- MCQuantities
    Wallets <- MCWallets
    Fees <- MCFees
    Ticks <- MCTicks
    SizeStep = 2
CHECK_DEADLOCK FALSE
INVARIANTS
    TypeOK
    ChargedAsRequired
    BudgetKept
    FunderLossBounded
    FillIsPlaced
