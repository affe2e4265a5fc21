SPECIFICATION Spec
CONSTANTS
    Users = {"u1", "u2"}
    Unit = 4
    Threshold = 2
    CompleteBelow = 3
    EmptyThreshold = 4
    Supply <- MCSupply
    Amounts = {0, 1, 2}
    AdminStates = {}
    AdminFlags = {FALSE}
    Rates = {0, 2}
    FeeRates <- MCFeeRates
    OriginationRates = {2}
    ProgramShare = 2
    Liquidations <- MCLiquidations
    DepositLimit = 4
    BorrowLimit = 4
    MaxValue = 6
    MaxBelow = 1
INVARIANT NoStrandedBalance
