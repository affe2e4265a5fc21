SPECIFICATION MCSpec
CONSTANTS
    Users = {"u1", "u2"}
    Unit = 4
    Threshold = 2
    CompleteBelow = 3
    EmptyThreshold = 4
    Supply <- MCSupply
    Amounts = {0, 1, 2}
    AdminStates = {"Operational", "ReduceOnly", "Paused"}
    AdminFlags = {TRUE, FALSE}
    Rates = {0, 2}
    FeeRates <- MCFeeRates
    OriginationRates = {0, 2}
    ProgramShare = 2
    Liquidations <- MCLiquidations
    DepositLimit = 4
    BorrowLimit = 4
    MaxValue = 6
    MaxBelow = 1
INVARIANTS IInv ClosedEmpty
PROPERTIES TotalsFollowBalances NeverLessBacked LossAfterInsurance InsuranceFirst
