SPECIFICATION MCSpec
CONSTANTS
    Users <- MCUsers
    Supply = 3
    Amounts = {1, 2, 3}
    InitMin = 2
    DepositLimit = 4
    Rates <- MCRates
    Slack = 2
    UnitValue = 3
    Dollar = 2
    Day = 2
    Limits = {1, 2}
    MaxNow = 2
    MaxGifts = 1
    MaxExtra = 3
    MaxUnits = 5
INVARIANTS BooksCovered LeavesAtAnyRate RollingWithdrawalCap
PROPERTIES CushionKept NoFreeTokens VaultPassesThrough
CHECK_DEADLOCK FALSE
