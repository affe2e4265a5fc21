SPECIFICATION MCSpec
CONSTANTS
    a1 = a1
    a2 = a2
    a3 = a3
    u1 = u1
    u2 = u2
    Accounts = {a1, a2, a3}
    Users = {u1, u2}
    Admin = Admin
    RiskAdmin = RiskAdmin
    None = None
    Txs <- LiquidationTxs
    Prices = {8, 16}
    MaxColl = 2
    MaxDebt = 16
    Scale = 8
    AssetInit = 4
    AssetMaint = 5
    LiabInit = 8
    LiabMaint = 8
    LiquidatorDiscount = 7
    FinalDiscount = 6
    MaxFee = 9
    Closeout = 72
    BankruptThreshold = 65
    Permissionless = FALSE
PROPERTIES DisabledIsFinal
