SPECIFICATION MCSpec
CONSTANTS
    alice = alice
    bob = bob
    Accounts = {alice, bob}
    banks <- MCBanks
    Openings <- MCOpenings
    Lenders <- MCLenders
    Readings <- MCReadings
    Backings <- MCBackings
    Moves = {20, 120}
    Seizures = {20}
    States = {"ReduceOnly"}
    MaxBalances = 4
    MaxIntegrations = 1
    BankruptThreshold = 40000
    MaxAmount = 160
    MaxTime = 2
INVARIANTS AcceptedNotLiquidatable PositionsCompatible
PROPERTIES BorrowersSolvent
CHECK_DEADLOCK FALSE
