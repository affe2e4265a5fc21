SPECIFICATION MCSpec
CONSTANTS
    b1 = b1
    b2 = b2
    pyth = pyth
    swb = swb
    Default = Default
    Banks = {b1, b2}
    Feeds = {pyth, swb}
    PythFeeds = {pyth}
    OldGroups <- MCOldGroups
    NewConfigs <- MCNewConfigs
    VenueConfigs <- MCVenueConfigs
    Options <- MCOptions
    RateOptions <- MCRateOptions
    LimitOptions <- MCLimitOptions
    EmodeOptions <- MCEmodeOptions
    Leverages <- MCLeverages
    StakedOptions <- MCStakedOptions
    MinAge = 10
    FullUtil = 4
    FullRate = 10
    Fine = 12
    Rewarded = b1
    Holders = {h1, h2}
    Amounts = {0, 2}
    Rates = {0, 3}
    Funds = {0, 2}
    UpdatedFlags <- MCUpdatedFlags
    Unit = 4
    MaxFunds = 4
    MaxTime = 2
INVARIANTS SettingsSound OracleAgrees CurveDefined EmissionsBacked
PROPERTIES EmodeStaysBelow MigrationKeepsRates FreezeHolds
CHECK_DEADLOCK FALSE
