SPECIFICATION BotSpec
CONSTANTS
    LOAN = 4
    SLIPPAGE = 1
    SlippageUnit = 4
    Fee = 1
    PoolOutputs = {2, 3, 6}
    Purses = {0, 4}
    OldDebts = {0, 2}
    MaxPurse = 6
    Bounds = {"marginfi"}
    ChunkSizes <- TwoChunks
    MaxAttempts = 2
CHECK_DEADLOCK FALSE
INVARIANTS IInv TableSound
PROPERTIES LossBounded FailsForAReason CycleIsAtomic RunEnds
