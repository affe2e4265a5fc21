SPECIFICATION Spec
CONSTANTS
    LOAN = 4
    SLIPPAGE = 1
    SlippageUnit = 4
    Fee = 1
    PoolOutputs = {0, 2, 3, 5, 6}
    Purses = {0, 2, 4}
    OldDebts = {0, 2}
    MaxPurse = 6
    Bounds = {"bot"}
PROPERTY SixInstructionsCompose
