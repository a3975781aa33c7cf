CONSTANTS
    Bids = {b1}
    Asks = {a1}
    Sizes = {0, 1}
    MaxVersion = 5
    MaxLag = 0
    OutCap = 2
SPECIFICATION DepthSpec
INVARIANT BookIntegrity
CHECK_DEADLOCK FALSE
