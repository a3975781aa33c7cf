CONSTANTS
    Callers = {c1, c2}
    Weights = {1, 2}
    Budget = 2
    Budgets = {1, 2}
    Refill = 3
    BackoffTicks = 1
    SnapshotWeight = 1
    MaxAdrift = 1
    MaxStray = 1
    Clients = {c1}
    Volume = 2
    MaxClock = 3
    MaxStamp = 3
    MaxOrders = 1
    RecvWindow = 1
    Ahead = 1
    Bids = {b1}
    Asks = {a1}
    Sizes = {0, 1}
    MaxVersion = 5
    MaxLag = 1
    OutCap = 1
SPECIFICATION MCSpec
INVARIANTS SequentialWithinLimit BinanceVerdictHolds AnchoredBookExact
PROPERTY BudgetRecovers
CHECK_DEADLOCK FALSE
