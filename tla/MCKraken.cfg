CONSTANTS
    Callers = {c1, c2}
    Costs = {1, 3}
    Budget = 4
    Decay = 2
    BackoffTicks = 3
    MaxElapsed = 11
    Horizon = 4
    Clients = {c1, c2}
    Volume = 2
    MaxClock = 2
    MaxStamp = 3
    MaxOrders = 1
SPECIFICATION MCSpec
INVARIANTS CostBound SerialNonces KrakenVerdictHolds
PROPERTY LazyDecayIsExact
SYMMETRY Interchangeable
CHECK_DEADLOCK FALSE
