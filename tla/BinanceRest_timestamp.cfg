CONSTANTS
    Clients = {c1}
    Volume = 2
    MaxClock = 3
    MaxStamp = 3
    MaxOrders = 1
    RecvWindow = 1
    Ahead = 3
SPECIFICATION BinanceSpec
INVARIANT TimestampValid
CHECK_DEADLOCK FALSE
