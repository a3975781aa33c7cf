CONSTANTS
    Callers = {c1, c2}
    Limit = 2
    Window = 2
    BackoffTicks = 2
    ClientIds = {k1}
    MaxQuotes = 2
SPECIFICATION MCSpec
INVARIANTS BurstBound OneTradePerOrder TradeKnownOrUnsure FinalStatusHolds
PROPERTY BackoffEnds
