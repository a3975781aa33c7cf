CONSTANTS
    MaxDials = 4
    MaxBackoff = 5
    BidPrices <- MCBidPrices
    AskPrices <- MCAskPrices
    OutCap = 2
SPECIFICATION MCSpec
INVARIANT GapForcesRefresh
