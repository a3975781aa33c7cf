CONSTANTS
    Intents = {buy, sell}
    MaxRequests = 2
    MaxCancels = 1
    MaxOthers = 1
    Assets = {btc, usdt}
SPECIFICATION LifeSafe
INVARIANT StartsWhenConfigured
CHECK_DEADLOCK FALSE
