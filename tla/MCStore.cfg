CONSTANTS
    Instances = {i1, i2}
    Count = 3
    Venues = {v1, v2}
    OrderIds = {o1, o2}
    ClientKeys = {k1, k2}
    TradeIds = {t1, t2}
SPECIFICATION MCSpec
INVARIANTS ReadyIsMigrated AppliedInOrder StoresAgree LostOnlyToSameId
SYMMETRY Interchangeable
