CONSTANTS
    Intents = {buy, sell}
    MaxRequests = 2
    MaxCancels = 1
    MaxOthers = 1
    Assets = {btc, usdt}
    p1 = p1
    p2 = p2
    f1 = f1
    f2 = f2
    b1 = b1
    Publishers = {p1, p2}
    Work <- MCWork
    Fills = {f1, f2}
    Unlinked = {f2}
    MaxRetries = 1
    WriterAttempts = 2
SPECIFICATION MCSpec
INVARIANTS AuditComesFirst DoubleOnlyAfterGiveUp GracefulStop
    BoundedDuplicates AcknowledgedInOrder ReturnedFillSettled
PROPERTIES EveryFillAudited PublishReturns
CHECK_DEADLOCK FALSE
