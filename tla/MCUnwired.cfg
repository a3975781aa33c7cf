CONSTANTS
    Workers = {w1, w2}
    MaxVersion = 3
    Emitters = {e1, e2}
    QueueSize = 2
    MaxEvents = 3
SPECIFICATION MCSpec
INVARIANTS RevokedAfterProbe SerialKeepsAlive FifoAudit DropsCounted
PROPERTIES ImplementsFifo AcceptedIsDelivered
