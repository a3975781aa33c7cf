CONSTANTS
    MaxDials = 4
    MaxBackoff = 5
SPECIFICATION Spec
INVARIANT SubscribedWhileReading
