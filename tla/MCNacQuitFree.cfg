SPECIFICATION Spec
CONSTANTS
    QueueCap = 2
    MaxBoots = 1
    MaxSignals = 1
INVARIANT ThreadQuitsSafely
CHECK_DEADLOCK FALSE
