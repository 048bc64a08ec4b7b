SPECIFICATION FairSpec
CONSTANTS
    QueueCap = 2
    MaxBoots = 1
    MaxSignals = 1
PROPERTY QuittingEnds
CHECK_DEADLOCK FALSE
