SPECIFICATION FairSpec
CONSTANTS
    QueueCap = 2
    MaxBoots = 2
    MaxSignals = 3
INVARIANTS ResponsesServed 
PROPERTIES LoopNeverCrashes SignalEndsLoop
CHECK_DEADLOCK FALSE
