SPECIFICATION Spec
CONSTANTS
    MsPerSec = 2
    MaxSec = 3
    MaxIds = 3
    MaxSkews = 1
    Delays <- MCDelays
    Periods <- MCPeriods
INVARIANTS NoTimerLost HandlersDoNotFeedPass
PROPERTIES NeverEarly NoDueTimerSkipped SkewFiresAll SleepBounded
