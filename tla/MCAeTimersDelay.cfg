SPECIFICATION Spec
CONSTANTS
    MsPerSec = 2
    MaxSec = 3
    MaxIds = 2
    MaxSkews = 1
    Delays <- MCDelays
    Periods <- MCPeriods
PROPERTY NoTimerDelayed
