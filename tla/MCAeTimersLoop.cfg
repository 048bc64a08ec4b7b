SPECIFICATION FairSpec
CONSTANTS
    MsPerSec = 2
    MaxSec = 2
    MaxIds = 1
    MaxSkews = 0
    Delays <- MCDelays
    Periods <- MCPeriodsWithZero
PROPERTY PassTerminates
