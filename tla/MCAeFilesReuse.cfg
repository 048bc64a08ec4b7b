SPECIFICATION Spec
CONSTANTS
    SETSIZE = 2
    MaxFd = 2
    p = p
    q = q
    NoProc = NoProc
    Procs <- MCProcs
    MaxFiles = 3
PROPERTY EventStillValid
