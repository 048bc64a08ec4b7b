SPECIFICATION BackendsSpec
CONSTANTS
    f1 = f1
    f2 = f2
    p1 = p1
    p2 = p2
    Procs <- MCProcs
    Fds <- MCFds
    Events <- MCEvents
    MAX_EVENT_BATCHSZ = 1
    setsize = 3
SYMMETRY Symmetry
INVARIANTS EitherKernelOrPending BackEndsAgree
PROPERTIES ImplementsPoller
