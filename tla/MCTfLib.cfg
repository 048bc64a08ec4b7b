SPECIFICATION LibSpec
CONSTANTS
    a = a
    b = b
    main = main
    Handles <- MCPair
    Strings <- MCStrings
    TF_LIST_UNIT = 2
    Regions <- MCRegions
    MaxNum = 3
    Xstrs <- MCPair
    U32 = 6
    INT_MAX = 2
    MaxLength = 7
    TF_STR_UNIT = 2
    Totals <- MCTotals
    Windows <- MCWindows
    Waits <- MCWaits
    Epoch = 5
    MaxTime = 13
    Threads <- MCPair
    LONG = 2
    PREFIX_SIZE = 2
    SIZE_MAX = 8
    ReqSizes <- MCReqSizes
    Ptrs <- MCPtrs
    BLOCK = 8
    LENGTH = 2
    WORD = 64
    MaxBytes = 34
    DataLens <- MCDataLens
    SocketBuffer = 2
    Retries = 1
    MaxAhead = 2
    Tids <- MCTids
    MainThread = main
    TF_MAX_THREADS = 2
    Limits <- MCLimits
    MaxCreated = 4
    GroupNames <- MCGroupNames
    Keys <- MCPair
    Values <- MCValues
    LowerOf <- MCLowerOf
    MaxLines = 4
    TFIOBUFSIZ = 2
    MaxSize = 3
    VBASE = 2
    INT = 2
    Elements <- MCElements
    ByteValues <- MCByteValues
    MaxElements = 3
    MaxBytesIn = 7
    Callers <- MCPair
    Fds <- MCFds
SYMMETRY Symmetry
INVARIANTS EachRegionOwnedOnce StringsFit SearchesAgree StringWithinRegion BurstBounded AccountingExact TransformsPaddedMessage ResponsesTakenWhole LoopWaitsForWriterOnly MutexesProtect NeverRefusedEarly LookupsAgree TransfersWhole ListsSurvive BytesSurvive DescriptorsOwned
PROPERTIES ImplementsLists PenaltyServed
