SPECIFICATION Spec
CONSTANTS
    MAX_PEER_NUMS = 2
    PEER_ID_OFFSET = 10
    MAX_PACKET_LEN = 4096
    MAX_MQUEUE_LEN = 4096
    U16 = 4
    Fds <- MCFds
    MaxConns = 4
    MaxBoots = 2
    QueueCap = 1
    Lens <- MCLens
    Timeouts <- MCTimeouts
PROPERTY DroppedMeansLost
CHECK_DEADLOCK FALSE
