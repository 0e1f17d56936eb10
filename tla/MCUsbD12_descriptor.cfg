SPECIFICATION Spec
CONSTANTS
    Files <- MCFiles
    Size <- MCSize
    BufSize = 2
    BlockSize = 2
    LenBound = 4
    Hosts <- MCClobbers
INVARIANT BufferFree
CHECK_DEADLOCK FALSE
