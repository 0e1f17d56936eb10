SPECIFICATION FairSpec
CONSTANTS
    Images <- MCImages
    Mod = 3
    Timeout = 5
    Delay = 1
    Retries = 3
    SenderTries = 4
    Depth = 3
    MaxFaults = 2
INVARIANT BurntIsSent
PROPERTIES BlockInPlace CleanSessionArrives BothReturn
CHECK_DEADLOCK FALSE
