SPECIFICATION Spec
CONSTANTS
    Images <- MCImages
    Mod = 3
    Timeout = 5
    Delay = 1
    Retries = 3
    SenderTries = 4
    Depth = 3
    MaxFaults = 1
INVARIANT SuccessMeansSent
CHECK_DEADLOCK FALSE
