SPECIFICATION Spec
CONSTANTS
    Space = 10
    Start <- MCStart
    Bits <- TwoBits
    D7 = "d7"
    Protections <- NoProtection
    TornCells <- MCTorn
    Failures = FALSE
    BootBase = 6
    SkipLen = 1
    ScanStep = 1
    Scans = 5
    Mark <- MCMark
    Stray = {}
    Loaders <- MCLoaders
    Images <- OnTop
    Factory <- MCFactory
INVARIANT WordIsWritten
CHECK_DEADLOCK FALSE
