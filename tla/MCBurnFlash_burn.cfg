SPECIFICATION Spec
CONSTANTS
    Space = 10
    Start <- MCStart
    Bits <- TwoBits
    D7 = "d7"
    Protections <- MCProtections
    TornCells <- MCTorn
    Failures = TRUE
    BootBase = 6
    SkipLen = 1
    ScanStep = 1
    Scans = 5
    Mark <- MCMark
    Stray = {}
    Loaders <- MCLoaders
    Images <- AllImages
    Factory <- MCFactory
INVARIANTS Bootable NoSilentLoss CompletedStored NoSpuriousError
PROPERTY OnlyTarget
CHECK_DEADLOCK FALSE
