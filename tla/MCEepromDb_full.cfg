SPECIFICATION Spec
CONSTANTS
    Size = 13
    ImageSize = 6
    CopySize = 2
    Magic = 77
    Blank = 99
    Keys <- TwoKeys
    Ethaddr = 2
    Prodnum = 3
    Values <- MCValues
    Commands = {"add"}
    ReadErrors = FALSE
    WriteErrors = FALSE
    PowerLossAt <- NoPlaces
    MindRoom = FALSE
INVARIANT AddStores

CHECK_DEADLOCK FALSE
