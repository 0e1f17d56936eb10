SPECIFICATION FairSpec
CONSTANTS
    Size = 8
    ImageSize = 6
    CopySize = 1
    Magic = 77
    Blank = 99
    Keys <- TwoKeys
    Ethaddr = 2
    Prodnum = 3
    Values <- OneValue
    Commands = {"add", "del", "dump", "toenv"}
    ReadErrors = TRUE
    WriteErrors = TRUE
    PowerLossAt <- NoPlaces
    MindRoom = TRUE

PROPERTY Terminates
CHECK_DEADLOCK FALSE
