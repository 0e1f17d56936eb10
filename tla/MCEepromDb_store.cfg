SPECIFICATION FairSpec
CONSTANTS
    Size = 13
    ImageSize = 6
    CopySize = 2
    Magic = 77
    Blank = 99
    Keys <- TwoKeys
    Ethaddr = 2
    Prodnum = 3
    Values <- MCValues
    Commands = {"add", "del", "eepromadd", "clear", "toenv", "dump"}
    ReadErrors = FALSE
    WriteErrors = FALSE
    PowerLossAt <- SafePlaces
    MindRoom = TRUE
INVARIANTS TypeOK Readable NoDuplicates Coalesced NoSpuriousFailure
PROPERTIES ImplementsKeyStore
CHECK_DEADLOCK FALSE
