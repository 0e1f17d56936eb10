SPECIFICATION Spec
CONSTANTS
    Parts = {"flash", "layout", "files"}
    Sectors = 3
    SectorBytes = 2
    PortWidth = 2
    ByteBits = {"ready"}
    MaxWrite = 2
    FlashFaults = 1
INVARIANTS OkIsDone TableIsReal LoadsNamed
CHECK_DEADLOCK FALSE
