SPECIFICATION Spec
CONSTANTS
    Parts = {"host", "hub", "cpld", "menu", "net2270", "ide", "disks", "mmc", "requests", "text", "lcd", "still", "logo", "start"}
    NPorts = 2
    MaxEvents = 2
    BlockSize = 3
    Cards = {2, 3}
    MaxLen = 7
    MaxPacket = 2
    JobPackets = 2
    Retries = 1
    Lens = {0, 5}
    Files = {"a", "b", "c"}
    Packets <- OneToFour
    BlockPackets = 2
    Room = 3
    MaxRequests = 5
    DiskBlocks = 6
    Reach = 4
    MaxCount = 3
    Lba48Builds = {TRUE, FALSE}
    DiskFaults = 2
    SectorLongs = 6
    Registers = {"status", "command"}
    MaxSlow = 2
    Devices = 2
    DiskBlockSize = 2
    HeaderBytes = 1
    Ulong = 16
    DiskTable <- ThreeDisks
    Ends = {"in"}
    Asked = {8, 64}
INVARIANTS TypeOK Delivered HubAsAsked SectorWhole KeysSent MenuRecognises PressCountsOnce WholeFile IsrDoesNotWait CountedIsDone BootsNamed RangeIsMoved AsStandard ShowsWhatIsMeant DecodesAll
CHECK_DEADLOCK FALSE
