------------------------------- MODULE MCBox -------------------------------
(***************************************************************************)
(* Small instances of the parts of a box that share no state with another: *)
(* the USB host controller, the USB devices, keys, menus and panels, disks *)
(* and cards, pictures, and the start of the boards; MCRom has those about *)
(* flash.  The boot loader has one thread and runs one of them at a time,  *)
(* so a behaviour is one of one part, chosen at the start.                 *)
(***************************************************************************)
EXTENDS Integers, Sequences

CONSTANTS
  Parts,                       \* those to be checked
  NPorts, MaxEvents,           \* RootHub: ports, and what happens to them
  BlockSize, Cards, MaxLen,    \* MmcCard: sizes of blocks, cards and calls
  MaxPacket, JobPackets, Retries, Lens,     \* Isp116x: packets, jobs, messages
  Files, Packets, BlockPackets, Room, MaxRequests,   \* UsbNet2270: files,
                               \* packets of them, a block and the buffer
  DiskBlocks, Reach, MaxCount, Lba48Builds, DiskFaults,   \* Ide: a disk, the
                               \* blocks 28 bits reach and those of a call
  SectorLongs, Registers, MaxSlow,          \* CpldIde: a sector, registers
  Devices, DiskBlockSize, HeaderBytes, Ulong, DiskTable,  \* IdeDevices: sizes,
                               \* and the disks that may be in the box
  Ends, Asked                  \* StandardRequests: endpoints and wLengths

VARIABLES
  part,                                                       \* the one that runs
  hc, toggle, halted, msg, job, dev, moved, again,            \* Isp116x
  ports, rh_devnum, req, core, events, asked, unreset,        \* RootHub
  panel, line, pack, high, held, sent, got, lost,             \* FrontKeys
  mode, presskey, quiet, result, oldkey, num,                 \* BootMenu
  chip, isr, ctl, main, upg, host, seen,                      \* UsbNet2270
  LBA48, drive, io, written, troubles,                        \* Ide
  bank, avail, ctrl, fifo, ata, call, words, slow,            \* CpldIde
  slot, ide_dev_desc, curr_device, cmd, loaded, wrote,        \* IdeDevices
  card, mmc, range, at,                                       \* MmcCard
  usb, pc, fast, last,                                        \* StandardRequests
  front, out, micom, said,                                    \* FrontText
  lcd, con, ddram, term,                                      \* LcdConsole
  src, dec, screen, wild,                                     \* MpgStill
  image, video, decoder, step,                                \* StartImage
  start, ebiu, sdram, gpio, uic                               \* BoardStart

Host == INSTANCE Isp116x

Hub == INSTANCE RootHub

Cmd(p, r, c) == [pattern |-> p, repeat |-> r, cmd |-> c]

(* Repeated keys with the same and with other keys of a combination. *)
Menu == INSTANCE BootMenu WITH
  Hands <- {"key_power", "key_9", "key_front_power", "key_front_up",
            "key_front_p_up", "key_front_left", "key_front_ok",
            "key_left", "key_up"},
  Panels <- {"13_grid", "7seg", "relook300s"},
  MaxLost <- 1, MaxSent <- 5, MAX_KEY <- 3, Timeout <- 3, Entries <- 3,
  Modes <- {"menu", "select", "waitkey"},
  Commands <- << Cmd(<<"key_power">>, 3, "menu_upgusb"),
                 Cmd(<<"key_front_power">>, 4, "menu_upgusb"),
                 Cmd(<<"key_front_p_up", "key_front_power">>, 0, "menu_upgserial"),
                 Cmd(<<"key_front_up">>, 3, "menu_vmode") >>

OneToFour == [f \in {"a", "b", "c"} |-> CASE f = "a" -> 1 [] f = "b" -> 3 [] f = "c" -> 4]
Net == INSTANCE UsbNet2270 WITH Size <- Packets, BlockSize <- BlockPackets

Disk == INSTANCE Ide WITH
  Blocks <- DiskBlocks, Builds <- Lba48Builds, MaxFaults <- DiskFaults

Cpld == INSTANCE CpldIde WITH Words <- SectorLongs, Ports <- Registers

Partition(s, i, n) == [start |-> s, image |-> i, size |-> n]

(* Images of one, two and more blocks, and sizes that are too large for a      *)
(* number or for the disk.                                                     *)
ThreeDisks ==
  [a |-> [blocks |-> 6, parts |-> <<Partition(1, TRUE, 3), Partition(3, TRUE, 0),
                                    Partition(4, FALSE, 0)>>],
   b |-> [blocks |-> 6, parts |-> <<Partition(1, TRUE, 2), Partition(3, TRUE, 9),
                                    Partition(4, TRUE, 15)>>],
   c |-> [blocks |-> 2, parts |-> <<>>]]
Disks == INSTANCE IdeDevices WITH
  Disks <- DiskTable, BlockSize <- DiskBlockSize, Header <- HeaderBytes

Card == INSTANCE MmcCard WITH io <- range

Chapter9 == INSTANCE StandardRequests WITH
  Drivers <- {"d12", "net"}

(* The characters four by four, and what is shorter or longer than a panel.    *)
FourFrom(c) == [i \in 1..4 |-> c + i]
Text == INSTANCE FrontText WITH
  Panels <- {"13_grid", "7seg", "relook300s"},
  Texts <- {FourFrom(64 + 4 * k) : k \in 0..6} \cup {FourFrom(96 + 4 * k) : k \in 0..6}
           \cup {FourFrom(47), FourFrom(51), FourFrom(54), <<>>, <<49>>, <<39, 45, 95>>,
                 [i \in 1..7 |-> 64 + i], [i \in 1..14 |-> 96 + i]},
  Downloads <- {<<0, 3>>, <<1, 16>>, <<1, 3>>, <<99, 100>>}

Build(f, r) == [font |-> f, reserve |-> r]
Lcd == INSTANCE LcdConsole WITH
  Pages <- 4, Cols <- 3, Tab <- 2, MaxChars <- 6,
  Builds <- {Build(1, 0), Build(2, 0), Build(1, 1), Build(1, 2), Build(2, 1)}

(* Pictures smaller, larger and as large as a screen of two macroblocks' sides. *)
Still == INSTANCE MpgStill WITH
  Sizes <- {<<17, 20>>, <<32, 16>>, <<33, 16>>, <<16, 33>>, <<0, 16>>},
  ScreenWidth <- 2, ScreenHeight <- 2, MaxUnits <- 1,
  Blocks <- {<<>>, <<0, 61>>, <<62>>, <<63>>, <<62, 0>>},
  Samples <- {-513, -500, -256}

Picture(type, len, crc, whole, ucode) ==
  [type |-> type, len |-> len, crc |-> crc, whole |-> whole, ucode |-> ucode]
Logo == INSTANCE StartImage WITH
  Boards <- {"common", "relook300s"}, ImageRoom <- 6, RateBuffer <- 16,
  Palette <- {0, 1, 128, 200, 255},
  Images <- {Picture(1, 4, TRUE, TRUE, "none"), Picture(1, 4, TRUE, FALSE, "none"),
             Picture(1, 1, TRUE, FALSE, "none"), Picture(1, 7, TRUE, FALSE, "none"),
             Picture(1, 4, FALSE, FALSE, "none"), Picture(3, 4, TRUE, TRUE, "none"),
             Picture(4, 5, TRUE, TRUE, "none"), Picture(4, 5, TRUE, TRUE, "raw"),
             Picture(4, 0, TRUE, TRUE, "none"), Picture(9, 3, TRUE, TRUE, "none")}

Board == INSTANCE BoardStart WITH
  Machines <- {"relook100s", "relook100sn", "relook200s", "relook200sn", "relook200c",
               "relook210", "relook300s", "relook400s", "relook400sn"}

ASSUME PartsAssumption ==
  /\ Host!HostSizes /\ Hub!HubSizes /\ Menu!MenuSizes /\ Net!NetSizes
  /\ Disk!IdeSizes /\ Cpld!CpldSizes
  /\ Disks!DiskSizes /\ Card!MmcSizes /\ Chapter9!RequestSizes
  /\ Lcd!LcdSizes /\ Still!StillSizes /\ Logo!StartSizes

Init ==
  /\ part \in Parts
  /\ Host!Init /\ Hub!Init /\ Net!Init
  /\ IF part = "menu"  THEN Menu!Init /\ (mode = "waitkey" \/ panel = "13_grid")
     ELSE Menu!Init /\ mode = "menu" /\ panel = "13_grid"
  /\ IF part = "ide"   THEN Disk!Init  ELSE Disk!Init /\ LBA48
  /\ IF part = "cpld"  THEN Cpld!Init  ELSE Cpld!Init /\ bank
  /\ IF part = "disks" THEN Disks!Init ELSE Disks!Init /\ \A d \in DOMAIN slot : slot[d] = "none"
  /\ IF part = "mmc"   THEN Card!Init  ELSE Card!Init /\ card.blocks = 2
  /\ IF part = "requests" THEN Chapter9!DeviceInit ELSE Chapter9!DeviceInit /\ usb.driver = "d12"
  /\ IF part = "text"  THEN Text!TextInit ELSE Text!TextInit /\ front.panel = "7seg"
  /\ IF part = "lcd"   THEN Lcd!Init ELSE Lcd!Init /\ lcd.build = Build(1, 0)
  /\ IF part = "still" THEN Still!Init ELSE Still!Init /\ src.w = 17
  /\ IF part = "logo"  THEN Logo!Init /\ (image.img.type = 4 => image.builtin /\ image.board = "common")
     ELSE Logo!Init /\ image.img.type = 9 /\ image.builtin /\ image.inflash
          /\ image.board = "common"
  /\ IF part = "start" THEN Board!Init ELSE Board!Init /\ start.machine = "relook200c"

hostVars  == <<hc, toggle, halted, msg, job, dev, moved, again>>
hubVars   == <<ports, rh_devnum, req, core, events, asked, unreset>>
netVars   == <<chip, isr, ctl, main, upg, host, seen>>
reqVars   == <<usb, pc, fast, last>>
menuVars  == <<panel, line, pack, high, held, sent, got, lost,
               mode, presskey, quiet, result, oldkey, num>>
textVars  == <<front, out, micom, said>>
diskVars  == <<LBA48, drive, io, written, troubles>>
cpldVars  == <<bank, avail, ctrl, fifo, ata, call, words, slow>>
devVars   == <<slot, ide_dev_desc, curr_device, cmd, loaded, wrote>>
cardVars  == <<card, mmc, range, at>>
lcdVars   == <<lcd, con, ddram, term>>
stillVars == <<src, dec, screen, wild>>
logoVars  == <<image, video, decoder, step>>
startVars == <<start, ebiu, sdram, gpio, uic>>

usbVars   == <<hostVars, hubVars, netVars, reqVars>>
frontVars == <<menuVars, textVars>>
ataVars   == <<diskVars, cpldVars, devVars, cardVars>>
showVars  == <<lcdVars, stillVars, logoVars, startVars>>

Runs(p) == part = p /\ UNCHANGED part

Next ==
  \/ /\ Runs("host") /\ Host!Next
     /\ UNCHANGED <<hubVars, netVars, reqVars, frontVars, ataVars, showVars>>
  \/ /\ Runs("hub") /\ Hub!Next
     /\ UNCHANGED <<hostVars, netVars, reqVars, frontVars, ataVars, showVars>>
  \/ /\ Runs("net2270") /\ Net!Next
     /\ UNCHANGED <<hostVars, hubVars, reqVars, frontVars, ataVars, showVars>>
  \/ /\ Runs("requests") /\ Chapter9!DeviceNext
     /\ UNCHANGED <<hostVars, hubVars, netVars, frontVars, ataVars, showVars>>
  \/ /\ Runs("menu") /\ Menu!Next
     /\ UNCHANGED <<textVars, usbVars, ataVars, showVars>>
  \/ /\ Runs("text") /\ Text!TextNext
     /\ UNCHANGED <<menuVars, usbVars, ataVars, showVars>>
  \/ /\ Runs("ide") /\ Disk!Next
     /\ UNCHANGED <<cpldVars, devVars, cardVars, usbVars, frontVars, showVars>>
  \/ /\ Runs("cpld") /\ Cpld!Next
     /\ UNCHANGED <<diskVars, devVars, cardVars, usbVars, frontVars, showVars>>
  \/ /\ Runs("disks") /\ Disks!Next
     /\ UNCHANGED <<diskVars, cpldVars, cardVars, usbVars, frontVars, showVars>>
  \/ /\ Runs("mmc") /\ Card!Next
     /\ UNCHANGED <<diskVars, cpldVars, devVars, usbVars, frontVars, showVars>>
  \/ /\ Runs("lcd") /\ Lcd!Next
     /\ UNCHANGED <<stillVars, logoVars, startVars, usbVars, frontVars, ataVars>>
  \/ /\ Runs("still") /\ Still!Next
     /\ UNCHANGED <<lcdVars, logoVars, startVars, usbVars, frontVars, ataVars>>
  \/ /\ Runs("logo") /\ Logo!Next
     /\ UNCHANGED <<lcdVars, stillVars, startVars, usbVars, frontVars, ataVars>>
  \/ /\ Runs("start") /\ Board!Next
     /\ UNCHANGED <<lcdVars, stillVars, logoVars, usbVars, frontVars, ataVars>>

Spec == Init /\ [][Next]_<<part, usbVars, frontVars, ataVars, showVars>>

---------------------------------------------------------------------------
(* Every variable of the part that runs has its type. *)
TypeOK ==
  /\ part = "host"    => Host!TypeOK
  /\ part = "hub"     => Hub!HubTypeOK
  /\ part = "menu"    => Menu!TypeOK
  /\ part = "net2270" => Net!TypeOK
  /\ part = "ide"     => Disk!IdeTypeOK
  /\ part = "cpld"    => Cpld!CpldTypeOK
  /\ part = "disks"   => Disks!DevicesTypeOK
  /\ part = "mmc"     => Card!MmcTypeOK
  /\ part = "requests" => Chapter9!DeviceOK
  /\ part = "text"    => Text!TextTypeOK
  /\ part = "lcd"     => Lcd!LcdTypeOK
  /\ part = "still"   => Still!StillTypeOK
  /\ part = "logo"    => Logo!StartTypeOK
  /\ part = "start"   => Board!StartOK

(* The properties of the parts, stated and explained in their modules: a       *)
(* message of the host controller is delivered (isp116x_submit_job) ...        *)
Delivered         == part = "host"    => Host!Delivered
(* ... but a retry of a job sends other data than the job did;                 *)
RetryMovesNothing == part = "host"    => Host!RetryMovesNothing
(* and its root hub does what the core asks;                                   *)
HubAsAsked        == part = "hub"     => Hub!HubAsAsked
(* front_getkey returns the keys the panel sent;                               *)
KeysSent          == part = "menu"    => Menu!KeysSent
(* dgs_bootmenu executes what the keys ask for, and waits for who holds one;   *)
MenuRecognises    == part = "menu"    => Menu!MenuRecognises
(* front_singlekey and front_waitkey count a press once;                       *)
PressCountsOnce   == part = "menu"    => Menu!PressCountsOnce
(* what the USB upgrade of a NET2270 burns is the file announced, and a whole  *)
(* one is burnt;                                                               *)
WholeFile         == part = "net2270" => Net!WholeFile
(* its interrupt handler does not wait for packets without a reason;           *)
IsrDoesNotWait    == part = "net2270" => Net!IsrDoesNotWait
(* the blocks ide_read and ide_write count are done;                           *)
CountedIsDone     == part = "ide"     => Disk!CountedIsDone
(* the adapter of the dbox2 reads a sector whole;                              *)
SectorWhole       == part = "cpld"    => Cpld!SectorWhole
(* diskboot loads the image of the partition named;                            *)
BootsNamed        == part = "disks"   => Disks!BootsNamed
(* mmc_read and mmc_write move the range they are given, and nothing else;     *)
RangeIsMoved      == part = "mmc"     => Card!RangeIsMoved
(* what a PC was told by the USB devices holds of the box;                     *)
AsStandard        == part = "requests" => Chapter9!AsStandard
(* the front panel and the LCD read as what was printed, and the start image   *)
(* and the still picture are drawn as they are, or not at all;                 *)
ShowsWhatIsMeant  ==
  /\ part = "text"   => Text!ReadsAsWritten
  /\ part = "lcd"    => Lcd!ShowsText
  /\ part = "still"  => Still!DrawsPicture
  /\ part = "logo"   => Logo!ShowsImage
(* and every address and pin a board uses is decoded after its start.          *)
DecodesAll        == part = "start"   => Board!DecodesAll
=============================================================================
