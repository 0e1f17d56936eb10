# Verification of the Tuxbox boot loader

`tuxbox_boot` is an overlay on U-Boot for set-top boxes (ipbox/relook with a
PowerPC 405, dbox2, dreambox). Nothing else runs while the boot loader does:
one thread of control, polled devices, and for the USB upgrade one interrupt
handler.  Next to the code run the chips it drives. What makes the code hard is that its operations write persistent
devices (an I2C EEPROM and the flash the box starts from) in several steps, that
the power may go between any two of them, that images come over lines which
lose and break bytes, and that a device may fail or time out at each access.

All source paths below are relative to `src/u-boot-tuxbox/`.

## Inventory

| part | state | operations | what makes it correct |
|---|---|---|---|
| item database, `board/ipbox/common/eeprom_db.c` | the chain of items in the EEPROM | `edb add, del, clear, toenv, dump`, `eeprom_add` | the chain stays readable, a key occurs once, an operation touches no other item, every operation ends |
| burning, `board/ipbox/common/upgrade.c` | upgrade buffer, `upg_buffer_status`, `upg_buffer_errorno`, `boot_try_fail` | `burn_flash`, `burn_flash_img` (dgsupdate) | the loader is replaced only inside its own window, success means stored, a lost loader is reported |
| flash driver, `board/ipbox/common/flash.c` | the chip, `info->start`, `info->protect` | `flash_erase`, `write_buff`, `write_word` | what is reported written is in the flash |
| serial upgrade, `serial_upgrade.c`, and box-to-box copy, `serial_set2set.c` (same directory) | line, baud rates, block number, upgrade buffer | handshake, header, blocks, burn | only what was sent in order is burnt, both ends agree on the outcome, neither hangs |
| USB upgrade, `pdiusbd12/`, `net2270/`, `vendor.c` (same directory) | `ControlData`, the event flags, `upg_buffer_len`, block size | interrupt handler, main loop, vendor requests | no request is lost or half overwritten, the host learns how a burn ended |
| front panels, `front_dev_13_grid.c`, `front_dev_7seg.c`, `relook300s/front_dev.c`, and boot menu, `cmd_bootmenu.c`, `vmode_Select.c`, `mIDSelect.c`, `front.c` | bytes of a packet, half of a key; history of 60 keys, timeout, the entry selected | `front_getkey`; key matching, selection, waiting for a key | no key is made up, a pattern is recognised when typed, a press counts once, who holds a key is not timed out |
| network upgrade, `netBoot.c` | the network variables | one packet, TFTP, dgsupdate, reset | as dgsupdate |
| USB host, `drivers/isp116x-hcd.c` | jobs and packets in the FIFO, toggles; port registers, the hub's address | submit, retry, interrupt; root hub requests | bytes and toggles survive retries; no change of a port is lost |
| flash drivers, `board/dreambox/strataflash.c`, `board/dbox2/flash.c` | the chip, its status, locks | `flash_erase`, `write_buff`, `flash_real_protect` | success means done, locks are what they were |
| flash initialisation, the same and `board/ipbox/common/flash.c` | `flash_info` | `flash_init` | the table is the chip's |
| IDE, `common/cmd_ide.c` | the list of devices, the drive | `ide reset, device, read, write`, `diskboot` | blocks counted are done, on the disk named |
| IDE adapter of the dbox2, `board/dbox2/dbox2.c` | the CPLD's FIFO and control word | `ide_preinit`, `ide_inb`, `ide_outb`, `input_data`, `output_data` | a sector is read whole, though the CPLD runs beside the code |
| MMC card, `mmc.c` | `mmc_ready`, `mmc_size`, one block | `mmc_init`, `mmc_read`, `mmc_write`, `mmc_bread` | a range is moved, and nothing else |
| file system, `fs/squashfs/squashfs.c`, `common/cmd_fs.c` | the lookup, block buffers | `fsload`, `ls`, `fsinfo` | what was named is loaded, damage is noticed |
| standard requests, `pdiusbd12/chap_9.c`, `net2270/chap_9.c`, `net2270/mainloop.c` | flags, packet size, the controllers' addresses and halts | chapter 9 of USB | what the PC was told holds of the box |
| displays of the front panels, the same files | the cells, in the panel's controller | `front_init`, `front_puts`, `front_persent` | the panel reads as what was written |
| LCD of the dbox2, `lcd.c`, `font_8x8.h`, `font_8x16.h` | the cursor, the display's memory | `lcd_putc`, `lcd_load` | the display shows what was printed, the logo stays |
| still picture of the dbox2, `mpgstill.c` | the tables, the place in the source | `decodestillmpg` | the picture is drawn as coded, and nothing outside the screen |
| start image of the ipbox, `video.c`, `relook300s/video.c`, `logo.c` | the OSD, its palette and window, the video decoder | `video_hw_init`, `logo` | an intact image is shown with its colours, commands are executed in order |
| start of the ipbox boards, `board/ipbox/relook*/`, `gpio.c`, `ppc_ide.c`, the headers of `src/u-boot-config/` | banks, memory, pins | `init.S`, `misc_init_f`, `initdram` | what a driver addresses is decoded, the pins it moves are its own |
| network start, video of the dbox2, other boards, tools | - | registers, drawing, conversion | - |

The parts meet in the upgrade buffer: serial, USB and network downloads fill it
and call `burn_flash`, which calls U-Boot's `flash_sect_erase` and
`flash_write`, which call `flash_erase` and `write_buff` on the table that `flash_init` made. The USB interrupt handler reads
`upg_buffer_status` and `upg_buffer_errorno` while a burn runs. The database is used by the boards' start-up
code and by the model selection through `eeprom_add`. The USB upgrade of a NET2270
shares `vendor.c` with that of a PDIUSBD12. The remaining parts share no state: the
boot loader runs one command at a time.

`PROJECT.json` lists every part, with its status, and every hazard at its line.

## Modules

| module | contents |
|---|---|
| `KeyStore` | what the database promises: a set of (key, value) entries changed by atomic operations |
| `EepromDb` | `eeprom_db.c` cell by cell |
| `MCEepromDb` | its small instances |
| `EepromDbProofs` | proofs of `TypeOK`, `Readable`, `NoDuplicates`, `Coalesced`, `NoSpuriousFailure` and the refinement of `KeyStore` |
| `Flash` | `flash.c`: one erased sector or programmed halfword per step |
| `BurnFlash` | `upgrade.c`, on `Flash` |
| `MCBurnFlash` | its small instances |
| `BurnFlashProofs` | proofs of its five properties |
| `SerialLink` | `serial_upgrade.c` and `serial_set2set.c`: two boxes and the line between them |
| `MCSerialLink` | its small instances |
| `UsbD12` | `pdiusbd12/` and `vendor.c`: the interrupt handler, the main loop, the chip and a host |
| `MCUsbD12` | its small instances |
| `UsbD12Proofs` | proofs of its four safety properties |
| `UsbNet2270` | `net2270/` and its branches of `vendor.c` |
| `UsbNet2270Proofs` | proofs of its two properties |
| `FrontKeys` | `front_getkey` of three front panels |
| `BootMenu` | its users: boot menu, selection menus, `front.c` |
| `Isp116x` | messages, jobs and packets of the USB host controller |
| `RootHub` | the root hub in it |
| `IntelFlash` | the flash drivers of the dreambox and the dbox2, for Intel and AMD chips |
| `FlashInit` | `flash_init` of all boards |
| `Ide` | `ide_read`, `ide_write`, `ide_wait` |
| `IdeDevices` | which disk a command of `cmd_ide.c` reaches |
| `CpldIde` | the IDE adapter of the dbox2 |
| `MmcCard` | `mmc.c` |
| `Squashfs` | the file system reader |
| `StandardRequests` | chapter 9 of both USB devices |
| `FrontText` | what three front panels show |
| `LcdConsole` | the console on the LCD of the dbox2 |
| `LcdConsoleProofs` | proof of its `ShowsText`, a part of `ShowsWhatIsMeant` |
| `MpgStill` | its decoder of a still picture |
| `StartImage` | the start image of the ipbox and its video decoder |
| `BoardStart` | the start of six boards in nine configurations |
| `MCBox` | small instances of these parts, one of which runs in each behaviour |
| `MCRom` | the same for the three about flash: `IntelFlash`, `FlashInit`, `Squashfs` |
| `BoxProofs` | proofs in `MCBox` of `HubAsAsked`, `RangeIsMoved`, `AsStandard` and `Delivered`, and, by `UsbNet2270Proofs`, of the NET2270's two |
| `DiskProofs` | proofs in `MCBox` of `CountedIsDone`, `SectorWhole`, `BootsNamed` |
| `FlashProofs` | proof in `MCRom` of `OkIsDone` |

### EepromDb

`eeprom` is the device, an array of cells. An item is a header, which is a key
cell and a length cell, and its data. Two cells stand for the four bytes of a
header, so the model keeps that a header can be torn in the middle, and what a
stale cell means when it is taken for a header. `pc` names the `eeprom_read` or
`eeprom_write` the code is about to make; `off`, `len`, `prev` are the walk's
variables (`offset`, `len`, and `last_offset`, `last_keytmp`, `last_len` of
`del_item`). `Pending` is the write the code is about to make; `WriteDone` and
`WriteFails` are its outcomes. `PowerLoss` leaves any prefix of the pending cells, at the places a
constant names. A write that runs past the end wraps,
as in the device. `add_item` first deletes the key (`Enter`, `DelWalk`, `DelNext`,
`DelSave`, `DelReturn`), then looks for space (`AddSearch`), and either fits, splits or appends.
`heads` is a history variable: the offsets of the items the code's writes have
chained so far.

Bounds: 13 cells hold the magic, an end item and up to four items, enough for a
split, a merge on both sides, and an append into the last free cells. Two keys are the two that `clear`
copies; values of one and two cells make items that fit exactly, leave room for
a header, or leave too little.

### Flash and BurnFlash

The flash is a function from halfwords (the unit of a program command) to sets
of bits; erasing sets bits, programming clears them. Addresses, too, count
halfwords and wrap at `Space`, as `unsigned long` does, for the flash ends at the top of the
address space. `op` is the driver call in progress: the sector loop of
`flash_erase`, or the words left to `write_buff`. `EraseSector`, `NotErased` and
`Program` are its steps; with `Failures` the chip may time out at each.
`flash_sect_erase` and `flash_write` belong to U-Boot and are modelled from how
`burn_flash` uses them (`CallErase`, `CallWrite`).

An image is a header (`start`, `erase`), its data, and `fault`, the
error number of the first check it fails; CRCs are modelled as equality. `pc` follows
`burn_flash`; `BurnWithLoader` and `RefuseLoader` are the decision about the boot
loader, `DoFlash` and `WriteBody` the part from the label `do_flash` on,
`TerminateWithErr` and `Terminate` the labels at its end. `shown` is the message
the user sees. `PowerLoss` may tear the command in progress, forgets all memory, and the
box starts again only if the boot area holds one of `Loaders`. `risk` is a
history variable that says why the boot area may hold no loader.

Bounds: three sectors of two cells, the loader in the last two, cells of two bits
(D7, which the driver polls, and another one). The chip protects no sector, the whole loader, or
its last sector only: `flash.c` takes the protection of each sector from the chip, and the loader of a relook, 192 kB
from `TEXT_BASE` 0xfffd0000 on, has several. The images: one for the whole flash,
one that ends within a word, one without a loader, a broken one, and five whose
headers contradict the flash or the data (start inside a word, more data than
erased space, an end beyond the last address, less data than a loader, nothing).
A torn erase leaves each cell empty or erased.

### SerialLink

`r` is the receiving box (`serial_main`, `do_serial_download`), `s` the sending
one (`serial_set2set`), each a record of its place, its baud rate, the time its
`dg_getc` still waits, and its loop counters. `toR` and `toS` are what the two
UARTs hold. A message is what one side sends before it waits again: a byte, a header
or a block, with its CRC modelled as `Spoilt` data. A header and the number of a block
are not covered by a CRC, so the line may change them (`Broken`). Bytes sent
at a rate the other side does not use arrive as junk or not at all (`Arrived`).

Each action is a byte read, or the time passed without one, and everything the code
does before it waits again: `GetBR`, `GetRate`, `GetReady`, `GetFunction`,
`ReceiveHeader`, `ReceiveBody`, `Burn` on the receiver, `WaitBR` to `SendBody`
on the sender. `Tick` lets 100 ms pass when both boxes wait: a box is much faster
than its waits, so what it can do it does before time passes. The exception is
`Burn`, which takes as long as it takes. Both boxes start from a menu; there a
user presses OK, selects a partition, or quits. `sent` and `clean` are history variables.

Bounds: numbers modulo 3 and an image of four blocks, so that a number comes
back, as numbers modulo 10 do in the code. The code's retries are as many as
its modulus, and so are the model's. `Depth`, the messages a UART keeps
unread, is the UART's and not the code's. Two faults are the fewest that get a
wrong image accepted. A header without the right identity stands for all of them, and a
size may be negative, nothing, or one more than the longest image.

Not modelled: the PC as sender, compressed images (`do_serial_download`
decompresses between the last block and the burn), and the upload to a PC.

### UsbD12

`chip` is the PDIUSBD12 as the code uses it: a packet of each direction of the
control endpoint, two buffers of the bulk endpoint (`fifo`), and the interrupt
register. `isr` is the interrupts the running handler has read and not yet come to.
`ctl` is `ControlData` with `setup_packet` and `control_state`; `main` is the
place of the main loop and the request it handles; `upg` is the upgrade buffer with
`upg_buffer_status`, `upg_buffer_errorno`, `upg_buffer_len` and `file_header`.
`host` and `chip` are external: a host that makes requests one after the other, as
USB demands, gives some up (`Abort`, with or without a reset of the bus), and whose
application downloads files.

`Interrupt` is the entry of `fn_usb_isr`; `TxDone`, `RxSetup`, `RxData` and
`MainRxDone` are its functions, one step each, so that the host acts in between.
`Loop` takes `setup_packet`; the `Handle...` actions are the functions `control_handler`
calls, each up to the first place where interrupts can change what follows:
`HandleHeader` and `ResetLen` are the two assignments of `set_file_down_header`,
`HandleEnd` and `CheckSize` the two of `download_completed`, `FirstPacket`, `CountPacket` and
`SetState` the three moments of `code_transmit`. The chip's interrupt is level
sensitive, so the main loop makes no step while one is pending (`Undisturbed`). The
burn is what a host sees of `BurnFlash`: it fails at any point, or erases and writes.
A burn that rewrites the loader, too, goes through these two statuses twice, in the same order.
`seen` is a history variable.

Bounds: a control packet holds two units of eight bytes, so that the descriptors
take two, three and one packets as in the code, and one ends with a full packet. A
header takes two packets instead of 17. There are two hosts. `Enumerates` makes every
kind of request but a download's, device descriptors also shortened to one packet and less, and
gives one transfer up. `Downloads` has one file that fills the buffer of two packets and one with a
packet more; the other kinds of requests would repeat what the first host shows. `LenBound` caps
`upg_buffer_len`, beyond the size of every file and of the buffer.

Not modelled: suspend, the debug keys, the percentage in the flash status,
`usb_current_block_size` (it is only printed), and requests on the bulk-in and the
first endpoint, which the code drops.

### UsbNet2270

Unlike with the other chip, `net2270_interrupt` carries out every request that brings no
data (`SetupWithoutData`), the end of a download among them; those with data it lets in
(`SetupWithData`, `ReadFirst`, `Ep0Received`) and leaves to the main loop (`Handle`), which
waits for a block inside the request (`MainReads`; the handler does so in `IsrReads`) and burns.
`read_fifo` and `send_fifo` end by enabling interrupts, in the handler too, and their caller counts what was read after
that: `CountFirst`, `Ep0Counts` and `MainCounts` are steps of their own, with `ctl.outer` the `Ep0_Handler`s that
a handler interrupted before they counted, `upg.new` the packets behind `upg_buffer_len` that the main loop has
not counted, and `Laid` the buffer when the handler reads then. After `send_fifo` nothing can come: the SETUP that follows waits for the
status phase, and the handler has switched the endpoint's other interrupts off. A header for a file
larger than `Room` packets is kept and refused (`TooBig`, `HeaderTaken`). A request without data that the main loop gets
after all, because an `Ep0_Handler` counts late, is carried out a second time (`Handle`).
`isr` and `main` are the places of the two; the host and the chip are external, and
the host's next request may come before the main loop has taken the last one, since the
status phase ends with the handler. `seen` says what was out of order: a download or block was given up (`abandoned`), a
request came before the last one was handled or its burn begun (`overtaken`), a block was announced, or the
download ended, while packets were still in the chip (`ahead`, `early`), the handler
read a packet before it had come (`late`), or a file was refused (`refused`); `file` is the one whose end was asked for last.

Bounds: three files, of one block, of two, and one packet more than the buffer's three; five requests are a download of the middle one with
another in between, or one of the smallest and the beginning of the next. A size read from a file name is
one value that no block has.

### FrontKeys and BootMenu

`line` holds the bytes the panel sent, `pack` what `front_getkey` has put together of a
packet, `high` the half of a front key. The panel repeats a key while it is `held` and then sends
its release; the UART may lose a byte. `BootMenu` uses `GetKey`: `MenuKey`, `MenuTimeout` and
`SerialBreak` are the turns of `dgs_bootmenu`, with its history of keys (`presskey`) and its timeout; the selection menus and
`front_waitkey` wait for the release of a key (`oldkey`). Time is counted in the panel's periods.

Bounds: nine keys, so that two front keys share a byte, two keys of one remote control share
a code (relook300s), and the patterns of the table overlap; three remembered keys instead
of 60, fewer than the longest pattern, to which the code cuts it; five packets;
one byte lost. The second and third panel run with `front_waitkey` only, as the menus see nothing of the
difference.

### Isp116x and RootHub

A message has a setup, data and status stage, each cut into jobs, each job into packets:
`Ptd` is the packet in the FIFO,
`PacketResults` what the chip may say of it, and `NextPacket`, `RetryJob`, `JobFails` and `JobReturns`
what `isp116x_submit_job` makes of that. The device follows the
toggle rules, and may stall, not answer, lose an acknowledgement, or answer less. `moved`
pairs each unit of the device's stream with its place in the buffer. `OtherInterrupt` and
`NotDone` are interrupts of other kinds and packets that never end, `LowlevelInit` and `LowlevelStop` what the core does then. `RootHub` has the bits of the port registers,
which mean one thing when read and another when written; `asked` is what ports would be if
every request of the core did what the USB specification says of it.

Bounds: packets of two units, jobs of two packets, messages of none and of five units, so that
there are short, full and several jobs; one retry. Two ports and two events.

### IntelFlash and FlashInit

The chip works at one command at a time (`wsm`), reads as its status meanwhile, and may fail
or be late; the driver polls it. Unlocking one sector unlocks all, so the dreambox's
`flash_real_protect` locks the others again, one by one (`Relock`). The dbox2 may have an AMD chip
instead: it is given all sectors to erase in one command (`EraseAll`), its driver polls the data and no
error bit, is never told what to protect (`NoteProtect`), and does not reset it after a timeout, so that the next
command may be lost (`Takes`). `ReadLocks` is `flinfo`, which reads the locks of the dbox2 again; the header of
that board is not in the repository, and the models suppose that it turns `CONFIG_SYS_FLASH_PROTECTION` on.
`FlashInit` asks a chip for its codes
and builds `flash_info`: from a list of codes on the ipbox (`IpboxChips`), a look-up by device code on the dbox2, the
chip's CFI on the dreambox (`StrataTable`). The board's header says which chips are configured, and the chips fitted are those, those with the boot sectors
at the other end, and ones nobody configured.

Bounds: three sectors of two bytes, words of two bytes, one fault, so that a write has an
unaligned head and tail and a call follows one that was cut short. `FlashInit` has the real numbers and sizes of sectors.

### Ide, IdeDevices, CpldIde, MmcCard

`Ide` is the loop over the blocks of a call; the drive beside it takes a command or ignores
it, and its answer may be late. `IdeDevices` is `ide_init` (`Reset`, `AskBus`), `ide_ident` (`Identify`), the commands and
`diskboot` (`BeginBoot`, `FindPart`, `ReadHeader`, `ReadImage`), whose disks may be exchanged between two commands. `CpldIde` is the adapter, whose
accesses to the drive are steps between the processor's polls of its FIFO. In `MmcCard` every
block of a range is a step: the first and last go through a buffer when the range does not
fill them; `at` is where each byte came from. A card may refuse any block, be it in or not, and one that is to be read is then
waited for without an end (`Hangs`): a writing stops so only at a block its range shares with others (`AtEdge`).

Bounds: a disk of six blocks of which 28 bits reach four, and calls of three, so that a
call may cross the limit; two faults. Two devices and three disks, one without a table,
with images of one, two and more blocks and sizes that are larger than the disk or wrap.
A sector of six words and a FIFO of four, as in the code. Cards of two and
three blocks of three bytes, so that a range has a head, a whole block and a tail.

### Squashfs

Each action reads one block and does what the code does with it: superblock, inode table, directory
listing, fragment table, fragment, data. Any block may be damaged, so that it does not uncompress. A node is at a
place of a table's block and may go on in the next. Two file systems: `WellMade`, where inodes, listings and
fragments go over the ends of blocks where they may, and `Awkward`, where they do where the
code cannot follow, and where one name begins another. One block is damaged.


### StandardRequests

Each request is one action, from its SETUP to the answer: what its handler leaves in the
flags, in the descriptors and in the controller (`usb`), and what the PC is told (`last`). `pc` is
what the PC was told, and `pc.sure` which of it no reset has put in doubt. The PDIUSBD12 dispatches by a
table (`Serves`), the NET2270 by direction first (`NetServes`), and in each handler.
`BusReset` clears what the controllers clear by themselves, addresses and halts, and leaves the
flags; `fast` is the speed found then. `Reconnect` is the key that leaves the bus.

Bounds: one bulk endpoint, two lengths of a descriptor, the values a request knows and
one that it does not.

### FrontText

`out` is the bytes sent and not yet taken, `micom` the panel's controller, which is external and takes
a packet only with its right length and sum; `said` is what was written last. Each panel's
`front_puts` and `front_persent` are the packets they send, its fonts functions from
characters to segments, written out as the code's tables have them. `Readings` is what a reader takes the
segments for.

Bounds: every character is shown, four at a time, and texts that are empty, shorter and longer
than each panel.

### LcdConsole

`ddram` is the display's memory, a page of eight lines being a row of cells; `con` is the cursor. `term` is what an
ideal terminal would show, and `term.same` whether it is still to be compared. A character
of the 16 lines high font is its two halves (`Cell`). The terminal's step back leaves a space; the code passes the character
`' '` for a pointer and draws what lies at address 32 (`Junk`), so `ShowsText` does not compare a cell that was erased so (`Erased`).

Bounds: four pages of three columns, so that six characters scroll the console; both
fonts, over the whole display and with consoles of one row and two below a logo.

### MpgStill

The source emits a start code with its fields or a macroblock at a time, as the standard has it or
damaged. `Macroblock` draws one at `PlaceOf` its number; `wild` says that something was written outside the screen
or behind a block. Nothing clamps a chrominance sample before its colour is looked up, so a source is well made here only if each
stays within nine bits (`NineBits`); what is beyond gets no colour of the tables, or another. The tables of codes are intervals with their sizes (`Tables`), and the
colour tables have their places in the array they share (`Overwritten`).

Bounds: a screen of two by two macroblocks and pictures smaller, as large, larger in either direction and
empty; blocks whose runs end at, before and behind their last place; samples within nine bits, in the part of a colour table the next
one overwrote, and behind the tables.

### StartImage

`HwInit`, `Draw` and `ChangeSize` are the parts of `video_hw_init`; `Checks` and `Unpacked` decide
what reaches the OSD, `ToYCbCr` converts a colour with the code's roundings. `Exec...`,
`Reissue` and `Show` are the steps of `mepg_exec_cmd` between its waits, with a
decoder that takes a command late or never; `decoder.log` is what it executed.

Bounds: images that fit and do not fit their buffers, with wrong sums and types, with and without
microcode of their own; five values of each colour.

### BoardStart

`start.S` calls the routines of `init.S` in any order, each of which writes its registers one after
another: banks (`WriteBank`), memory (`SdramWrite`), pins (`GpioStore`), the interrupts' edges (`ChipControl`);
then `MiscInit`, `InitDram`, `IdePreinit` and what the drivers do to pins later (`DrivePin`). The values are the
files' own.  Every board and configuration is checked; nothing is reduced.

## Runs

| run | question | result |
|---|---|---|
| `eeprom_store` | any sequence of operations, power lost where it does no harm | `Readable`, `NoDuplicates`, `Coalesced`, `NoSpuriousFailure`, the refinement `ImplementsKeyStore` hold |
| `eeprom_errors` | reads and writes that fail anywhere, on a small device | `Terminates` holds |
| `eeprom_full` | adds without regard to the room | `AddStores` is violated |
| `burn` | any sequence of images, chip timeouts, protected loader, power lost anywhere | `Bootable`, `NoSilentLoss`, `CompletedStored`, `NoSpuriousError`, `OnlyTarget` hold; unwarned losses are those of a chip that failed unseen or protects a part, and of improper images |
| `burn_on_top` | is data reported written in the flash | `WordIsWritten` is violated |
| `serial_link` | two faults of line or boxes at any moment, any behaviour of the users, under fairness | `BurntIsSent`, `BlockInPlace`, `CleanSessionArrives`, `BothReturn` hold |
| `serial_success` | does "successed." mean that every block was sent | `SuccessMeansSent` is violated |
| `usb` | all requests, one given up, bus resets; downloads of a file that fits and one that does not, ended early, begun again, polled | `HandledOnce`, `AnswerBelongs`, `WholeFile`, `ToldTruth`, `RequestAnswered`, `BulkTaken` hold |
| `usb_descriptor` | is the upgrade buffer free when a descriptor is built in it | `BufferFree` is violated |
| `box` | fourteen parts of `MCBox`, one per behaviour, with what each loses, refuses, delays or repeats | `Delivered`, `HubAsAsked`, `KeysSent`, `MenuRecognises`, `PressCountsOnce`, `WholeFile`, `IsrDoesNotWait`, `CountedIsDone`, `SectorWhole`, `BootsNamed`, `RangeIsMoved`, `AsStandard`, `ShowsWhatIsMeant`, `DecodesAll` hold |
| `box_rom` | the three parts that are about what is in flash | `OkIsDone`, `TableIsReal`, `LoadsNamed` hold |
| `usb_host_retry` | does a retried packet move the data it was given | `RetryMovesNothing` is violated |

`eeprom_store` and `box` also check type invariants; each module has one.
Deadlock is not checked: the firmware stops at an undefined memory access, the
box may be dead, and `MindRoom` may leave no operation that fits. The serial
runs could check it, but a user can always press a key. `PowerKey` ends the USB upgrade. In
`box` a menu ends with a command, a card or the CPLD may be waited for without end, and
what devices and hosts do is bounded.

### What the runs show

The database. Power lost at the places in `SafePlaces` of `MCEepromDb` costs at
most the operation in progress. Lost at the others it may break the chain: between
the header of a split item and the header of its rest (`splitHead`, `splitRest`),
between the header of an appended item and the new end item (`appHead`,
`appEnd`, `appUndo`), and in the image of `clear`. Between the image and the two adds of
`clear` (and while those adds run) the two kept values are lost. In the initialisation (`initMagic`, `initEnd`) the
device may have an end item and no magic; `eeprom_add`, which does not look at
the magic, then uses it. `MindRoom` makes callers add only what fits:
without it, `eeprom_full` shows that `add_item` reports success for an item that
no search reaches.

The burn. Outside the window that opens with "DO NOT TURN OFF THE POWER" the
box always starts; inside it an error is announced with "The STB may not boot".
Three exceptions are visible as the hypotheses of the properties:
a chip whose erase times out (`failed`), because `flash_erase` ignores it;
a protected last sector (`protected`), which is neither erased nor found by
`flash_write` (when it is only a part of the loader, `PartlyProtected`, the burn reports success and leaves
the first sectors of the new loader before the last of the old one); and images that contradict themselves (`Fit`), which only the
CRCs guard against. `CompletedStored` excludes the first `SkipLen` cells of a
loader: `burn_flash` compares loaders from the 64th byte on and skips the rewrite when they
agree.

The serial line. One fault never makes the receiver burn something else than the
image announced. Two may: the size in the header has no CRC, and a size that breaks to
fewer blocks is noticed only because the sender does not mark the last of them with
0xee; if that number breaks too, a prefix is burnt. A size broken to nothing makes
`do_serial_download` burn, without a block received, what the upgrade buffer held; the
header's checks in `burn_flash` then decide. Blocks are told apart by their number modulo 10
only, and the sender may run ahead of a receiver that repeats, yet no block
lands in another's place (`BlockInPlace`), because the receiver never asks
twice for a block: it gives up. `CleanSessionArrives` shows that
the two boxes' timeouts fit when the receiver calls a waiting sender; without
that hypothesis they need not: the sender does not drain its UART, and a call
left there makes it begin alone.

The USB upgrade. A request is handled once and answered with its own answer, though
the handler overwrites `ControlData` at once. The exceptions are
visible in the properties. `raced`: `code_transmit` fills the endpoint before it
has set `control_state`, and a control interrupt in between may end the transfer after
one packet. The race lasts until the box is at rest (`AtRest`: no interrupt of the endpoint pending and no
answer on its way), so it may reach the requests that follow: a piece of the descriptor overwrites the status asked
for next, or a header is taken for complete before it is. `clear`: `clear_feature` returns
without an answer, and the host waits until it gives up. `clobbered`: see
`BufferFree`. `refused`: `vendor_req` acknowledges a header that `set_file_down_header`
refuses. The host then sends the file; without a download in progress its packets
stay in the chip and are the first ones of the next download (`ignored`); with
one they are stored with its packets, and `file_header` is already the
refused one. A download whose length is wrong is dropped with `upg_buffer_errorno`
0, so that a host that ends one early is told that the box is idle.
`ToldTruth` is about hosts that send the whole file.

The NET2270. A host that sends whole downloads of files that fit the buffer, one request after the other, has each of
them burnt, though the status phase ends before the main loop looks. What the property has
to except is what the code does not guard: a second SETUP overwrites `ControlData` and
`dataBuffer` of one not yet handled; an end that comes before the last packets have
been read drops the download, and the packets go to the next one; a header right after
the end cancels the burn; a packet read too early makes the main loop work on old data. A file that does not fit is refused, the host is not
told, and the packets it sends stay in the chip or go behind those of the download in progress (`refused`); the file
announced before is not burnt under the name of the refused one, which the first clause holds also then.
The handler waits for packets ("why???", `vendor.c:87`) only when a download was broken off, a request overtook another, or a
packet was read too early, and in one case more: when it interrupts the main loop between a reading and its count,
`usb_current_block_size` still counts the packets that were read, and it waits for them again.

The front keys. The panel's keys are never made up, doubled or reordered; a lost byte costs
its key and at most the one after it. The exceptions are named: `front_key` begins as 0, so that
before the first front key of a 13_grid a lone low byte passes for a release; and the
relook300s's remote control has one code for four keys and a packet of release that is
none. The menu executes what was typed as soon as it is typed, and the first of the table
when two match. A press counts once.

The USB host. A message that succeeds has moved every byte once, whatever was refused, lost
or retried, and toggles stay right across messages, failures and cleared halts. It
does not if a retry begins after the first packet of a job (`usb_host_retry`). The root
hub loses no change and acknowledges none unasked but for an over-current change, where the code
writes a bit that resumes the port; and when `usb_lowlevel_init` could not reset the chip, the hub keeps
its old address.

The flash of the dreambox and the dbox2. A call that met the chip at rest and returns 0 has done what it says, and
`info->protect` agrees with the chip, unless an error was passed over: the dbox2's driver looks
at none, the dreambox's not at those of relocking. A call that follows one cut short by a timeout may do nothing
and return 0. On an AMD chip, a call that met `info->protect` as the chip has it is right too. The tables of `flash_init` are right for every chip the code asks for; not
asked for are all chips the relook300s configures, and on trust are
widths on the dbox2 and second CFI regions on the dreambox (`NotAskedFor`, `OnTrust`).

IDE. The blocks counted were moved, from where they were asked for, with three exceptions: a drive
still at an earlier command, a call that begins below 2^28 and goes on behind it, and the error of the
data just written, which nobody reads. The adapter gives each word of a sector once and in order,
although it fills its FIFO while the code decides when to stop it; after a byte whose access
timed out this is lost. `diskboot` loads the image named, to its last byte, from the disk that is in the place named,
unless the first device's partition begins elsewhere, for that is the table it reads.

The memory card. A range that returns 0 was moved, and no byte outside it touched; ranges that begin and
end within one block are the exception: the rest of the block goes with them. The code waits for ever for a card that was
pulled out.

The file system. With one damaged block nothing else than the file named is loaded in full,
and `ls` prints what was named; what is loaded short is still reported as loaded. Exceptions:
an entry that is the beginning of the name sought is taken for it; a tail in an
uncompressed fragment is read from the fragment's first byte; directories that go on in the next block.

The standard requests. The configuration, wakeup, address and halts the PC was told of are the box's, and a
request is refused when the standard says so, with the exceptions that the code has: after a
bus reset configuration, wakeup and packet size are those of before, until the PC sets them; the
PDIUSBD12 answers `clear_feature` not at all, the NET2270 class requests neither with data nor with a
refusal, and it says of every endpoint that it is halted, while `set_feature` only makes it NAK.

What is shown. The panel reads as what was written, but for letters seven segments cannot show, for
Y and Z of one font, and for what stands behind a text shorter than the panel. The LCD shows what was
printed; a tab from an odd half of a row and a step back over the start of a row go elsewhere, and a logo of several
rows is scrolled away with the larger font. The still picture is drawn inside the screen if it fits, whatever is damaged.
The start image is shown whole or not at all, but for data that do not unpack, which leave the
screen as it was. A command reported done was executed, in order, but for one still pending.

The boards. Banks do not overlap, what the drivers address is decoded by one bank, memory reported is enabled, and pins are
the drivers' own, but for the card select of the relook210, whose pin is set up as USBACK, and the reset of the Ethernet of the relook400s, which nothing
had asserted.

### Disagreements between code and comments

With a run: `eeprom_full`, `burn_on_top`, `serial_success`, `usb_descriptor`,
`usb_host_retry` (see `findings`).

Without one, seen while modelling:

- Database. `edb toenv` exports an uninitialised buffer for an item without data
  (`eeprom_db.c:413`), and the message in line 433 is unreachable; `edb clear` makes empty
  `ethaddr` and `prodnum` items where there were none, and the next `edb clear` copies 255
  bytes of them into arrays of 20 (line 228; the model stops, `pc = "undefined"`); `add_item`
  goes on when `del_item` fails, and stores a key twice (line 316); `edb del end` and
  `edb add end` remove the end item (line 456).
- Burning. `burn_flash` returns 3 for an insisted image it reports completed
  (`upgrade.c:168`, against the comment in line 22); `dgsupdate` of a compressed file works
  once (line 368); `boot_try_fail` counts refusals of different images together (line
  169); `upg_buffer_errorno` survives a later successful burn; `netBoot.c:97` ignores the result of the burn.
- Serial. `ret` keeps the failure of an earlier download (`serial_upgrade.c:541`).
- USB upgrade. `vendor_req` prints that a download is not accepted and acknowledges it
  (`vendor.c:149`), and answers the firmware version with the string "x01" where the other chip's
  branch sends the byte 1 (line 99). On a NET2270 the functions for the FIFOs enable interrupts inside the
  handler and before what was read is counted (`net2270.c:160`; `mainloop.c:765`, 873, 960), `read_main_data` calls itself without bound (`net2270/mainloop.c:965`), and
  the status phase may be released before the request is carried out (line 781).
- USB host. A short packet that ends a full job is not seen as the end of the
  data (`isp116x-hcd.c:736`); the number of ports is read from the wrong register, so a device that is gone is not
  noticed there (line 385); an unrecoverable error leaves the controller disabled (line 570); the
  FIFO stays full after a change of the root hub or a timeout (lines 646, 728); a port's reset waits without bound (line 953).
- IDE. `do_ide` uses `curr_device` when it is -1 (`cmd_ide.c:325`); `ide device` takes
  numbers that are negative as an int (line 262), and `diskboot` does not compare its number with
  the number of devices (line 407); the size of an image is not compared with its partition
  and wraps near 2^32 (line 463); a bus that times out ends `ide_init` with old partition data
  (line 643). On the dbox2 `output_data` is empty, so `ide write` counts blocks that never reach the drive, and
  `ide_preinit` fails at every call after one that worked.
- Memory card. `max_errors` is counted and never looked at (`mmc.c:179`), and the answer to a command is not either (lines 320, 351), so that
  the box waits for ever for a block that a card, though it is in, refuses; `mmc_bread` returns the number asked for
  whatever happened.
- File system. A refused data block counts 0 and the following ones are read from the
  wrong place, with "load complete" (`squashfs.c:518`); the result of reading the fragment table is ignored
  (line 230); `do_fs_ls` and `do_fs_fsinfo` return 1 for success; a partition's
  number is compared with 4 where there are 4, and not with 0.
- Flash. The dbox2's AMD branch waits for the last sector only (`board/dbox2/flash.c:593`), so
  that a sector before it which the chip protects and `info->protect` does not name is reported erased; `flash_real_protect` notes
  a protection the chip is not told of (line 477); after a timeout that chip is not reset (lines 600, 751); a
  chip that is not recognised is left showing its codes; `strataflash.c:598` lets one region too many
  through, and `i > NUM_ERASE_REGIONS` and line 603 read the first region for every one; the buffered
  write (line 325), which nothing turns on, drops the last byte of an odd length.
- Standard requests. `clear_feature` begins with "return; // by parkhw00 for debug." (`pdiusbd12/chap_9.c:157`); neither device
  clears a halt when it is configured anew.
- Displays. `Char2seg` of `front_dev_7seg.c` has X twice (line 130), and `front_puts` reads behind short texts
  (line 297); that of the relook300s has its checksum written one byte behind its packet (`relook300s/front_dev.c:110`).
- LCD. `console_back` passes `' '` for a pointer (`board/dbox2/lcd.c:437`): a step back shows the character at address 32.
- Still picture. `decodestillmpg` looks up colours of samples it has not clamped (`board/dbox2/mpgstill.c:551`).
- Boards. `checkboard` tests `mid < 1 && mid > 3` (`board/dbox2/dbox2.c`), which never holds.

## Fairness

`FairSpec` of `EepromDb` assumes that the firmware, while it executes an operation,
goes on (weak fairness of its steps): it is the only thread and polls. Nothing
is assumed about the users, the power or the device. `BurnFlash` has safety
properties only. `FairSpec` of `SerialLink` assumes that each box goes on while it is in a
command, and that time passes when both wait; `burn_flash` is taken to end. Nothing is
assumed about the line or the users. `FairSpec` of `UsbD12` assumes that an
interrupt is served, that the main loop goes on (strongly: interrupts come again
and again, and between them the processor runs it), and that the host continues a
transfer it has begun and sends the packets of a block. `MCBox` has safety properties
only: its parts wait for devices that need not answer, and where a wait has no bound a
property says when (`IsrDoesNotWait`, `RangeIsMoved`, `SectorWhole`).

## Proofs

Each theorem holds for every value of the constants that the module's assumption allows, and for
behaviours of any length; the runs check the same properties on their instances. Where a theorem needs more than the assumption, its hypothesis is named.

**The database.** `EepromDbProofs!TypeCorrect`: `TypeOK`, from the constants' assumptions
alone, with every device error and loss of power. `TypeOK` is not inductive:
whether `off + HeadSize + Len(data)` lies where a write can wrap to depends on
how the walk came there. `TypeInv` adds `CmdInv` (which registers an
operation has set) and `SizeInv` (bounds on `off`, `len`, `prev` by the place).

`ChainReadable`: `Readable` under `Safe`, which says that no
write fails, callers mind the room, and power is not lost in `Windows`; read errors are
allowed. `ChainInv` says that `heads` is a chain from the
magic to an end item, each item's header pointing at the next (`Chained`); that the walk stands on a member
of it, with what it merged (`WalkInv`, `OffInv`, `Behind`); that cells an item's data is
written into belong to no header (`Unused`); and that the room a caller minded
is still there when the item is appended (`RoomInv`). `ChainMerge`, `ChainInsert`,
`ChainSame` and `ChainOfOne` say how a chain changes when a header is written.

`KeysOnce`, `FreeInOnePiece`, `FailsForAReason` and the refinement `IsKeyStore` are proved under
`Quiet`: `Safe`, and no read fails, and power is not lost in the initialisation or before the deletion is written.
`NoDuplicates` and `Coalesced` follow from `PlainInv`: the chain, `KeyInv` (the key an operation adds is in no item
behind the walk, and in none at all once `del_item` has returned) and `MergeInv` (what `prev` holds is the header of the item before).
The refinement needs `RestInv`: `MagicInv`, `DataInv` (data are in place before their header is), `ClearInv`
(`kept` is what the walk has passed, and after the image what is back), `AnswerInv` (what an operation may return). `StoredChange`,
`ItemStored` and `DelStored` say what the map of `KeyStore` becomes when a header is written; every step then
changes the map as `KeyStore` does (`Answered`, `Loses`) or not at all (`Going`).
Induction along the chain is by the least counterexample (`WalkChain`).

**The burn.** `BurnFlashProofs` has `TypeCorrect`, `StaysBootable`, `LossIsTold`, `CompletedIsStored`, `ErrorIsReal`,
`OnlyTargetTouched`, for every layout of sectors, set of images, of loaders and of protected sectors, timeouts of the chip, and losses of
power. The properties say what was reported; the invariant says how far the driver is. `EraseInv`: the sectors before the one
in work are erased; `WriteInv`: the cells before the word in work hold the image's data, those behind it are still erased;
`BurnInv` names the range each place of `burn_flash` works at, and that the loader's is done when the body's begins;
`RiskInv` which places may leave the loader incomplete. `LossIsTold` names what `burn_flash` reports as completed
although the loader is half replaced: `write_word` and the erase loop do not look at their timeouts, the driver skips protected
sectors, and an image that contradicts itself is burnt as it is. `EraseInv` has to speak of each sector that is not protected, and not of
ranges without a protected sector: a range may be longer than the data and end in a protected one.

**The USB upgrade.** `UsbD12Proofs` has `TypeCorrect`, `RequestsHandledOnce`, `BurnsWholeFile`, `ToldTheTruth`, `AnswersBelong`,
for every set of files, size of buffer and block, and hosts. Each rests on the ones before.
`RequestInv`, while nothing was given up: a request is in the chip (`SetupInv`), in
`ControlData` (`TakenInv`) or with the main loop (`HandledInv`), each with the values
of `control_state`, `setup_packet` and the interrupts that go with it. `FileInv`, while no file was refused: where the
packets of the file are, in `upg_buffer` (`ContentsInv`), in the chip or with the host (`CountInv`), and that none is
left in the chip when a download begins or ends (`FifoInv`, `HeaderInv`). `TruthInv`: from the host's end of download on, the file is on its
way to `burn_flash`, or burnt, or an error is waiting to be told (`DueInv`), and the handler overwrites no answer that the host has yet to
read (`LastInv`). `AnswerInv`, while no interrupt came into `code_transmit`: either the main loop or the handler
writes to the endpoint (`AloneInv`), each with the count the host has reached
(`FirstInv`, `TransmitInv`, `ReceiveInv`). Its proof showed that the race outlasts its request, which is why `raced` stays until `AtRest`.

**The USB upgrade of the NET2270.** `UsbNet2270Proofs!NetDoesAsPromised`: `WholeFile` and `IsrDoesNotWait`, for every set of files, sizes of files, blocks and the buffer, and
number of requests. The hypothesis `NetSizes` is about constants: a file and a block have a packet, and no file is the value for none. The promise fails when requests come out of order,
each time in another way, so `NetInv` has a part for each set of conditions of `seen` under which it holds.
`NetBase` needs none: where the host, its request and the handler may be. `KeptInv`, while no packet was left behind or read early, is about what is burnt: the end of what was
taken (`Taken`: the buffer and the chip) is what the host sent since its header (`TakenFollows`), so that a buffer with the length of the file holds the file (`WholeInBuf`). Requests may overtake each
other all the same, and the proof found the two states in which the header in memory is not the host's: old packets
lie in the chip and nothing takes them out before the next block (`Held`), or a header is read and
not yet counted (the last line of `HeaderFollows`). A handler that waits between a reading and its count never ends, so nothing is
promised of the buffer then. `CalmInv`, while requests come one after the other, counts downloads: each that ended is burnt or about to be (`EndsCount`), because what was sent
is in the buffer or the chip (`AllTaken`) and the main loop is there to read it (`BlockIsRead`). `PunctualInv`: what is left of a block is in the chip, still to be sent, or not yet counted.

**The root hub, the card, and the box.** `BoxProofs!HubDoesAsAsked`, for every number of ports: `HubAsAsked`, with `ResetInv` and `WaitInv` about the request in
work. `CardMovesRanges`, for every size of block, card and range: `RangeIsMoved`, with `CardPlaceInv`, `CardCurInv` and `CardAtInv` about how far the range is moved and which bytes come
from which place, and `CardHungInv` about the block a writing waits for. `BurnsWhatIsAnnounced` and `HandlerWaitsWithReason` carry the NET2270's theorem to `MCBox`: the box, which runs one part at a time, does
nothing else with its variables. The theorems that follow are about the parts as they are in `MCBox` and `MCRom`.

**The USB devices and the USB host.** `BoxProofs!AnswersAsStandard`: `AsStandard`, for any endpoints and lengths asked. `ReqInv` is `DeviceTyped`, `SizesAgree` (the
packet size the PC read is the one the box keeps and that of the bus), `BoxIsAsTold` (each flag of the box with what the PC was told of it, while `pc.sure` holds) and `AnsweredRightly`.
`DeliversMessages`: `Delivered`, for any sizes of packets, jobs and messages. The property is about messages that have ended. `HostInv` adds `JobOfMessage` (a job is the part of its message
that is left), `OutInStep` (the toggles of the OUT pipe agree while messages go well) and `MovedSoFar` (what is done is in its place, or, of a
message in, nothing more is taken in: the device sent a short packet, or the toggles differ).

**The flash of the dreambox and the dbox2.** `FlashProofs!OkMeansDone`: `OkIsDone`, for any number and size of sectors, widths of the port, and number of faults.
`FlashInv` is `FlashTyped`, `CallInRange` (a call is within the chip, and its place within what it was asked for), `ChipFollows` (between the commands of a call that
nothing disturbed the chip is at rest and the driver's table `info->protect` agrees with the locks of the chip) and `DoneSoFar` (what lies behind the place of the call is erased or
written). Relocking is the exception `ChipFollows` has to make: unlocking one sector unlocks all, and what is locked again are the protected sectors below the one in work.

**The LCD of the dbox2.** `LcdConsoleProofs!ConsoleShowsText`: `ShowsText`, with the exceptions it names, for any size of the display, width of a tab, font, logo and number of characters. `ConsoleInv` says cell by cell that
the display holds the terminal's text (`Shows`), that the two cursors agree (`CursorFollows`), how far a tab may take the cursor beyond a row (`InReach`), and that the logo's pages
stay (`LogoStays`). Most of the proof is about scrolling, where each half of a row has a page of its own (`PagesOfRows`) that takes what the row below showed.

**From the disk to memory.** `DiskProofs` has a theorem for each of its three levels.
`CountsWhatIsDone`: `CountedIsDone`, for any disk, reach of 28 bits and number of failures. `DriveFollows` says what the drive is at for each place of a call that found it at rest;
`ReadInOrder`, `ReadToTheEnd` and `WrittenInOrder` say of the blocks counted so far what the property says of all.
`ReadsSectorsWhole`: `SectorWhole`, for any sector and registers. `AccessIsUnderWay` says of the access to a register that it is under way or in the FIFO, and not twice. `SectorIsUnderWay`
adds the words taken, those in the FIFO and the count left up to the sector; that this count is a multiple of four is what
makes `input_data` stop the CPLD with exactly four words in the FIFO. `WordsInOrder` says that they follow each other from memory into the FIFO.
`BootsWhatIsNamed`: `BootsNamed`, for any disks, devices, sizes of blocks and of numbers. `CurrentIsOne` says that no device is known while none is current, also between two steps of `ide_ident`;
`BootFollows` that the partition is the first device's, and what memory holds of the image. `BehindIsEnough` is the arithmetic of the count of blocks, with its roundings and wraps.

What attempts at proofs corrected. `BootsNamed` promised the whole image for every size; an image whose last bytes, with the header, are behind the largest `unsigned long` is loaded with its
header only, so the length is now promised up to there (`ThreeDisks` has a size beyond). `DiskSizes` allowed two partitions that begin at one block and
disagree about the image there, which no disk can. `LcdSizes` allowed displays that the font does not divide: with three pages, the font of two and one row below a logo, the logo's
last page would be the first row's. `LCD_ROWS` is 64 and both fonts divide it, so this is now said. `LockSector` of `IntelFlash` chose between cases that overlapped.

Only model-checked, and why:

- `BurntIsSent`, `BlockInPlace` and `CleanSessionArrives` of `SerialLink`: the first holds for two faults at most, and counts of faults, numbers modulo the code's and the time left on two clocks
  would all have to be in its invariant.
- `MenuRecognises`, `KeysSent`, `PressCountsOnce`: they compare a sequence of keys with a table of patterns of any length, or with a sequence filtered by what was lost; both are inductions over sequences.
- `ShowsWhatIsMeant`, `DecodesAll`, `TableIsReal`: they say what tables of the code give for every character, code or chip, which TLC
  evaluates for all of them; nothing is left for other values of constants. Two parts of `ShowsWhatIsMeant` differ: the LCD's is proved (`ConsoleShowsText`), and the
  still picture's is about sums of differences along a sequence of macroblocks, an induction.
- `LoadsNamed`: what a path names is defined by recursion over the tree.
- All liveness (`Terminates`, `BothReturn`, `RequestAnswered`, `BulkTaken`), which is out of the prover's reach, like ENABLED.

## Not modelled

The map covers nearly a third of the lines of `src/`. What is left, and why:

- Pictures and most lines of the fonts (7000), and headers of registers and structures: no behaviour of their own.
- Video of the dbox2 (`avia.c`, `avs.c`, `fb.c`, `saa7126.c`): register settings and drawing, no state that a later command relies on.
- `netBoot.c`: a handler that copies fields of one packet, then `dgsupdate`, which is `BurnFlash`.
- The LZMA decoder: a third party's, taken in `Squashfs` as a function that fails on a damaged block.
- ATAPI in `cmd_ide.c`, and code within `#if 0` (a second `flash_get_size`): no configuration of this repository turns it on.
- `serial_sicc.c`, the start of dbox2 and dreambox: fixed sequences of register writes. In `BoardStart`: timings and caches.
- `mktree.c`: a conversion on the host.
- In `SerialLink`: compressed images and a PC as the sender. In `UsbD12` and `UsbNet2270`: suspend and standby.
  In `RootHub`: the descriptors and status answers.

External, and modelled from how the code uses them: the host of both USB devices, the controllers' own answers to a bus
reset, the UART, which takes a byte in the time the code allows it, the panels' controllers, the video decoder, disks, cards, flash chips and images.

No module with a theorem uses a RECURSIVE operator.
