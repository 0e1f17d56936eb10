----------------------------- MODULE IdeDevices -----------------------------
(***************************************************************************)
(* Which disk the commands of common/cmd_ide.c reach: ide_init and         *)
(* ide_ident, which look for disks behind one bus, `ide device', which     *)
(* makes one current, `ide read' and `ide write', which use it, and        *)
(* diskboot, which finds an image in a partition.  What ide_read and       *)
(* ide_write do with a block is in Ide; here they move all of what they    *)
(* are asked for, or less.  Disks are external and may be exchanged        *)
(* between two commands, their tables are read again by whoever needs one. *)
(***************************************************************************)
EXTENDS Integers, Sequences

CONSTANTS
  Devices,     \* CFG_IDE_MAXDEVICE
  Disks,       \* disks by name: blocks, and for each partition where it
               \* begins and the size its image claims, or nothing
  BlockSize,   \* blksz
  Header,      \* sizeof(image_header_t)
  Ulong        \* numbers an unsigned long holds

None == "none"

DiskSizes ==
  /\ Devices \in Nat \ {0} /\ BlockSize \in Nat \ {0} /\ Header \in 1..BlockSize
  /\ Ulong \in Nat /\ 2 < Ulong /\ BlockSize < Ulong
  /\ None \notin DOMAIN Disks
  /\ \A d \in DOMAIN Disks :
       /\ Disks[d].blocks \in 1..(Ulong - 1)
       /\ \A p \in DOMAIN Disks[d].parts :
            LET part == Disks[d].parts[p]
            IN /\ part.start \in 0..(Disks[d].blocks - 1) /\ part.size \in 0..(Ulong - 1)
               /\ \A q \in DOMAIN Disks[d].parts : Disks[d].parts[q].start = part.start =>
                                                     Disks[d].parts[q] = part

VARIABLES
  slot,          \* the disk in each place, or None
  ide_dev_desc,  \* what the driver knows of it
  curr_device,
  cmd,           \* the command: its arguments, place and result
  loaded,        \* <<disk, block>> of each block it put into memory
  wrote          \* disks it wrote to

vars == <<slot, ide_dev_desc, curr_device, cmd, loaded, wrote>>

Dev     == 0..(Devices - 1)
Unknown == [type |-> "unknown", parts |-> FALSE]
Partitions == UNION {DOMAIN Disks[d].parts : d \in DOMAIN Disks}

(* Numbers a user may type for a device: one behind the last, and one that, as *)
(* an int, is below 0.                                                         *)
Typed == (Dev \cup {Devices}) \cup {-1}

NoCmd == [kind |-> None, dev |-> -1, part |-> 0, at |-> None, bus |-> FALSE,
          i |-> 0, start |-> 0, cnt |-> 0, ret |-> 0]

(* Before anything else the start of the box calls ide_init. *)
Init ==
  /\ slot \in {s \in [Dev -> DOMAIN Disks \cup {None}] :
                \A d, e \in Dev : s[d] = s[e] => d = e \/ s[d] = None}
  /\ ide_dev_desc = [d \in Dev |-> Unknown] /\ curr_device = -1
  /\ cmd = [NoCmd EXCEPT !.kind = "reset", !.at = "bus"]
  /\ loaded = <<>> /\ wrote = {}

Idle == cmd.at = None

Exchange ==
  /\ Idle
  /\ \E d \in Dev, new \in DOMAIN Disks \cup {None} :
       /\ new # slot[d] /\ (new # None => \A e \in Dev : slot[e] # new)
       /\ slot' = [slot EXCEPT ![d] = new]
  /\ UNCHANGED <<ide_dev_desc, curr_device, cmd, loaded, wrote>>

Finishes(v) == cmd' = [cmd EXCEPT !.at = "done", !.ret = v]
Undefined == cmd' = [cmd EXCEPT !.at = "undefined"]

---------------------------------------------------------------------------
(* ide_init *)

(* ide_reset: the types of the devices are forgotten, their tables are not. *)
ForgetDevices ==
  /\ curr_device' = -1
  /\ ide_dev_desc' = [d \in Dev |-> [ide_dev_desc[d] EXCEPT !.type = "unknown"]]

Reset ==
  /\ Idle
  /\ cmd' = [NoCmd EXCEPT !.kind = "reset", !.at = "bus"]
  /\ ForgetDevices
  /\ loaded' = <<>> /\ wrote' = {}
  /\ UNCHANGED slot

(* A bus that stays busy ends ide_init at once: what it knew of partitions     *)
(* stays.  One that answers that it is not ready has no disks.                 *)
AskBus ==
  /\ cmd.at = "bus"
  /\ \/ Finishes(0)
     \/ \E ok \in BOOLEAN :
          /\ ok => \E d \in Dev : slot[d] # None
          /\ cmd' = [cmd EXCEPT !.bus = ok, !.at = "ident"]
  /\ UNCHANGED <<slot, ide_dev_desc, curr_device, loaded, wrote>>

(* A disk has to answer in time, and its table to be readable.                 *)
Found(d, parts) ==
  /\ cmd.bus /\ slot[d] # None
  /\ parts => Disks[slot[d]].parts # <<>>

Described(parts) == [type |-> "disk", parts |-> parts]

(* The first disk found *)
Current(d) == IF curr_device < 0 THEN d ELSE curr_device

(* ide_ident and init_part for the next place. *)
Identify ==
  /\ cmd.at = "ident"
  /\ LET d == cmd.i
     IN /\ \/ /\ ide_dev_desc' = [ide_dev_desc EXCEPT ![d] = Unknown]
              /\ curr_device' = IF d = 0 THEN -1 ELSE curr_device
           \/ \E parts \in BOOLEAN :
                /\ Found(d, parts)
                /\ ide_dev_desc' = [ide_dev_desc EXCEPT ![d] = Described(parts)]
                /\ curr_device' = Current(d)
        /\ IF d = Devices - 1 THEN Finishes(0) ELSE cmd' = [cmd EXCEPT !.i = d + 1]
  /\ UNCHANGED <<slot, loaded, wrote>>

---------------------------------------------------------------------------
(* do_ide *)

Begin(k, d, p, at) ==
  /\ Idle
  /\ cmd' = [NoCmd EXCEPT !.kind = k, !.dev = d, !.part = p, !.at = at]
  /\ loaded' = <<>> /\ wrote' = {}

(* `ide device n' looks whether n is too large, but not whether it is below 0. *)
SetDevice(n) ==
  /\ Begin("device", n, 0, IF n < 0 THEN "undefined" ELSE "done")
  /\ curr_device' = IF n \in Dev /\ ide_dev_desc[n].type # "unknown" THEN n ELSE curr_device
  /\ UNCHANGED <<slot, ide_dev_desc>>

(* The device that ide_read and ide_write are called for need not be one.      *)
BeginMove(kind, blk, n) ==
  /\ Idle
  /\ cmd' = [NoCmd EXCEPT !.kind = kind, !.dev = curr_device, !.start = blk, !.cnt = n,
                          !.at = IF curr_device \in Dev THEN "move" ELSE "undefined"]
  /\ loaded' = <<>> /\ wrote' = {}
  /\ UNCHANGED <<slot, ide_dev_desc, curr_device>>

(* How many of n blocks from b on ide_read or ide_write moves: all there are,  *)
(* or fewer when the disk fails.                                               *)
Moves(d, b, n, m) ==
  /\ m \in 0..n
  /\ IF slot[d] = None THEN m = 0 ELSE m = 0 \/ b + m <= Disks[slot[d]].blocks

Blocks(d, b, m) == [i \in 1..m |-> <<slot[d], b + i - 1>>]

Move ==
  /\ cmd.at = "move"
  /\ \E m \in 0..cmd.cnt :
       /\ Moves(cmd.dev, cmd.start, cmd.cnt, m)
       /\ IF cmd.kind = "read"
            THEN loaded' = Blocks(cmd.dev, cmd.start, m) /\ UNCHANGED wrote
            ELSE wrote' = (IF m = 0 THEN {} ELSE {slot[cmd.dev]}) /\ UNCHANGED loaded
       /\ Finishes(IF m = cmd.cnt THEN 0 ELSE 1)
  /\ UNCHANGED <<slot, ide_dev_desc, curr_device>>

---------------------------------------------------------------------------
(* do_diskboot *)

(* The number typed is not compared with the number of devices.                *)
BeginBoot(d, p) ==
  /\ Begin("boot", d, p, IF d \in Dev THEN "table" ELSE "undefined")
  /\ UNCHANGED <<slot, ide_dev_desc, curr_device>>

HasPart(disk, p) == disk # None /\ p \in DOMAIN Disks[disk].parts

(* get_partition_info is called for ide_dev_desc, the first device, whatever   *)
(* number was typed; it may fail to read the table.                            *)
FindPart ==
  /\ cmd.at = "table"
  /\ \/ Finishes(1)
     \/ /\ ide_dev_desc[cmd.dev].type # "unknown" /\ ide_dev_desc[0].parts
        /\ HasPart(slot[0], cmd.part)
        /\ cmd' = [cmd EXCEPT !.at = "header", !.start = Disks[slot[0]].parts[cmd.part].start]
  /\ UNCHANGED <<slot, ide_dev_desc, curr_device, loaded, wrote>>

(* A mutant of BlocksBehind: an image that ends in the middle of a block. *)
WholeBlocks(size) == (size + Header) \div BlockSize - 1

(* cnt: the blocks of an image behind its first one.                           *)
BlocksBehind(size) ==
  (((size + Header + BlockSize - 1) % Ulong) \div BlockSize - 1) % Ulong

(* The images that begin at block b of a disk.                                 *)
ImagesAt(disk, b) ==
  {Disks[disk].parts[p] : p \in {q \in DOMAIN Disks[disk].parts :
      Disks[disk].parts[q].start = b /\ Disks[disk].parts[q].image}}

(* Its magic number and the checksum of the header are looked at.              *)
ReadHeader ==
  /\ cmd.at = "header"
  /\ \/ Finishes(1) /\ UNCHANGED loaded
     \/ /\ Moves(cmd.dev, cmd.start, 1, 1)
        /\ loaded' = Blocks(cmd.dev, cmd.start, 1)
        /\ LET image == ImagesAt(slot[cmd.dev], cmd.start)
           IN IF image = {} THEN Finishes(1)
              ELSE \E i \in image : cmd' = [cmd EXCEPT !.at = "image", !.cnt = BlocksBehind(i.size)]
  /\ UNCHANGED <<slot, ide_dev_desc, curr_device, wrote>>

(* The rest of it; the end of the partition is not looked at.                  *)
ReadImage ==
  /\ cmd.at = "image"
  /\ \E m \in 0..cmd.cnt :
       /\ Moves(cmd.dev, cmd.start + 1, cmd.cnt, m)
       /\ loaded' = loaded \o Blocks(cmd.dev, cmd.start + 1, m)
       /\ Finishes(IF m = cmd.cnt THEN 0 ELSE 1)
  /\ UNCHANGED <<slot, ide_dev_desc, curr_device, wrote>>

Returned ==
  /\ cmd.at = "done" /\ cmd' = NoCmd
  /\ UNCHANGED <<slot, ide_dev_desc, curr_device, loaded, wrote>>

Next ==
  \/ Exchange \/ Reset \/ AskBus \/ Identify \/ Returned
  \/ \E n \in Typed : SetDevice(n)
  \/ \E k \in {"read", "write"}, n \in 0..2 : BeginMove(k, 0, n)
  \/ Move
  \/ \E d \in Typed, p \in Partitions : BeginBoot(d, p)
  \/ FindPart \/ ReadHeader \/ ReadImage

Spec == Init /\ [][Next]_vars

---------------------------------------------------------------------------
(* Every variable has its type. *)
DevicesTypeOK ==
  /\ slot \in [Dev -> DOMAIN Disks \cup {None}]
  /\ ide_dev_desc \in [Dev -> [type: {"unknown", "disk"}, parts: BOOLEAN]]
  /\ curr_device \in Dev \cup {-1}
  /\ cmd.cnt \in 0..(Ulong - 1) /\ wrote \subseteq DOMAIN Disks

(* The first device has the partition at the same place. *)
SameStart(d, p) ==
  /\ HasPart(slot[0], p) /\ HasPart(slot[d], p)
  /\ Disks[slot[0]].parts[p].start = Disks[slot[d]].parts[p].start

(* do_diskboot ("boot from IDE device", dev:part): when it reports that an     *)
(* image was loaded, memory holds that image, from the block its partition     *)
(* begins in to the one with its last byte, of the disk that is in the place   *)
(* named, exchanged or not, also when it claims more than the disk has.  A     *)
(* command is undefined only where a number typed is no device or where there  *)
(* is none.  The exceptions are partitions that do not begin where the first   *)
(* device's do, and a size whose last bytes, with the header, no unsigned long *)
(* reaches: there BlocksBehind wraps to 0 and the header alone is loaded.      *)
BootsNamed ==
  /\ cmd.kind = "boot" /\ cmd.at = "done" /\ cmd.ret = 0 /\ SameStart(cmd.dev, cmd.part) =>
       LET image == Disks[slot[cmd.dev]].parts[cmd.part]
           bytes == image.size + Header
       IN /\ image.image
          /\ loaded = Blocks(cmd.dev, image.start, Len(loaded))
          /\ bytes <= Ulong => Len(loaded) * BlockSize \in bytes..(bytes + BlockSize - 1)
  /\ cmd.at = "undefined" =>
       IF cmd.kind \in {"read", "write"} THEN \A d \in Dev : ide_dev_desc[d].type = "unknown"
                                         ELSE cmd.dev \notin Dev
=============================================================================
