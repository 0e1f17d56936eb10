----------------------------- MODULE FlashInit -----------------------------
(***************************************************************************)
(* flash_init of the three flash drivers, board/ipbox/common/flash.c,      *)
(* board/dbox2/flash.c and board/dreambox/strataflash.c: which chip is     *)
(* fitted is asked of the chip, and its sectors and their locks are put    *)
(* into flash_info, the table that all commands on the flash rest on.      *)
(* The chips are external.  Addresses count kilobytes from the bank's      *)
(* first, sectors from 0 as in the code.                                   *)
(***************************************************************************)
EXTENDS Integers, Sequences

CONSTANTS
  Boards,      \* name -> [driver, banks, flags: the chips its header configures]
  Chips,       \* what may be fitted: [name, maker, device, codes, regions]
  Looks        \* sectors whose lock bits differ: positions, -1 for the last

VARIABLES
  board,       \* the board
  fitted,      \* its banks: the chip, how many in parallel, its locked sectors
  bankno,        \* the bank that is next, 0 when flash_init returned
  width,       \* info->portwidth
  info,        \* flash_info
  shows,        \* banks: what the chip shows, "array" or "id"
  window       \* what the memory controller selects for the flash

vars == <<board, fitted, bankno, width, info, shows, window>>

Driver == Boards[board].driver
Banks  == 1..Boards[board].banks
Fits(b) == fitted[b].chip

---------------------------------------------------------------------------
(* The sectors a chip has: one region after the other, each of r.count of r.kb;  *)
(* n chips in parallel multiply their size.                                      *)
Count(c)     == IF Len(c.regions) = 1 THEN c.regions[1].count
                ELSE c.regions[1].count + c.regions[2].count
SizeOf(c, i) == IF i < c.regions[1].count THEN c.regions[1].kb ELSE c.regions[2].kb
Total(c)     == c.regions[1].count * c.regions[1].kb
                + (IF Len(c.regions) = 1 THEN 0 ELSE c.regions[2].count * c.regions[2].kb)
Locks(c)     == SUBSET {IF i < 0 THEN Count(c) - 1 ELSE i : i \in Looks}
LockBit(b, i) == IF i \in fitted[b].locked THEN 1 ELSE 0

Unknown == [known |-> FALSE, count |-> 0, size |-> 0, start |-> <<>>, protect |-> <<>>]

---------------------------------------------------------------------------
(* The ipbox's flash_get_size: the chips it compares the codes with, and two     *)
(* tables for all of them.                                                       *)
Asked(flag, maker, device, codes, boot) ==
  [flag |-> flag, maker |-> maker, device |-> device, codes |-> codes, boot |-> boot]

IpboxChips ==
  { Asked("MX_29LV640MT",    "MX",  "64M",   {"top"},              "top"),
    Asked("MX_29LV640DT",    "MX",  "640DT", {"top", "bottom"},    "top"),
    Asked("STM_29W640DT",    "STM", "640DT", {"top", "bottom"},    "top"),
    Asked("SPA_S29GL064MR4", "SPA", "64M",   {"bottom"},           "bottom"),
    Asked("EON_29LV640B",    "EON", "640B",  {"top", "bottom"},    "bottom") }

Answers(c) ==
  {k \in IpboxChips : /\ k.flag \in Boards[board].flags
                      /\ k.maker = c.maker /\ k.device = c.device /\ c.codes \in k.codes}

(* A mutant of TopBoot: the small sectors are counted from the first of all. *)
CountsAll(i)  == IF i < 127 THEN 64 * i ELSE 8128 + 8 * i

TopBoot(i)    == IF i < 127 THEN 64 * i ELSE 8128 + 8 * (i - 127)
BottomBoot(i) == IF i < 8 THEN 8 * i ELSE 8 * 8 + 64 * (i - 8)

IpboxTable(b, boot) ==
  [known |-> TRUE, count |-> 135, size |-> 8192,
   start |-> [i \in 0..134 |-> IF boot = "top" THEN TopBoot(i) ELSE BottomBoot(i)],
   protect |-> [i \in 0..134 |-> LockBit(b, i)]]

(* A chip that is not known is left showing its codes. *)
IpboxGetSize(b) ==
  /\ Driver = "ipbox" /\ bankno = b
  /\ IF Answers(Fits(b)) = {}
       THEN info' = [info EXCEPT ![b].known = FALSE] /\ shows' = [shows EXCEPT ![b] = "id"]
       ELSE \E k \in Answers(Fits(b)) :
              info' = [info EXCEPT ![b] = IpboxTable(b, k.boot)] /\ UNCHANGED shows
  /\ bankno' = IF b + 1 \in Banks THEN b + 1 ELSE 0
  /\ UNCHANGED <<board, fitted, width, window>>

---------------------------------------------------------------------------
(* The dbox2's: two chips of 16 bits in parallel, or one, asked for in this      *)
(* order; codes read at the other width match none.                              *)
Dbox2Chips ==
  [AMD_DL323B |-> <<71, 8192, "bottom">>, STM_28W320CB |-> <<71, 8192, "bottom">>,
   INTEL_28F320C3B |-> <<71, 8192, "bottom">>, INTEL_28F320C3T |-> <<71, 8192, "top">>,
   INTEL_28F640J3A |-> <<64, 8192, "none">>, INTEL_28F640C3B |-> <<135, 16384, "bottom">>]

(* flash_get_offsets *)
Offset(count, size, boot, i) ==
  CASE boot = "bottom" -> IF i < 8 THEN 16 * i ELSE 128 * (i - 7)
    [] boot = "top"    -> IF i >= count - 7 THEN size - 16 * (count - i) ELSE 128 * i
    [] OTHER           -> 128 * i

(* flash_get_protect looks at Intel's chips, and leaves them showing their array. *)
Dbox2Table(b, t) ==
  [known |-> TRUE, count |-> t[1], size |-> t[2],
   start |-> [i \in 0..(t[1] - 1) |-> Offset(t[1], t[2], t[3], i)],
   protect |-> [i \in 0..(t[1] - 1) |->
                  IF Fits(b).maker = "INTEL" THEN LockBit(b, i) ELSE 0]]

Dbox2Knows(b) == fitted[b].n = width \div 16 /\ Fits(b).name \in DOMAIN Dbox2Chips

Dbox2Found(b) ==
  /\ Driver = "dbox2" /\ bankno = b /\ Dbox2Knows(b)
  /\ LET t == Dbox2Chips[Fits(b).name]
     IN /\ info' = [info EXCEPT ![b] = Dbox2Table(b, t)]
        /\ window' = IF t[2] = 16384 THEN t[2] ELSE window
  /\ \E m \in IF Fits(b).maker \in {"INTEL", "AMD"} THEN {"array"} ELSE {"array", "id"} :
       shows' = [shows EXCEPT ![b] = m]
  /\ bankno' = 0
  /\ UNCHANGED <<board, fitted, width>>

Dbox2NotFound(b) ==
  /\ Driver = "dbox2" /\ bankno = b /\ ~Dbox2Knows(b)
  /\ info' = [info EXCEPT ![b] = Unknown]
  /\ \E m \in {"array", "id"} : shows' = [shows EXCEPT ![b] = m]
  /\ width' = 16 /\ bankno' = IF width = 32 THEN b ELSE 0
  /\ UNCHANGED <<board, fitted, window>>

---------------------------------------------------------------------------
(* The dreambox's: a chip with a CFI tells its regions; that of the first is     *)
(* read for each of them (line 603).                                             *)
StrataTable(b) ==
  LET c == Fits(b)
      n == Len(c.regions) * c.regions[1].count
  IN [known |-> TRUE, count |-> n, size |-> Total(c) * fitted[b].n,
      start |-> [i \in 0..(n - 1) |-> i * c.regions[1].kb * fitted[b].n],
      protect |-> [i \in 0..(n - 1) |-> LockBit(b, i)]]

StrataGetSize(b) ==
  /\ Driver = "strata" /\ bankno = b
  /\ IF "cfi" = Fits(b).codes
       THEN info' = [info EXCEPT ![b] = StrataTable(b)] /\ UNCHANGED shows
       ELSE /\ UNCHANGED info
            /\ \E m \in {"array", "id"} : shows' = [shows EXCEPT ![b] = m]
  /\ bankno' = IF b + 1 \in Banks THEN b + 1 ELSE 0
  /\ UNCHANGED <<board, fitted, width, window>>

---------------------------------------------------------------------------
Init ==
  /\ board \in DOMAIN Boards
  /\ \E c \in Chips, n \in 1..2 :
       /\ n = 2 => Driver # "ipbox"
       /\ fitted \in [Banks -> {[chip |-> c, n |-> n, locked |-> l] : l \in Locks(c)}]
  /\ bankno = 1 /\ width = 32
  /\ info = [b \in Banks |-> Unknown] /\ shows = [b \in Banks |-> "array"]
  /\ window = 8192

Next ==
  \E b \in Banks :
    \/ IpboxGetSize(b)
    \/ Dbox2Found(b) \/ Dbox2NotFound(b)
    \/ StrataGetSize(b)

Spec == Init /\ [][Next]_vars

---------------------------------------------------------------------------
(* Every table has a start and a lock for each of its sectors. *)
InitTypeOK ==
  /\ board \in DOMAIN Boards /\ bankno \in {0} \cup Banks /\ width \in {16, 32}
  /\ window \in {8192, 16384}
  /\ \A b \in Banks :
       /\ shows[b] \in {"array", "id"}
       /\ info[b].known => /\ DOMAIN info[b].start = 0..(info[b].count - 1)
                           /\ DOMAIN info[b].protect = 0..(info[b].count - 1)

(* Chips that no branch of flash_get_size asks for, though headers configure them: *)
(* it is a second version of the function, left out by #if 0, that does.           *)
NotAskedFor ==
  {"SPA_S29GL064MR3", "AMD_LV320B", "STM_29W320DB", "MX_29LV320AB"}

SectorsOf(b) == 0..(info[b].count - 1)

(* The table tiles the chip: its sectors begin where the chip's do, and the last   *)
(* ends where the chip does.                                                       *)
Tiles(b) ==
  LET c == Fits(b) n == fitted[b].n
  IN /\ info[b].count = Count(c) /\ info[b].size = n * Total(c)
     /\ info[b].start[0] = 0
     /\ \A i \in SectorsOf(b) :
          (IF i + 1 \in SectorsOf(b) THEN info[b].start[i + 1] ELSE info[b].size)
             = info[b].start[i] + n * SizeOf(c, i)

(* A width or a CFI the code takes on trust: Intel's C3 alone or J3 in pairs on a  *)
(* dbox2, which only the device code is looked up of, and more than one region.    *)
OnTrust(b) ==
  \/ Driver = "dbox2" /\ fitted[b].n # (IF Fits(b).name = "INTEL_28F640J3A" THEN 1 ELSE 2)
  \/ Driver = "strata" /\ Len(Fits(b).regions) > 1

(* flash_init: a chip it knows has in flash_info the sectors, the size and the     *)
(* locks the chip has, all within the addresses the flash is selected for, and     *)
(* shows its contents again; and a chip the board is configured for is known.      *)
(* The exceptions are the chips of NotAskedFor and OnTrust; locks are read of      *)
(* Intel's on the dbox2, and there a chip of STM may be left showing its codes.    *)
TableIsReal ==
  bankno = 0 =>
    \A b \in Banks :
      /\ info[b].known /\ ~OnTrust(b) =>
           /\ Tiles(b)
           /\ (Driver = "dbox2" => Fits(b).maker = "INTEL") =>
                \A i \in SectorsOf(b) : info[b].protect[i] = LockBit(b, i)
           /\ shows[b] = "array" \/ Fits(b).maker = "STM"
           /\ Driver = "dbox2" => info[b].size <= window
      /\ Fits(b).name \in Boards[board].flags \ NotAskedFor => info[b].known \/ OnTrust(b)
=============================================================================
