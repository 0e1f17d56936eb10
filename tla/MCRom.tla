------------------------------- MODULE MCRom -------------------------------
(***************************************************************************)
(* Small instances of the parts of a box that are about its flash: the     *)
(* Intel and AMD drivers, the table flash_init makes of the chips, and the *)
(* file systems.  As in MCBox a behaviour is one of one part, chosen at    *)
(* the start.                                                              *)
(***************************************************************************)
EXTENDS Integers, Sequences

CONSTANTS
  Parts,                           \* those to be checked
  Sectors, SectorBytes, PortWidth, ByteBits,   \* IntelFlash: the chip,
  MaxWrite, FlashFaults            \* the bytes of a call and the chip's faults

VARIABLES
  part,                                                  \* the one that runs
  driver, cells, locked, wsm, protect, op, faults,       \* IntelFlash
  board, fitted, bankno, width, info, shows, window,     \* FlashInit
  img, bad, strtok, look, mem, shown                     \* Squashfs

Flash == INSTANCE IntelFlash WITH
  Drivers <- {"strata", "dbox2", "amd"}, Width <- PortWidth, Bits <- ByteBits,
  MaxFaults <- FlashFaults

(* The chips the headers of the ipbox configure, those of the other boards, and  *)
(* the same with the boot sectors at the other end, or unknown.                  *)
ChipOf(name, maker, device, codes, regions) ==
  [name |-> name, maker |-> maker, device |-> device, codes |-> codes, regions |-> regions]
Region(count, kb) == [count |-> count, kb |-> kb]
Top    == <<Region(127, 64), Region(8, 8)>>
Bottom == <<Region(8, 8), Region(127, 64)>>

Relook == {"MX_29LV640MT", "MX_29LV640DT", "SPA_S29GL064MR4", "EON_29LV640B"}

Layout == INSTANCE FlashInit WITH
  Looks <- {0, -1},
  Boards <-
    [relook200c |-> [driver |-> "ipbox", banks |-> 1, flags |-> Relook],
     relook200s |-> [driver |-> "ipbox", banks |-> 1,
                     flags |-> Relook \cup {"STM_29W640DT", "SPA_S29GL064MR3"}],
     relook300s |-> [driver |-> "ipbox", banks |-> 2,
                     flags |-> {"AMD_LV320B", "STM_29W320DB", "MX_29LV320AB"}],
     dbox2      |-> [driver |-> "dbox2", banks |-> 1,
                     flags |-> {"AMD_DL323B", "STM_28W320CB", "INTEL_28F320C3B",
                                "INTEL_28F320C3T", "INTEL_28F640J3A", "INTEL_28F640C3B"}],
     dreambox   |-> [driver |-> "strata", banks |-> 2, flags |-> {"INTEL_28F640J3A"}]],
  Chips <-
    { ChipOf("MX_29LV640MT", "MX", "64M", "top", Top),
      ChipOf("MX_29LV640MB", "MX", "64M", "bottom", Bottom),
      ChipOf("MX_29LV640DT", "MX", "640DT", "top", Top),
      ChipOf("STM_29W640DT", "STM", "640DT", "top", Top),
      ChipOf("SPA_S29GL064MR3", "SPA", "64M", "top", Top),
      ChipOf("SPA_S29GL064MR4", "SPA", "64M", "bottom", Bottom),
      ChipOf("EON_29LV640B", "EON", "640B", "bottom", Bottom),
      ChipOf("AMD_LV320B", "AMD", "320B", "bottom", <<Region(8, 8), Region(63, 64)>>),
      ChipOf("AMD_DL323B", "AMD", "DL323B", "bottom", <<Region(8, 8), Region(63, 64)>>),
      ChipOf("STM_28W320CB", "STM", "320CB", "bottom", <<Region(8, 8), Region(63, 64)>>),
      ChipOf("INTEL_28F320C3B", "INTEL", "320B", "bottom", <<Region(8, 8), Region(63, 64)>>),
      ChipOf("INTEL_28F320C3T", "INTEL", "320T", "top", <<Region(63, 64), Region(8, 8)>>),
      ChipOf("INTEL_28F640J3A", "INTEL", "640J", "cfi", <<Region(64, 128)>>),
      ChipOf("INTEL_28F640C3B", "INTEL", "640B", "cfi", Bottom) }

(* Two file systems: one whose listings, inodes and fragments go over the ends *)
(* of blocks where they may, and one where they do where they may not, with a  *)
(* name that is the beginning of another.                                      *)
Dir(inode, len, listing, listed, entries) ==
  [type |-> "dir", at |-> inode, len |-> len, listing |-> listing, listed |-> listed,
   entries |-> entries, size |-> 0, frag |-> 0, inFrag |-> 0]
File(inode, len, size, frag, inFrag) ==
  [type |-> "file", at |-> inode, len |-> len, listing |-> <<1, 0>>, listed |-> 0,
   entries |-> <<>>, size |-> size, frag |-> frag, inFrag |-> inFrag]
Link(type, inode) == [File(inode, 1, 0, 0, 0) EXCEPT !.type = type]
Entry(name, node) == [name |-> name, node |-> node]

boot      == <<"boot">>
vm        == <<"vm">>
vmlinuz   == <<"vm", "linuz">>
something == <<"s">>

WellMade ==
  [inodes |-> <<4, 4, 4>>, dirs |-> <<4, 2>>, root |-> "root",
   frags |-> <<[raw |-> FALSE, bytes |-> << <<"kernel", 5>>, <<"logo", 3>> >>],
               [raw |-> TRUE, bytes |-> << <<"raw", 3>>, <<"behind", 1>> >>]>>,
   nodes |->
     [root   |-> Dir(<<1, 0>>, 1, <<1, 0>>, 3, <<Entry(boot, "boot"), Entry(something, "link"),
                                                 Entry(vm, "behind")>>),
      boot   |-> Dir(<<1, 1>>, 1, <<1, 3>>, 3, <<Entry(boot, "logo"), Entry(vmlinuz, "kernel"),
                                                 Entry(something, "raw")>>),
      kernel |-> File(<<1, 2>>, 3, 5, 1, 0),
      logo   |-> File(<<2, 1>>, 2, 3, 1, 1),
      raw    |-> File(<<2, 3>>, 2, 3, 2, 0),
      behind |-> File(<<3, 2>>, 2, 1, 2, 1),
      link   |-> Link("symlink", <<3, 1>>)]]

Awkward ==
  [inodes |-> <<4, 3>>, dirs |-> <<4, 4>>, root |-> "root", frags |-> <<>>,
   nodes |->
     [root   |-> Dir(<<1, 0>>, 1, <<1, 0>>, 2, <<Entry(boot, "boot"), Entry(vm, "old"),
                                                 Entry(vmlinuz, "kernel"), Entry(something, "far")>>),
      boot   |-> Dir(<<1, 3>>, 2, <<1, 2>>, 2, <<Entry(something, "old")>>),
      far    |-> Dir(<<1, 2>>, 1, <<1, 3>>, 2, <<Entry(something, "ldir")>>),
      old    |-> File(<<1, 1>>, 1, 3, 0, 0),
      kernel |-> File(<<2, 1>>, 2, 4, 0, 0),
      ldir   |-> Link("ldir", <<2, 1>>)]]

Files == INSTANCE Squashfs WITH
  Images <- [well |-> WellMade, awkward |-> Awkward], BlockSize <- 2, Metadata <- 4, MaxBad <- 1,
  Paths <- {<<>>, <<boot>>, <<something>>, <<vm>>, <<vmlinuz>>, <<boot, vmlinuz>>,
            <<boot, boot>>, <<boot, something>>, <<boot, vm, something>>,
            <<something, something>>}

ASSUME PartsAssumption == Flash!FlashSizes /\ Files!SquashSizes

Init ==
  /\ part \in Parts
  /\ IF part = "flash" THEN Flash!Init ELSE Flash!Init /\ driver = "strata"
  /\ IF part = "layout" THEN Layout!Init
     ELSE Layout!Init /\ board = "dreambox" /\ fitted[1] = fitted[2] /\ fitted[1].n = 1
          /\ fitted[1].locked = {} /\ Layout!Fits(1).name = "INTEL_28F640J3A"
  /\ IF part = "files" THEN Files!Init ELSE Files!Init /\ img = "well" /\ bad = {}

flashVars == <<driver, cells, locked, wsm, protect, op, faults>>
initVars  == <<board, fitted, bankno, width, info, shows, window>>
fileVars  == <<img, bad, strtok, look, mem, shown>>

Runs(p) == part = p /\ UNCHANGED part

Next ==
  \/ Runs("flash")  /\ Flash!Next  /\ UNCHANGED <<initVars, fileVars>>
  \/ Runs("layout") /\ Layout!Next /\ UNCHANGED <<flashVars, fileVars>>
  \/ Runs("files")  /\ Files!Next  /\ UNCHANGED <<flashVars, initVars>>

Spec == Init /\ [][Next]_<<part, flashVars, initVars, fileVars>>

---------------------------------------------------------------------------
(* The properties of the parts, stated and explained in their modules, each with *)
(* the type invariant of its part: a call of a flash driver that returns 0 has   *)
(* done what it says;                                                            *)
OkIsDone    == part = "flash"  => Flash!FlashTypeOK /\ Flash!OkIsDone
(* flash_init has in its table the sectors of the chip;                          *)
TableIsReal == part = "layout" => Layout!InitTypeOK /\ Layout!TableIsReal
(* fsload loads, and ls prints, what was named.                                  *)
LoadsNamed  == part = "files"  => Files!SquashTypeOK /\ Files!LoadsNamed
=============================================================================
