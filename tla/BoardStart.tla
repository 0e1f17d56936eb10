----------------------------- MODULE BoardStart -----------------------------
(***************************************************************************)
(* The start of an ipbox: the init.S and misc_init_f of six boards, their  *)
(* configurations, gpio.c and flash_imgs.c.  Before main memory works the  *)
(* code runs from the flash, and writes the registers of the bus, memory,  *)
(* pins and interrupts one after another; what a board wires where is only *)
(* known from the addresses and pins its other sources use.  Which of the  *)
(* four routines of init.S is called when is start.S's, which is external. *)
(* Addresses are in MB, offsets into the flash in KB.                      *)
(***************************************************************************)
EXTENDS Integers, Sequences, SequencesExt

CONSTANT Machines   \* the configurations: the names of Configs below

VARIABLES
  start,  \* the configuration, the routines to come, the one that runs, its step
  ebiu,   \* BRCR0..7: what each bank of the bus decodes
  sdram,  \* the banks of memory: set up, busy with a command, enabled
  gpio,   \* OR, TCR, the pins the selects leave to them; what the drivers did to a pin
  uic     \* interrupts: those enabled and those that are level-sensitive

vars == <<start, ebiu, sdram, gpio, uic>>

---------------------------------------------------------------------------
(* Registers of 32 bits are given by their halves, bit 0 being the highest. *)

Bit(word, p)   == (word[p \div 16 + 1] \div 2^(15 - (p % 16))) % 2 = 1
PinsOf(word)   == {p \in 0..31 : Bit(word, p)}
Select(os, p)  == (os[p \div 8 + 1] \div 4^(7 - (p % 8))) % 4
PlainPins(os)  == {p \in 0..31 : Select(os, p) = 0}   \* not an alternate function

(* A bank: BAS, the megabytes of BS, and whether BU allows any use.            *)
Bank(bas, mb)  == [base |-> 3840 + bas, mb |-> mb, used |-> TRUE]
Unused         == [base |-> 3840 + 255, mb |-> 1, used |-> FALSE]

(* A mutant of Banks100s: the bank of the Ethernet is as large as the flash's. *)
LargeEthernet == <<Bank(\hF0, 16), Bank(\hEE, 16), Bank(\h20, 1), Unused,
                   Unused, Unused, Unused, Unused>>

(* EBIU_BRCR0 to 7, and ext_bus_cntlr_init, which writes them in this order. *)
Banks100s == <<Bank(\hF0, 16), Bank(\hEE, 1), Bank(\h20, 1), Unused,
               Unused, Unused, Unused, Unused>>
Banks200s == <<Bank(\hF0, 16), Bank(\hEE, 1), Bank(\h20, 8), Bank(\h40, 8),
               Bank(\h10, 1), Unused, Unused, Bank(\hCE, 2)>>
Banks200c == <<Bank(\hF0, 16), Bank(\hEE, 1), Bank(\h20, 8), Bank(\h40, 8),
               Bank(\h10, 1), Unused, Unused, Bank(\hCE, 2)>>
Banks210  == <<Bank(\hF0, 16), Bank(\hEE, 1), Bank(\h20, 8), Bank(\h40, 8),
               Bank(\h10, 1), Bank(\hA0, 1), Unused, Bank(\hCE, 2)>>
Banks300s == <<Bank(\hF8, 8), Bank(\h10, 8), Bank(\h20, 8), Bank(\h40, 8),
               Bank(\hF5, 1), Bank(\h50, 8), Unused, Bank(\hCE, 2)>>
Banks400s == <<Bank(\hF0, 16), Bank(\h10, 8), Bank(\h20, 8), Bank(\h40, 8),
               Bank(\hEF, 1), Bank(\hED, 1), Bank(\hEE, 1), Bank(\hCE, 2)>>

(* sdram_init: what is written.  "map" sets a bank's base and size; a "cmd" of    *)
(* the 300s is waited for; "on" enables it.                                      *)
Map(bank, base, mb) == [op |-> "map", bank |-> bank, base |-> base, mb |-> mb]
On(bank)            == [op |-> "on", bank |-> bank, base |-> 0, mb |-> 0]
Cmd(bank)           == [op |-> "cmd", bank |-> bank, base |-> 0, mb |-> 0]

Ram100s == <<Map(1, 0, 32), On(1)>>
Ram200s == <<Map(1, 0, 32), On(1), Map(3, \hA00, 32), On(3)>>
Ram200c == <<Map(1, 0, 32), On(1), Map(3, \hA00, 32), On(3)>>
Ram210  == <<Map(1, 0, 32), On(1), Map(3, \hA00, 32), On(3)>>

Hsmc(bank, base) == <<Map(bank, base, 8), Cmd(bank), Cmd(bank), Cmd(bank), On(bank)>>
Ram300s == Hsmc(3, \h200) \o Hsmc(4, \h208) \o Hsmc(1, 0) \o Hsmc(2, 8)

Ram400s == <<Map(1, 0, 32), Map(2, 32, 32), On(1), On(2), Map(3, \hA00, 32), On(3)>>

(* gpio_init: VGPIO_O, VGPIO_TC, VGPIO_OS0 and 1, and the order they are stored in. *)
Stores == <<"or", "os", "tcr">>
Gpio100s == [or |-> <<\h4400, \h0002>>, tcr |-> <<\hFFFE, \hBFFF>>,
             os |-> <<0, \h000A, \h5000, \h5410>>, stores |-> Stores]
Gpio200s == [or |-> <<\h4000, \h0408>>, tcr |-> <<\h0B6E, \h94EC>>,
             os |-> <<\h005C, \h000A, \h5545, \h9410>>, stores |-> Stores]
Gpio200c == [or |-> <<\h4000, \h3F08>>, tcr |-> <<\h0B6E, \h94EC>>,
             os |-> <<\h005C, \h000A, \h5001, \h9410>>, stores |-> Stores]
Gpio210  == [or |-> <<\h2000, \h0408>>, tcr |-> <<\hEF6E, \h94EC>>,
             os |-> <<\h002C, \h500A, \h5545, \h9410>>, stores |-> Stores]
Gpio300s == [or |-> <<\h0080, \h0200>>, tcr |-> <<\h33E0, \h3FF0>>,
             os |-> <<\h50A0, \h0155, \hA000, \h002F>>, stores |-> <<"os", "tcr", "or">>]
Gpio400s == [or |-> <<\h1000, \h0000>>, tcr |-> <<\hD87F, \hBFE7>>,
             os |-> <<\h0C50, \h5000, \h50A1, \h9415>>, stores |-> Stores]

(* chip_control_init: every interrupt is masked; those uictr leaves edge-sensitive. *)
Edge100s == {}
Edge200s == {}
Edge200c == {}
Edge210  == {}
Edge300s == PinsOf(<<\h0100, 0>>)
Edge400s == {}

(* misc_init_f: pins released or reset, and bytes written to the external I/O;   *)
(* "sgpo" is the pin of the other port, which the 300s' gpio_init makes an        *)
(* output that is low.                                                            *)
Low(pin)  == [op |-> "low", at |-> pin]
High(pin) == [op |-> "high", at |-> pin]
Io(mb)    == [op |-> "io", at |-> mb]
Sgpo(pin) == [op |-> "sgpo", at |-> pin]

Misc100s == <<Low(5), Io(\hF20)>>
Misc200s == <<Low(28), High(7), Io(\hF10)>>
Misc200c == <<Low(28), High(7), Io(\hF10)>>
Misc210  == <<Low(28), Io(\hF10), Low(7), High(7)>>
Misc300s == <<Sgpo(11)>>
Misc400s == <<Low(18)>>

(* initdram: what is returned, in units of 64 KB. *)
Dram100s == \h018A
Dram200s == \h0200
Dram200c == \h0200
Dram210  == \h0200
Dram300s == \h0100
Dram400s == \h038A

(* The configurations' flash: the length of the environment, the startup image,    *)
(* the kernel and the monitor.                                                    *)
Flash(env, image, load) ==
  [env |-> env, image |-> image, load |-> load, monitor |-> 8000, len |-> 192]
Memory100s     == Flash(64, 64, 256)
Memory100sNtsc == Flash(64, 64, 256)
Memory200s     == Flash(64, 64, 256)
Memory200sNtsc == Flash(64, 64, 256)
Memory200c     == Flash(64, 64, 256)
Memory210      == Flash(8, 64, 256)
Memory300s     == Flash(16, 16, 192)
Memory400s     == Flash(8, 64, 256)
Memory400sNtsc == Flash(64, 64, 256)

(* The commands of the boot menu that the environment of a configuration holds. *)
Always == {"menu_serialbreak", "menu_timeout", "menu_upgserial", "menu_debugmode"}
Shared == Always \cup {"menu_pal", "menu_vmode", "menu_mid", "menu_set2set", "menu_upgnet"}
Env100s     == Shared
Env100sNtsc == Shared
Env200s     == Shared \cup {"menu_hddfmt"}
Env200sNtsc == Shared \cup {"menu_hddfmt"}
Env200c     == Shared \cup {"menu_hddfmt"}
Env210      == Shared \cup {"menu_hddfmt"}
Env300s     == Always \cup {"menu_hddfmt", "menu_upgusb"}
Env400s     == Shared \cup {"menu_hddfmt", "menu_upgusb"}
Env400sNtsc == Shared \cup {"menu_hddfmt", "menu_upgusb"}

(* dgs_bootmenu_cmds, and that of the 300s. *)
Common(b) ==
  {IF b = "400s" THEN "menu_upgusb" ELSE "menu_upgserial", "menu_upgserial", "menu_set2set",
   "menu_debugmode", "menu_upgnet", "menu_pal", "menu_vmode", "menu_mid"}
  \cup IF b = "100s" THEN {} ELSE {"menu_hddfmt"}
Commands300s == {"menu_upgusb", "menu_upgserial", "menu_hddfmt", "menu_debugmode"}
MenuOf(b)    == {"menu_timeout", "menu_serialbreak"} \cup IF b = "300s" THEN Commands300s ELSE Common(b)

(* dgs_flash_imgs: DB_SIZE is defined twice for the 100s, and the second is used. *)
ImageSizes(b) ==
  LET kernel == IF b = "100s" THEN 1152 ELSE 1280
      db     == 2240
  IN  <<256, kernel, 8192 - 256 - kernel - db - 192, db, 192>>
ImageStart(b, i) == LET sum[j \in 0..5] == IF j = 0 THEN 0 ELSE sum[j - 1] + ImageSizes(b)[j]
                    IN  sum[i - 1]

---------------------------------------------------------------------------
(* A board, and a configuration of it: what its drivers use.  "usb" is the bank    *)
(* of a USB device chip (PDIUSB_IOBASE, ISP116x), -1 where there is none.          *)
Board(b) ==
  CASE b = "100s" -> [banks |-> Banks100s, ram |-> Ram100s, gpio |-> Gpio100s, edge |-> Edge100s,
                      misc |-> Misc100s, dram |-> Dram100s]
    [] b = "200s" -> [banks |-> Banks200s, ram |-> Ram200s, gpio |-> Gpio200s, edge |-> Edge200s,
                      misc |-> Misc200s, dram |-> Dram200s]
    [] b = "200c" -> [banks |-> Banks200c, ram |-> Ram200c, gpio |-> Gpio200c, edge |-> Edge200c,
                      misc |-> Misc200c, dram |-> Dram200c]
    [] b = "210"  -> [banks |-> Banks210, ram |-> Ram210, gpio |-> Gpio210, edge |-> Edge210,
                      misc |-> Misc210, dram |-> Dram210]
    [] b = "300s" -> [banks |-> Banks300s, ram |-> Ram300s, gpio |-> Gpio300s, edge |-> Edge300s,
                      misc |-> Misc300s, dram |-> Dram300s]
    [] b = "400s" -> [banks |-> Banks400s, ram |-> Ram400s, gpio |-> Gpio400s, edge |-> Edge400s,
                      misc |-> Misc400s, dram |-> Dram400s]

Machine(b, memory, env, drivers) ==
  [board |-> b, memory |-> memory, env |-> env, drivers |-> drivers,
   ethernet |-> IF b = "300s" THEN -1 ELSE \hFEE,
   usb      |-> CASE b = "300s" -> \hFF5 [] b = "400s" -> \hFEF [] b = "210" -> \hFA0 [] OTHER -> -1,
   suspend  |-> CASE b = "300s" -> 28 [] b = "400s" -> 6 [] OTHER -> -1]

Configs ==
  [relook100s  |-> Machine("100s", Memory100s, Env100s, {}),
   relook100sn |-> Machine("100s", Memory100sNtsc, Env100sNtsc, {}),
   relook200s  |-> Machine("200s", Memory200s, Env200s, {"ide", "mmc"}),
   relook200sn |-> Machine("200s", Memory200sNtsc, Env200sNtsc, {}),
   relook200c  |-> Machine("200c", Memory200c, Env200c, {"ide", "mmc"}),
   relook210   |-> Machine("210", Memory210, Env210, {"ide", "mmc"}),
   relook300s  |-> Machine("300s", Memory300s, Env300s, {}),
   relook400s  |-> Machine("400s", Memory400s, Env400s, {"ide"}),
   relook400sn |-> Machine("400s", Memory400sNtsc, Env400sNtsc, {})]

config == Configs[start.machine]
board  == Board(config.board)

Routines == {"ext_bus_cntlr_init", "sdram_init", "gpio_init", "chip_control_init"}

NoRam == [base |-> 0, mb |-> 0, busy |-> FALSE, on |-> FALSE]

(* After a reset only the top of the flash is decoded, and no memory is enabled. *)
Init ==
  /\ start \in [machine : Machines, todo : {Routines}, at : {"start.S"}, step : {1}, dram : {-1}, ide : {-1}]
  /\ ebiu = [k \in 1..8 |-> IF k = 1 THEN Bank(254, 2) ELSE Unused]
  /\ sdram = [k \in 1..4 |-> NoRam]
  /\ gpio = [or |-> {}, tcr |-> {}, plain |-> 0..31, held |-> {}, moved |-> [p \in {} |-> "in"]]
  /\ uic = [on |-> {}, edge |-> {}]

Return == start' = [start EXCEPT !.at = "start.S", !.step = 1]
Step   == start' = [start EXCEPT !.step = @ + 1]

(* start.S calls a routine. *)
Call(r) ==
  /\ start.at = "start.S" /\ r \in start.todo
  /\ start' = [start EXCEPT !.todo = @ \ {r}, !.at = r]
  /\ UNCHANGED <<ebiu, sdram, gpio, uic>>

(* ext_bus_cntlr_init writes one bank after another. *)
WriteBank ==
  /\ start.at = "ext_bus_cntlr_init"
  /\ ebiu' = [ebiu EXCEPT ![start.step] = board.banks[start.step]]
  /\ IF start.step = 8 THEN Return ELSE Step
  /\ UNCHANGED <<sdram, gpio, uic>>

(* sdram_init; a command of the 300s' controller is waited for. *)
SdramWrite ==
  LET w == board.ram[start.step]  b == w.bank IN
  /\ start.at = "sdram_init" /\ \A k \in 1..4 : ~sdram[k].busy
  /\ sdram' = [sdram EXCEPT ![b] =
                 CASE w.op = "map" -> [@ EXCEPT !.base = w.base, !.mb = w.mb]
                   [] w.op = "cmd" -> [@ EXCEPT !.busy = TRUE]
                   [] w.op = "on"  -> [@ EXCEPT !.on = TRUE]]
  /\ IF start.step = Len(board.ram) THEN Return ELSE Step
  /\ UNCHANGED <<ebiu, gpio, uic>>

CommandDone ==
  \E b \in 1..4 : /\ sdram[b].busy /\ sdram' = [sdram EXCEPT ![b].busy = FALSE]
                  /\ UNCHANGED <<start, ebiu, gpio, uic>>

(* gpio_init: a pin an output register sets is held from then on. *)
GpioStore ==
  LET v == board.gpio IN
  /\ start.at = "gpio_init"
  /\ gpio' = CASE v.stores[start.step] = "or"  -> [gpio EXCEPT !.or = PinsOf(v.or), !.held = PinsOf(v.or)]
               [] v.stores[start.step] = "os"  -> [gpio EXCEPT !.plain = PlainPins(v.os)]
               [] v.stores[start.step] = "tcr" -> [gpio EXCEPT !.tcr = PinsOf(v.tcr)]
  /\ IF start.step = 3 THEN Return ELSE Step
  /\ UNCHANGED <<ebiu, sdram, uic>>

ChipControl ==
  /\ start.at = "chip_control_init"
  /\ uic' = [on |-> {}, edge |-> board.edge]
  /\ Return /\ UNCHANGED <<ebiu, sdram, gpio>>

(* misc_init_f, when start.S has called all, and then initdram. *)
MiscInit ==
  LET m == board.misc[start.step] IN
  /\ start.at = "start.S" /\ start.todo = {} /\ start.step <= Len(board.misc)
  /\ Step
  /\ gpio' = CASE m.op = "low"  -> [gpio EXCEPT !.or = @ \ {m.at}]
               [] m.op = "high" -> [gpio EXCEPT !.or = @ \cup {m.at}]
               [] OTHER         -> gpio
  /\ UNCHANGED <<ebiu, sdram, uic>>

InitDram ==
  /\ start.at = "start.S" /\ start.todo = {} /\ start.step > Len(board.misc)
  /\ start' = [start EXCEPT !.at = "ready", !.dram = board.dram]
  /\ UNCHANGED <<ebiu, sdram, gpio, uic>>

(* ide_preinit takes the bank's address from its register. *)
IdePreinit ==
  /\ start.at = "ready" /\ "ide" \in config.drivers
  /\ start' = [start EXCEPT !.ide = ebiu[3].base]
  /\ UNCHANGED <<ebiu, sdram, gpio, uic>>

(* gpio_out and gpio_in of the pins mmc.c drives, and of the one usb_main reads. *)
MmcOut == {9, 10, 12}
MmcIn  == 11

gpio_out(pin, level) ==
  /\ gpio' = [gpio EXCEPT !.or = IF level = "high" THEN @ \cup {pin} ELSE @ \ {pin},
                          !.tcr = @ \cup {pin},
                          !.moved = [p \in DOMAIN @ \cup {pin} |-> IF p = pin THEN level ELSE @[p]]]
  /\ UNCHANGED <<start, ebiu, sdram, uic>>

gpio_in(pin) ==
  /\ gpio' = [gpio EXCEPT !.tcr = @ \ {pin},
                          !.moved = [p \in DOMAIN @ \cup {pin} |-> IF p = pin THEN "in" ELSE @[p]]]
  /\ UNCHANGED <<start, ebiu, sdram, uic>>

DrivePin ==
  /\ start.at = "ready"
  /\ \/ "mmc" \in config.drivers /\ \E p \in MmcOut, l \in {"high", "low"} : gpio_out(p, l)
     \/ "mmc" \in config.drivers /\ gpio_in(MmcIn)
     \/ config.suspend # -1 /\ gpio_in(config.suspend)

(* The start of usb_client_main: its interrupt is made level-sensitive. *)
PDIUSB_IRQ == 26
UsbIrq ==
  /\ start.at = "ready" /\ config.suspend # -1
  /\ uic' = [on |-> uic.on \cup {PDIUSB_IRQ}, edge |-> uic.edge \ {PDIUSB_IRQ}]
  /\ UNCHANGED <<start, ebiu, sdram, gpio>>

Next ==
  \/ \E r \in Routines : Call(r)
  \/ WriteBank \/ SdramWrite \/ CommandDone \/ GpioStore \/ ChipControl
  \/ MiscInit \/ InitDram \/ IdePreinit \/ DrivePin \/ UsbIrq

Spec == Init /\ [][Next]_vars

---------------------------------------------------------------------------
StartOK ==
  /\ start.todo \subseteq Routines /\ start.at \in Routines \cup {"start.S", "ready"}
  /\ start.step \in 1..(Len(board.ram) + 8) /\ start.dram \in Int /\ start.ide \in Int
  /\ \A k \in 1..8 : ebiu[k] \in [base : 3840..4095, mb : {1, 2, 8, 16}, used : BOOLEAN]
  /\ \A k \in 1..4 : sdram[k] \in [base : Nat, mb : Nat, busy : BOOLEAN, on : BOOLEAN]
  /\ gpio.or \subseteq 0..31 /\ gpio.tcr \subseteq 0..31 /\ gpio.plain \subseteq 0..31
  /\ uic.on \subseteq 0..31 /\ uic.edge \subseteq 0..31

(* A machine that is ready has its flash, and the code that runs from it, behind the *)
(* first bank, and no address was ever behind two; every chip its drivers address   *)
(* is behind one bank.  The memory initdram reports was set up and enabled.  A pin   *)
(* a driver moves is not another function's and shows what was set - but for the     *)
(* card select of the relook210, which is USBACK's -; a reset misc_init_f releases   *)
(* had been asserted, but for the Ethernet's of the relook400s.  The environment,    *)
(* image, kernel and monitor do not overlap and are where set2set sends them from,   *)
(* and each command of the boot menu is in the environment.                          *)
Decodes(k, mb) == ebiu[k].used /\ mb >= ebiu[k].base /\ mb < ebiu[k].base + ebiu[k].mb
Behind(mb)     == {k \in 1..8 : Decodes(k, mb)}
Ready          == start.at = "ready"

BanksApart == Behind(\hFFF) = {1} /\ \A k \in 1..8 : ebiu[k].used => Behind(ebiu[k].base) = {k}

Addressed ==
  ({config.ethernet, config.usb, start.ide} \ {-1})
  \cup {m.at : m \in {x \in ToSet(board.misc) : x.op = "io"}}
AddressesDecoded == /\ Behind(\hFF8) = {1}
                    /\ \A mb \in Addressed : \E k \in 2..8 : Behind(mb) = {k}

MemoryEnabled ==
  \A mb \in 0..((start.dram - 1) \div 16) :
    \E k \in 1..4 : sdram[k].on /\ ~sdram[k].busy
                    /\ mb >= sdram[k].base /\ mb < sdram[k].base + sdram[k].mb

Shows(p, level) == CASE level = "in" -> p \notin gpio.tcr
                     [] level = "high" -> p \in gpio.tcr /\ p \in gpio.or
                     [] level = "low" -> p \in gpio.tcr /\ p \notin gpio.or
PinsMove ==
  \A p \in DOMAIN gpio.moved :
    (p \in gpio.plain \/ (config.board = "210" /\ p = 9)) /\ Shows(p, gpio.moved[p])

LastOf(pin) == {i \in DOMAIN board.misc : board.misc[i].at = pin
                                          /\ \A j \in (i + 1)..Len(board.misc) : board.misc[j].at # pin}
ResetsReleased ==
  \A p \in 0..31, i \in 1..Len(board.misc) :
    i \in LastOf(p) /\ board.misc[i].op \in {"low", "high"} =>
      /\ p \in gpio.plain /\ Shows(p, board.misc[i].op)
      /\ config.board # "400s" => (board.misc[i].op = "low" <=> p \in gpio.held)

FlashApart ==
  LET f == config.memory IN
  /\ f.env <= f.image /\ f.image < f.load /\ f.load < f.monitor /\ f.monitor + f.len = 8192
  /\ "menu_set2set" \in config.env =>
       ImageStart(config.board, 2) = f.load /\ ImageStart(config.board, 5) = f.monitor

DecodesAll ==
  /\ BanksApart
  /\ Ready => /\ AddressesDecoded /\ MemoryEnabled /\ PinsMove /\ ResetsReleased
              /\ FlashApart /\ MenuOf(config.board) \subseteq config.env
=============================================================================
