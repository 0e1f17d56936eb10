---------------------------- MODULE IntelFlash ----------------------------
(***************************************************************************)
(* The drivers for Intel StrataFlash: board/dreambox/strataflash.c, and    *)
(* the Intel branches of board/dbox2/flash.c for the 28F640J3A; and the    *)
(* branches for AMD chips beside them.                                     *)
(* The chip is external.  An Intel one reads as its status register while  *)
(* it works, and until it is reset; while it works it takes no command.    *)
(* Unlocking one sector unlocks all of them.  An AMD one reads as its      *)
(* status while it works, and after an error, until it is reset, and till  *)
(* then takes no command; what it protects is fixed.  A command may fail,  *)
(* or take longer than the driver waits.  U-Boot's commands are the        *)
(* callers.                                                                *)
(* A byte is the set of its bits; an erased one has them all.              *)
(***************************************************************************)
EXTENDS Integers, FiniteSets

CONSTANTS
  Drivers,      \* "strata", "dbox2", "amd": the dbox2 with an AMD chip
  Sectors,      \* info->sector_count
  SectorBytes,  \* bytes of a sector
  Width,        \* info->portwidth
  Bits,         \* bits of a byte, "ready" among them
  MaxWrite,     \* bytes the callers write in one call
  MaxFaults     \* commands that fail or take long, and losses of power

FlashSizes ==
  /\ Drivers \subseteq {"strata", "dbox2", "amd"}
  /\ Sectors \in Nat \ {0} /\ Width \in Nat \ {0}
  /\ SectorBytes \in Nat \ {0} /\ SectorBytes % Width = 0
  /\ "ready" \in Bits /\ MaxWrite \in Nat /\ MaxFaults \in Nat

VARIABLES
  driver,   \* the board
  cells,    \* the flash, byte by byte
  locked,   \* the sectors the chip protects
  wsm,      \* what the chip still works at, and whether it reads as its status
  protect,  \* info->protect
  op,       \* the call that runs or ran last, and where it has come to
  faults    \* history: their number

vars == <<driver, cells, locked, wsm, protect, op, faults>>

Sects == 0..(Sectors - 1)
Bytes == 0..(Sectors * SectorBytes - 1)
Words == {b \in Bytes : b % Width = 0}
SectorOf(b) == b \div SectorBytes
WordOf(b)   == b - (b % Width)
InWord(w)   == w..(w + Width - 1)

(* A command of the chip: erase sectors, program a word, (un)lock a sector. *)
Command(k, at, d) == [kind |-> k, at |-> at, data |-> d]
NoCommand == Command("none", {}, <<>>)

(* A call: the range it works on, data for each byte of it, the next place,  *)
(* the value to return.  History: whether it met the chip at rest and what   *)
(* the chip had locked, and whether the driver passed over an error.         *)
Call(k, first, last, d) ==
  [kind |-> k, first |-> first, last |-> last, data |-> d, at |-> first,
   ret |-> 0, place |-> "run", unseen |-> FALSE, before |-> locked,
   clean |-> wsm.work = NoCommand /\ ~wsm.status /\ protect = locked]

NoCall == [kind |-> "none", first |-> 0, last |-> 0, data |-> <<>>, at |-> 0,
           ret |-> 0, place |-> "idle", unseen |-> FALSE, before |-> {},
           clean |-> TRUE]

Init ==
  /\ driver \in Drivers
  /\ cells = [b \in Bytes |-> Bits]
  /\ locked \in IF driver = "amd" THEN SUBSET Sects ELSE { {} }
  /\ protect = {}
  /\ wsm = [work |-> NoCommand, status |-> FALSE]
  /\ op = NoCall
  /\ faults = 0

---------------------------------------------------------------------------
(* The chip *)

Read(b) == IF ~wsm.status THEN cells[b]
           ELSE IF wsm.work = NoCommand THEN {"ready"} ELSE {}

Reaches(x) == CASE x.kind = "erase"   -> {b \in Bytes : SectorOf(b) \in x.at}
                [] x.kind = "program" -> UNION {InWord(w) : w \in x.at}
                [] OTHER              -> {}

CellsAfter(x) == [b \in Bytes |->
  IF b \notin Reaches(x) \/ SectorOf(b) \in locked THEN cells[b]
  ELSE IF x.kind = "erase" THEN Bits ELSE cells[b] \cap x.data[b]]

LockedAfter(x) == CASE x.kind = "lock"   -> locked \cup x.at
                    [] x.kind = "unlock" -> {}
                    [] OTHER             -> locked

Allowed(x) == x.kind \in {"erase", "program"} => SectorOf(CHOOSE b \in Reaches(x) : TRUE) \notin locked

(* A command that fails has done some of its work, or none. *)
Does(x)      == cells' = CellsAfter(x) /\ locked' = LockedAfter(x)
DoesSome(x) ==
  \E part \in {{}, {CHOOSE b \in Reaches(x) \cup {-1} : TRUE}} :
    /\ cells' = [b \in Bytes |-> IF b \in part THEN CellsAfter(x)[b] ELSE cells[b]]
    /\ locked' \in {locked, LockedAfter(x)}

AtRest == wsm' = [work |-> NoCommand, status |-> FALSE]

(* A chip that works is not reset. *)
ResetBank == IF wsm.work = NoCommand THEN AtRest ELSE UNCHANGED wsm

(* write_buff: the word at w, filled up with what the flash reads as. *)
WordData(w) == [b \in InWord(w) |-> IF b \in op.first..op.last THEN op.data[b]
                                                               ELSE Read(b)]

(* A mutant: whether the word is erased is not looked at. *)
AlwaysErased(w) == TRUE

ErasedEnough(w) == \A b \in InWord(w) : WordData(w)[b] \subseteq Read(b)

(* The sectors still to be locked again by flash_real_protect. *)
ToLock == {s \in protect : s >= op.at}
NextToLock == CHOOSE s \in ToLock : \A t \in ToLock : s <= t

Runs(k) == op.place = "run" /\ op.kind = k

(* One sector of an Intel chip, all of an AMD one. *)
ToErase == (IF driver = "amd" THEN op.first..op.last ELSE {op.at}) \ protect

(* The command a call gives next. *)
Given ==
  CASE op.place = "relock" /\ ToLock # {}
         -> Command("lock", {NextToLock}, <<>>)
    [] Runs("write") /\ ErasedEnough(WordOf(op.at))
         -> Command("program", {WordOf(op.at)}, WordData(WordOf(op.at)))
    [] Runs("erase") /\ op.at <= op.last /\ ToErase # {}
         -> Command("erase", ToErase, <<>>)
    [] \/ Runs("lock") /\ driver # "amd"
       \/ Runs("unlock") /\ (driver = "strata" \/ (driver = "dbox2" /\ op.at \in locked))
         -> Command(op.kind, {op.at}, <<>>)
    [] OTHER -> NoCommand

(* A chip that still works ignores what is given. *)
Takes == wsm.work = NoCommand /\ (driver = "amd" => ~wsm.status)
Work  == IF Takes THEN Given ELSE wsm.work

(* The command is given, and the status register polled: "ok" when the chip   *)
(* is ready without an error, be it from the work it had before.             *)
Poll(result) ==
  \/ /\ result = "ok" /\ Allowed(Work)
     /\ Does(Work) /\ AtRest /\ UNCHANGED faults
  \/ /\ result = "error"
     /\ IF Allowed(Work) THEN faults < MaxFaults /\ faults' = faults + 1
                         ELSE UNCHANGED faults
     /\ DoesSome(Work) /\ AtRest
  \/ /\ result = "timeout" /\ faults < MaxFaults /\ Allowed(Work)
     /\ faults' = faults + 1
     /\ wsm' = [work |-> Work, status |-> TRUE] /\ UNCHANGED <<cells, locked>>

(* Nothing is given: the chip ends its work between the calls. *)
WorkEnds ==
  /\ wsm.work # NoCommand
  /\ Does(wsm.work)
  /\ wsm' = [work |-> NoCommand, status |-> wsm.status /\ driver # "amd"]
  /\ UNCHANGED <<driver, protect, op, faults>>

---------------------------------------------------------------------------
(* The calls *)

Begin(c) == /\ op.place = "idle" /\ op' = c
            /\ UNCHANGED <<driver, cells, locked, wsm, protect, faults>>

(* flash_erase *)
Erase == \E s \in Sects : \E t \in s..(Sectors - 1) : Begin(Call("erase", s, t, <<>>))

(* flash_write, of U-Boot, refuses a range with a protected sector. *)
Write == \E a \in Bytes : \E z \in a..(a + MaxWrite - 1) \cap Bytes :
           /\ \A b \in a..z : SectorOf(b) \notin protect
           /\ \E d \in [a..z -> {{}, Bits}] : Begin(Call("write", a, z, d))

(* flash_real_protect *)
Protect   == \E s \in Sects : Begin(Call("lock", s, s, <<>>))
Unprotect == \E s \in Sects : Begin(Call("unlock", s, s, <<>>))

Results == {"ok", "error", "timeout"}

(* The driver of the dbox2 looks at no error bit. *)
Good(result) == result = "ok" \/ (driver = "dbox2" /\ result = "error")

Passed(result) == [op EXCEPT !.unseen = @ \/ result # "ok"]
GoesOn(o, n)   == op' = [o EXCEPT !.at = n]
Returns(o, v)  == op' = [o EXCEPT !.place = "returned", !.ret = v]

Returned == /\ op.place = "returned" /\ op' = NoCall
            /\ UNCHANGED <<driver, cells, locked, wsm, protect, faults>>

(* After an error the driver of the dreambox goes on, the other returns. *)
EraseSector ==
  /\ Runs("erase") /\ driver # "amd" /\ op.at <= op.last
  /\ IF op.at \in protect
       THEN GoesOn(op, op.at + 1) /\ UNCHANGED <<cells, locked, wsm, faults>>
       ELSE \E r \in Results :
              /\ Poll(r)
              /\ IF Good(r) THEN GoesOn(Passed(r), op.at + 1)
                 ELSE IF driver = "strata" THEN GoesOn([op EXCEPT !.ret = 1], op.at + 1)
                 ELSE Returns(op, 1)
  /\ UNCHANGED <<driver, protect>>

EraseReturns ==
  /\ Runs("erase") /\ driver # "amd" /\ op.at > op.last
  /\ Returns(op, op.ret)
  /\ IF driver = "dbox2" THEN ResetBank ELSE UNCHANGED wsm
  /\ UNCHANGED <<driver, cells, locked, protect, faults>>

(* write_buff: the next word, if the range goes on behind w. *)
NextWord(o, w) == IF w + Width > o.last THEN Returns(o, 0) ELSE GoesOn(o, w + Width)

(* A word that is not erased enough ends the call with 2. *)
WriteWord ==
  LET w == WordOf(op.at)
  IN /\ Runs("write") /\ driver # "amd"
     /\ IF ~ErasedEnough(w)
          THEN Returns(op, 2) /\ UNCHANGED <<cells, locked, wsm, faults>>
          ELSE \E r \in Results :
                 /\ Poll(r)
                 /\ IF Good(r) THEN NextWord(Passed(r), w) ELSE Returns(op, 1)
     /\ UNCHANGED <<driver, protect>>

(* The dbox2 waits for the locks without a timeout, and reads them again. *)
LockSector ==
  /\ Runs("lock") /\ driver # "amd"
  /\ \E r \in Results :
       /\ driver = "dbox2" => r # "timeout"
       /\ Poll(r)
       /\ protect' = IF driver = "dbox2" THEN (protect \ {op.at}) \cup (locked' \cap {op.at})
                     ELSE IF r = "ok" THEN protect \cup {op.at} ELSE protect
       /\ Returns(Passed(r), IF Good(r) THEN 0 ELSE 1)
  /\ UNCHANGED driver

(* The dreambox: what else was locked is locked again, sector by sector, and  *)
(* whether that succeeds is not looked at.                                    *)
UnlockSector ==
  /\ Runs("unlock") /\ driver = "strata"
  /\ \E r \in Results :
       /\ Poll(r)
       /\ IF r = "ok"
            THEN /\ protect' = protect \ {op.at}
                 /\ op' = [op EXCEPT !.place = "relock", !.at = 0]
            ELSE Returns(op, 1) /\ UNCHANGED protect
  /\ UNCHANGED driver

Relock ==
  /\ op.place = "relock" /\ ToLock # {}
  /\ \E r \in Results : Poll(r) /\ GoesOn(Passed(r), NextToLock + 1)
  /\ UNCHANGED <<driver, protect>>

RelockReturns ==
  /\ op.place = "relock" /\ ToLock = {}
  /\ Returns(op, 0)
  /\ UNCHANGED <<driver, cells, locked, wsm, protect, faults>>

(* The dbox2: a sector that is not locked is left alone, and the others are   *)
(* taken to be unlocked with the one.                                         *)
UnlockAll ==
  /\ Runs("unlock") /\ driver = "dbox2"
  /\ IF Work = NoCommand
       THEN AtRest /\ UNCHANGED <<cells, locked, faults>> /\ Returns(op, 0)
       ELSE \E r \in {"ok", "error"} : Poll(r) /\ Returns(Passed(r), 0)
  /\ protect' = locked'
  /\ UNCHANGED driver

(* flash_print_info, for flinfo, reads the locks again; a chip that still works *)
(* answers with its status, for every sector, and its bits mean nothing then.   *)
ReadLocks ==
  /\ op.place = "idle" /\ driver = "dbox2"
  /\ IF wsm.work = NoCommand THEN protect' = locked ELSE protect' \in {{}, protect, Sects}
  /\ ResetBank
  /\ UNCHANGED <<driver, cells, locked, op, faults>>

---------------------------------------------------------------------------
(* The branches for AMD chips, which look at no status.  A chip that takes the *)
(* command carries it out; or it is late, or ends with an error and waits to   *)
(* be reset, and the driver polls until its time is over.                      *)
Timed(late) ==
  \/ ~late /\ Does(Given) /\ AtRest /\ UNCHANGED faults
  \/ /\ late /\ faults < MaxFaults /\ faults' = faults + 1
     /\ \/ /\ wsm' = [work |-> Given, status |-> TRUE]
           /\ UNCHANGED <<cells, locked>>
        \/ wsm' = [work |-> NoCommand, status |-> TRUE] /\ DoesSome(Given)

(* flash_erase gives one command for all sectors, and waits until the last of *)
(* them reads as erased.  The status of a chip that is not at rest may read   *)
(* as anything.                                                               *)
EraseAll ==
  LET last == CHOOSE s \in ToErase : \A t \in ToErase : t <= s
  IN /\ Runs("erase") /\ driver = "amd"
     /\ \/ /\ ToErase = {} /\ ResetBank /\ Returns(op, 0)
           /\ UNCHANGED <<cells, locked, faults>>
        \/ /\ ToErase # {} /\ Takes
           /\ \E late \in BOOLEAN :
                /\ Timed(late)
                /\ Returns(op, IF ~late /\ \A b \in InWord(last * SectorBytes) : cells'[b] = Bits
                                 THEN 0 ELSE 1)
        \/ /\ ToErase # {} /\ ~Takes
           /\ \/ Returns(op, 0) /\ ResetBank
              \/ Returns(op, 1) /\ UNCHANGED wsm
           /\ UNCHANGED <<cells, locked, faults>>
     /\ UNCHANGED <<driver, protect>>

(* write_word polls D7 of each chip: that of the odd bytes. *)
SameD7(w) == \A b \in InWord(w) : b % 2 = 1 => ("ready" \in WordData(w)[b] <=> "ready" \in cells'[b])

ProgramWord ==
  LET w == WordOf(op.at)
  IN /\ Runs("write") /\ driver = "amd"
     /\ \/ /\ Takes /\ ErasedEnough(w)
           /\ \E late \in BOOLEAN :
                /\ Timed(late)
                /\ IF ~late /\ SameD7(w) THEN NextWord(op, w) ELSE Returns(op, 1)
        \/ /\ Takes => ~ErasedEnough(w)
           /\ \/ Returns(op, 2)
              \/ ~Takes /\ (NextWord(op, w) \/ Returns(op, 1))
           /\ UNCHANGED <<cells, locked, wsm, faults>>
     /\ UNCHANGED <<driver, protect>>

(* flash_real_protect leaves the chip alone. *)
NoteProtect ==
  /\ op.place = "run" /\ op.kind \in {"lock", "unlock"} /\ driver = "amd"
  /\ protect' = IF op.kind = "lock" THEN protect \cup {op.at} ELSE protect \ {op.at}
  /\ Returns(op, 0)
  /\ UNCHANGED <<driver, cells, locked, wsm, faults>>

---------------------------------------------------------------------------
(* Power is lost, be it in the middle of a command, and flash_init reads the  *)
(* locks again, but those of an AMD chip.                                     *)
PowerLoss ==
  /\ faults < MaxFaults /\ faults' = faults + 1
  /\ DoesSome(Work)
  /\ AtRest
  /\ protect' = IF driver = "amd" THEN {} ELSE locked'
  /\ op' = NoCall
  /\ UNCHANGED driver

Next ==
  \/ Erase \/ Write \/ Protect \/ Unprotect \/ Returned
  \/ EraseSector \/ EraseReturns \/ WriteWord
  \/ LockSector \/ UnlockSector \/ Relock \/ RelockReturns \/ UnlockAll
  \/ ReadLocks \/ EraseAll \/ ProgramWord \/ NoteProtect
  \/ WorkEnds \/ PowerLoss

Spec == Init /\ [][Next]_vars

---------------------------------------------------------------------------
(* Every variable has its type. *)
FlashTypeOK ==
  /\ driver \in Drivers /\ cells \in [Bytes -> SUBSET Bits]
  /\ locked \subseteq Sects /\ protect \subseteq Sects
  /\ op.place \in {"idle", "run", "relock", "returned"} /\ op.ret \in 0..2
  /\ op.at \in 0..(Sectors * SectorBytes) /\ faults \in 0..MaxFaults

(* flash_erase, write_buff ("0 - OK"), flash_real_protect: a call that met   *)
(* the chip at rest and returns 0 has done what it says, whatever earlier    *)
(* calls were cut short: the unprotected sectors are erased, the data is     *)
(* there, the lock is as asked, no other sector's lock is changed -- but the *)
(* dbox2 gives up all of them -- and info->protect agrees with the chip,     *)
(* unless it is an AMD one, which is not told.  Where info->protect did not  *)
(* agree nothing is promised.  Errors the drivers pass over are the          *)
(* exception: any of an Intel chip on the dbox2, and those of the locks      *)
(* given back on the dreambox.                                               *)
OkIsDone ==
  op.place = "returned" /\ op.ret = 0 /\ op.clean /\ ~op.unseen =>
    CASE op.kind = "erase"  -> \A b \in Bytes : SectorOf(b) \in (op.first..op.last) \ protect
                                                  => cells[b] = Bits
      [] op.kind = "write"  -> \A b \in op.first..op.last : cells[b] = op.data[b]
      [] op.kind = "lock"   -> /\ driver # "amd" => protect = locked
                               /\ protect = op.before \cup {op.first}
      [] op.kind = "unlock" -> /\ driver # "amd" => protect = locked
                               /\ protect = IF driver # "dbox2" \/ op.first \notin op.before
                                              THEN op.before \ {op.first} ELSE {}
      [] OTHER              -> TRUE
=============================================================================
