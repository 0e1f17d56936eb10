-------------------------------- MODULE Flash --------------------------------
(***************************************************************************)
(* The driver of the AMD-style flash of the ipbox boards                   *)
(* (board/ipbox/common/flash.c: flash_erase, write_buff, write_word), with *)
(* the two functions of U-Boot that call it.                               *)
(*                                                                         *)
(* The flash ends at the top of the address space.  Its unit, and the unit *)
(* of every address and size here, is the halfword the chip programs with  *)
(* one command; a cell holds the set of its bits that are 1.  Erasing sets *)
(* every bit of a sector, programming can only clear bits.  A word of the  *)
(* driver is two cells.  One step erases a sector or programs a cell.      *)
(***************************************************************************)
EXTENDS Integers, Sequences

CONSTANTS
    Space,       \* cells of the address space: addresses are modulo Space
    Start,       \* info->start: the first cell of every sector
    Bits,        \* bits of a cell
    D7,          \* the bits the chip is polled for
    Protections, \* sets of sectors that may be protected
    TornCells,   \* what an erase that did not end may leave in a cell
    Failures     \* TRUE: an erase or a program command may time out

Cell      == SUBSET Bits
Erased    == Bits
Sectors   == DOMAIN Start
FlashBase == Start[1]
Cells     == FlashBase .. Space - 1

SectorEnd(s) == IF s = Len(Start) THEN Space - 1 ELSE Start[s + 1] - 1
CellsOf(s)   == Start[s] .. SectorEnd(s)
SectorAt(c)  == CHOOSE s \in Sectors : c \in CellsOf(s)

ASSUME FlashConstants ==
    /\ Space \in Nat /\ Space % 2 = 0
    /\ Start \in Seq(Nat) /\ Len(Start) >= 1
    /\ \A s \in Sectors : Start[s] % 2 = 0 /\ Start[s] <= SectorEnd(s)
    /\ \A s, t \in Sectors : s < t => SectorEnd(s) < Start[t]
    /\ \A c \in Cells : \E s \in Sectors : c \in CellsOf(s)
    /\ D7 \in Bits
    /\ \A p \in Protections : p \subseteq Sectors
    /\ TornCells \subseteq Cell
    /\ Failures \in BOOLEAN

\* unsigned long: sums and differences of two addresses wrap.
Wrap(x) == IF x < 0 THEN x + Space ELSE IF x >= Space THEN x - Space ELSE x

VARIABLES
    protected,  \* info->protect: the sectors the chip refuses to change
    flash,      \* the chip
    op,         \* the driver call in progress, or what the last one returned
    failed      \* history: a command of the chip timed out in this burn

flashVars == <<protected, flash, op, failed>>

Returned(rc) == [kind |-> "returned", rc |-> rc]
EraseOp(s, t) == [kind |-> "erase", sect |-> s, last |-> t]
WriteOp(addr, src, half) == [kind |-> "write", at |-> addr, src |-> src, half |-> half]

FlashTypeOK ==
    /\ protected \in Protections
    /\ flash \in [Cells -> Cell]
    /\ \/ op \in [kind : {"returned"}, rc : 0 .. 2]
       \/ /\ op \in [kind : {"erase"}, sect : Sectors, last : Sectors]
          /\ op.sect <= op.last
       \/ /\ op \in [kind : {"write"}, at : Cells, src : Seq(Cell), half : 0 .. 1]
          /\ Len(op.src) \in 1 .. Space - op.at
    /\ failed \in BOOLEAN

-----------------------------------------------------------------------------
\* flash_sect_erase refuses a range that is not made of whole sectors.
CallErase(first, last) ==
    LET whole(s, t) == s <= t /\ Start[s] = first /\ SectorEnd(t) = last
    IN  \/ \E s, t \in Sectors : whole(s, t) /\ op' = EraseOp(s, t)
        \/ ~(\E s, t \in Sectors : whole(s, t)) /\ op' = Returned(1)

\* flash_write refuses a range outside the flash, and one it finds to touch a
\* protected sector; it drops what lies behind the end of the flash.  The end
\* of the last sector is address 0 to it, so that one is never found.  src is
\* the memory from the source on.
CallWrite(addr, cnt, src) ==
    LET end     == Wrap(addr + cnt - 1)
        inside  == addr \in Cells /\ end \in Cells
        refused == \E s \in protected : /\ s # Len(Start)
                                        /\ end >= Start[s] /\ addr <= SectorEnd(s)
        room    == Space - addr
        cells   == [i \in 1 .. (IF cnt < room THEN cnt ELSE room) |-> src[i]]
    IN  op' = CASE cnt = 0            -> Returned(0)
                [] ~inside \/ refused -> Returned(1)
                [] OTHER              -> WriteOp(addr, cells, 0)

-----------------------------------------------------------------------------
\* What a sector may hold after an erase that did not end.
Torn(s) == { [c \in Cells |-> IF c \in CellsOf(s) THEN v[c] ELSE flash[c]] :
                v \in [CellsOf(s) -> TornCells] }

\* A bug: the loop stops one sector early.
EraseEndEarly == IF op.sect + 1 >= op.last THEN Returned(0) ELSE EraseOp(op.sect + 1, op.last)
EraseEnd == IF op.sect = op.last THEN Returned(0) ELSE EraseOp(op.sect + 1, op.last)

\* One turn of flash_erase's loop.  It skips a protected sector, and goes on
\* whatever wait_for_DQ7 returns.
EraseSector ==
    /\ op.kind = "erase"
    /\ op' = EraseEnd
    /\ UNCHANGED protected
    /\ \/ op.sect \in protected /\ UNCHANGED <<flash, failed>>
       \/ /\ op.sect \notin protected
          /\ flash' = [c \in Cells |-> IF c \in CellsOf(op.sect) THEN Erased ELSE flash[c]]
          /\ UNCHANGED failed
       \/ /\ op.sect \notin protected
          /\ Failures
          /\ flash' \in Torn(op.sect)
          /\ failed' = TRUE

-----------------------------------------------------------------------------
\* write_buff cuts the range into words and completes the first and the last
\* word with what the flash holds.
Unaligned == op.at % 2 = 1
WordAt == IF Unaligned THEN op.at - 1 ELSE op.at
Taken  == IF Unaligned \/ Len(op.src) = 1 THEN 1 ELSE 2
Word   == CASE Unaligned          -> <<flash[op.at - 1], op.src[1]>>
            [] ~Unaligned /\ Taken = 1 -> <<op.src[1], flash[op.at + 1]>>
            [] OTHER               -> <<op.src[1], op.src[2]>>

\* write_word compares the word's first cell with the second half of the data.
LooksErased == Word[2] \subseteq flash[WordAt]
LooksErasedStrict == flash[WordAt] = Erased   \* a bug: rejects a cell that suits

NotErased ==
    /\ op.kind = "write" /\ op.half = 0 /\ ~LooksErased
    /\ op' = Returned(2)
    /\ UNCHANGED <<protected, flash, failed>>

\* The rest of the write after the word at hand.
WriteEnd ==
    IF Taken = Len(op.src) THEN Returned(0)
    ELSE WriteOp(op.at + Taken, SubSeq(op.src, Taken + 1, Len(op.src)), 0)

\* What a cell may hold when programming it was cut short.
Partly(old, new) == { v \in Cell : old \cap new \subseteq v /\ v \subseteq old }

\* write_word programs a cell and polls it for D7.
Program ==
    LET c    == WordAt + op.half
        old  == flash[c]
        data == Word[op.half + 1]
    IN  /\ op.kind = "write"
        /\ op.half = 0 => LooksErased
        /\ UNCHANGED protected
        /\ \E v \in Cell :
             /\ \/ SectorAt(c) \in protected /\ v = old /\ UNCHANGED failed
                \/ SectorAt(c) \notin protected /\ v = old \cap data /\ UNCHANGED failed
                \/ /\ SectorAt(c) \notin protected /\ Failures
                   /\ v \in Partly(old, data) /\ (D7 \in v) # (D7 \in data)
                   /\ failed' = TRUE
             /\ flash' = [flash EXCEPT ![c] = v]
             /\ op' = CASE (D7 \in v) # (D7 \in data) -> Returned(1)
                        [] (D7 \in v) = (D7 \in data) /\ op.half = 0
                                                      -> [op EXCEPT !.half = 1]
                        [] OTHER                      -> WriteEnd

FlashStep == EraseSector \/ NotErased \/ Program

\* What the chip may hold when the power goes: a command may be cut short.
AfterPowerLoss ==
    {flash}
      \cup (IF op.kind = "erase" /\ op.sect \notin protected THEN Torn(op.sect) ELSE {})
      \cup (IF op.kind = "write" /\ SectorAt(WordAt + op.half) \notin protected
                  /\ (op.half = 0 => LooksErased)
            THEN { [flash EXCEPT ![WordAt + op.half] = v] :
                     v \in Partly(flash[WordAt + op.half], Word[op.half + 1]) }
            ELSE {})
=============================================================================
