------------------------------ MODULE MmcCard ------------------------------
(***************************************************************************)
(* board/ipbox/common/mmc.c: a memory card behind four pins, read and      *)
(* written in whole blocks.  mmc_read and mmc_write take any range: a      *)
(* block the range begins or ends in goes through mmc_buf.  The card is    *)
(* external: it may be pulled out or put in between two blocks, and refuse *)
(* any block, to be read or to be written; it is not busy for ever.  `at'  *)
(* is what each byte of the card, or of the caller's memory, was last      *)
(* written with during the call: "kept" stands for what it held before.    *)
(***************************************************************************)
EXTENDS Integers

CONSTANTS
  BlockSize,   \* MMC_BLOCK_SIZE
  Cards,       \* sizes of cards, in blocks
  MaxLen       \* bytes of a call

MmcSizes == /\ BlockSize \in Nat \ {0} /\ Cards \subseteq Nat \ {0}
            /\ \E n \in Cards : \A m \in Cards : m <= n
            /\ MaxLen \in Nat

VARIABLES
  card,    \* whether one is in, its size in blocks, whether it left idle
  mmc,     \* mmc_ready and mmc_size, in blocks
  io,      \* the call: kind, range, the address it has come to, place, result
  at       \* the card (mmc_write) or the caller's memory (mmc_read)

vars == <<card, mmc, io, at>>

Largest   == CHOOSE n \in Cards : \A m \in Cards : m <= n
Addresses == 0..(Largest * BlockSize - 1)
Kept      == -1      \* not written by this call
Wild      == -2      \* from behind the caller's buffer

NoIo == [kind |-> "none", from |-> 0, size |-> 0, cur |-> 0, place |-> "idle",
         ret |-> 0]
Nothing == [a \in Addresses |-> Kept]

Init ==
  /\ card \in {[in |-> TRUE, blocks |-> n, awake |-> FALSE] : n \in Cards}
  /\ mmc = [ready |-> FALSE, size |-> 0]
  /\ io = NoIo
  /\ at = Nothing

---------------------------------------------------------------------------
(* The range of a call *)

End          == io.from + io.size
PartStart    == io.from % BlockSize
PartEnd      == End % BlockSize
AlignedStart == io.from - PartStart
AlignedEnd   == End - PartEnd

(* A mutant of HeadLen: the part of the block before the range. *)
BeforeRange == PartStart

(* part_len: to the end of the block, be the range shorter or not. *)
HeadLen == BlockSize - PartStart

InCard(a) == card.in /\ card.awake /\ a < card.blocks * BlockSize

Returns(v) == io' = [io EXCEPT !.place = "returned", !.ret = v]

Change(c) == card' = c /\ UNCHANGED <<mmc, io, at>>

PullOut == card.in /\ Change([card EXCEPT !.in = FALSE, !.awake = FALSE])

PutIn   == \E n \in Cards :
             ~card.in /\ Change([in |-> TRUE, blocks |-> n, awake |-> FALSE])

---------------------------------------------------------------------------
(* mmc_init: without a card mmc_ready stays what it was.  A card that answers  *)
(* something else than idle is refused; one that is pulled out, or refuses the *)
(* next command, is waited for without an end.                                 *)
InitFails ==
  /\ io.place = "idle"
  /\ \E v \in {1, 2} :
       /\ v = 1 <=> ~card.in
       /\ io' = [NoIo EXCEPT !.kind = "init", !.place = "returned", !.ret = v]
  /\ UNCHANGED <<card, mmc, at>>

InitBegins ==
  /\ io.place = "idle" /\ card.in
  /\ io' = [NoIo EXCEPT !.kind = "init", !.place = "wakeup"]
  /\ UNCHANGED <<card, mmc, at>>

InitEnds ==
  /\ io.place = "wakeup"
  /\ \/ /\ card.in
        /\ card' = [card EXCEPT !.awake = TRUE]
        /\ mmc' = [ready |-> TRUE, size |-> card.blocks]
        /\ Returns(0)
     \/ /\ io' = [io EXCEPT !.place = "hung"]
        /\ card' = [card EXCEPT !.awake = FALSE]
        /\ UNCHANGED mmc
  /\ UNCHANGED at

---------------------------------------------------------------------------
(* mmc_read, mmc_write.  mmc2info lets a caller begin at any address of the    *)
(* card; where the range ends is looked at by nobody.                          *)
Call(kind, from, size) ==
  /\ io.place = "idle" /\ from < mmc.size * BlockSize
  /\ at' = Nothing
  /\ io' = [NoIo EXCEPT !.kind = kind, !.from = from, !.size = size, !.cur = from,
              !.place = IF size = 0 \/ ~mmc.ready THEN "returned" ELSE "head",
              !.ret = IF size # 0 /\ ~mmc.ready THEN -1 ELSE 0]
  /\ UNCHANGED <<card, mmc>>

(* mmc_bread: a reading of whole blocks, whose result is not looked at. *)
Bread(blk, n) == Call("read", blk * BlockSize, n * BlockSize)

(* MMC_wait_for_start_token counts its tries and does not look at the count, and *)
(* nobody looks at the answer before it: a card that is out, has no such block,  *)
(* refuses the command or sends the token of an error is waited for without end. *)
Hangs ==
  /\ io' = [io EXCEPT !.place = "hung"]
  /\ UNCHANGED <<card, mmc, at>>

(* n bytes of the block at a, from its byte i on, go to the place in the       *)
(* caller's memory the range has come to.                                      *)
Copied(a, i, n) ==
  LET to == io.cur - io.from
  IN [p \in Addresses |-> IF p \in to..(to + n - 1) THEN a + i + (p - to) ELSE at[p]]

(* The same for a block written: what the card holds of it afterwards.         *)
Stored(a, i, n) ==
  [p \in Addresses |->
     IF p \notin (a + i)..(a + i + n - 1) THEN at[p]
     ELSE LET s == io.cur - io.from + (p - a - i)
          IN IF s < io.size THEN s ELSE Wild]

(* Block a is read, and, for a write, written back.  A block the card does not *)
(* take ends the call with -1; one it does not send never comes.  A block that *)
(* is written as a whole is not read first.                                    *)
Moves(a, i, n, whole, next) ==
  \/ /\ InCard(a)
     /\ at' = IF io.kind = "read" THEN Copied(a, i, n) ELSE Stored(a, i, n)
     /\ io' = [io EXCEPT !.cur = @ + n, !.place = next]
     /\ UNCHANGED <<card, mmc>>
  \/ /\ io.kind = "write" /\ (InCard(a) \/ whole)
     /\ Returns(-1)
     /\ UNCHANGED <<card, mmc, at>>
  \/ (io.kind = "read" \/ ~whole) /\ Hangs

HeadBlock ==
  /\ io.place = "head"
  /\ IF PartStart = 0
       THEN io' = [io EXCEPT !.place = "body"] /\ UNCHANGED <<card, mmc, at>>
       ELSE Moves(AlignedStart, PartStart, HeadLen, FALSE, "body")

BodyBlock ==
  /\ io.place = "body" /\ io.cur < AlignedEnd
  /\ Moves(io.cur, 0, BlockSize, TRUE, "body")

TailBlock ==
  /\ io.place = "body" /\ io.cur >= AlignedEnd
  /\ PartEnd # 0 /\ io.cur < End
  /\ Moves(AlignedEnd, 0, PartEnd, FALSE, "done")

AllMoved ==
  /\ \/ io.place = "done"
     \/ io.place = "body" /\ io.cur >= AlignedEnd /\ (PartEnd = 0 \/ io.cur >= End)
  /\ Returns(0)
  /\ UNCHANGED <<card, mmc, at>>

Returned ==
  /\ io.place = "returned" /\ io' = NoIo
  /\ UNCHANGED <<card, mmc, at>>

Next ==
  \/ PullOut \/ PutIn
  \/ InitFails \/ InitBegins \/ InitEnds
  \/ \E k \in {"read", "write"}, a \in Addresses, n \in 0..MaxLen : Call(k, a, n)
  \/ \E b \in 0..(Largest - 1), n \in 1..Largest : n * BlockSize <= MaxLen /\ Bread(b, n)
  \/ HeadBlock \/ BodyBlock \/ TailBlock \/ AllMoved \/ Returned

Spec == Init /\ [][Next]_vars

---------------------------------------------------------------------------
(* Every variable has its type. *)
MmcTypeOK ==
  /\ card.blocks \in Cards /\ card.in \in BOOLEAN /\ card.awake \in BOOLEAN
  /\ mmc.ready \in BOOLEAN /\ mmc.size \in Cards \cup {0}
  /\ at \in [Addresses -> {Kept, Wild} \cup Addresses]
  /\ io.ret \in {-1, 0, 1, 2} /\ io.cur <= io.from + MaxLen + BlockSize

(* The range ends before the block does in whose middle it begins. *)
Short == PartStart # 0 /\ PartStart + io.size < BlockSize

(* The call has come to the block its range begins, or ends, in the middle of. *)
AtEdge == \/ PartStart # 0 /\ io.cur = io.from
          \/ PartEnd # 0 /\ io.cur = AlignedEnd

(* mmc_read, mmc_write: a call that returns 0 has moved every byte of its      *)
(* range to or from its own place, and none, be it refused half way, touched   *)
(* a byte outside: the bytes of a block that the range shares with others are  *)
(* written back as they were.  The exception are short ranges, which take the  *)
(* rest of their block with them.  A reading waits for ever for any block the  *)
(* card does not send, be the card out or in; a writing only for the block its *)
(* range begins or ends in the middle of, which is read first, so that one of  *)
(* whole blocks always returns.                                                *)
RangeIsMoved ==
  /\ io.kind \in {"read", "write"} /\ ~Short =>
       LET first == IF io.kind = "read" THEN 0 ELSE io.from
           shift == IF io.kind = "read" THEN io.from ELSE -io.from
       IN \A p \in Addresses :
            /\ at[p] \in {Kept, p + shift}
            /\ at[p] # Kept => p \in first..(first + io.size - 1)
            /\ io.place = "returned" /\ io.ret = 0 /\ p \in first..(first + io.size - 1)
                 => at[p] # Kept
  /\ io.place = "hung" /\ io.kind = "write" => AtEdge
=============================================================================
