-------------------------------- MODULE Ide --------------------------------
(***************************************************************************)
(* Reading and writing an IDE disk block by block (ide_read, ide_write and *)
(* ide_wait of common/cmd_ide.c).  The driver polls the status of the      *)
(* drive and gives up after a time; the drive goes on with what it was     *)
(* given.  The drive is external: it may fail, be slow, or have been sent  *)
(* to sleep, when its first access takes longer than the driver waits for  *)
(* one that is awake.                                                      *)
(***************************************************************************)
EXTENDS Integers, Sequences

CONSTANTS
  Blocks,      \* of the disk
  Reach,       \* blocks that 28 bits tell apart
  MaxCount,    \* blocks of a call
  Builds,      \* whether CONFIG_LBA48 is set: a subset of BOOLEAN
  MaxFaults    \* failures and delays of the drive

IdeSizes ==
  /\ Blocks \in Nat \ {0} /\ Reach \in Nat \ {0} /\ MaxCount \in Nat
  /\ Builds \subseteq BOOLEAN /\ MaxFaults \in Nat

VARIABLES
  LBA48,    \* CONFIG_LBA48
  drive,    \* its status, the command it has, and whether it sleeps
  io,       \* the call: its arguments and variables
  written,  \* the block each block written since the call began was sent as
  troubles  \* history: failures and delays

vars == <<LBA48, drive, io, written, troubles>>

Lba  == 0..(Blocks - 1)
Command(k, b) == [kind |-> k, block |-> b, data |-> b]
NoCommand == Command("none", 0)

NoCall == [kind |-> "none", first |-> 0, cnt |-> 0, n |-> 0, place |-> "idle",
           pwrsave |-> FALSE, lba48 |-> FALSE, mem |-> <<>>,
           late |-> FALSE, unseen |-> FALSE]

Init ==
  /\ LBA48 \in Builds
  /\ drive = [status |-> "ready", cmd |-> NoCommand, asleep |-> FALSE]
  /\ io = NoCall
  /\ written = {}
  /\ troubles = 0

---------------------------------------------------------------------------
(* The drive: "busy", "drq", "ready" or "err".                             *)

Trouble == troubles < MaxFaults /\ troubles' = troubles + 1

Busy == drive.status = "busy"

(* A command given while the drive waits for data to be fetched or sent is  *)
(* taken, or ignored.  A drive that is busy takes none.                     *)
Give(kind, block) ==
  \/ /\ ~Busy
     /\ drive' = [drive EXCEPT !.status = "busy", !.cmd = Command(kind, block)]
  \/ /\ drive.status = "drq" /\ UNCHANGED drive

(* It is done with what it was given, or fails.  Nobody looks at the error of *)
(* a block after its data was sent.                                           *)
Finish ==
  /\ Busy
  /\ drive' = IF drive.cmd.kind \in {"read", "write"}
                THEN [drive EXCEPT !.status = "drq", !.asleep = FALSE]
                ELSE [drive EXCEPT !.status = "ready", !.cmd = NoCommand]
  /\ written' = IF drive.cmd.kind = "data"
                  THEN written \cup {<<drive.cmd.block, drive.cmd.data>>} ELSE written
  /\ UNCHANGED <<LBA48, io, troubles>>

Fail ==
  /\ Busy /\ Trouble
  /\ drive' = [drive EXCEPT !.status = "err", !.cmd = NoCommand]
  /\ io' = [io EXCEPT !.unseen = @ \/ drive.cmd.kind = "data"]
  /\ UNCHANGED <<LBA48, written>>

FallsAsleep ==
  /\ io.place = "idle" /\ drive.status \in {"ready", "err"} /\ ~drive.asleep
  /\ drive' = [drive EXCEPT !.asleep = TRUE]
  /\ UNCHANGED <<LBA48, written, io, troubles>>

---------------------------------------------------------------------------
(* The driver *)

(* ide_wait ends because its time is over.  A drive that sleeps takes longer *)
(* than that for an access, one that is awake may.                           *)
TimeOver(long) ==
  /\ Busy
  /\ IF drive.asleep /\ drive.cmd.kind \in {"read", "write"} /\ ~long
       THEN UNCHANGED troubles ELSE Trouble

Waited == ~Busy /\ UNCHANGED troubles

(* What the address of a block reaches: in 28 bits it wraps. *)
Reached(c, b) == IF c.lba48 THEN b ELSE b % Reach
Block == Reached(io, io.first + io.n)

Call(kind, first, cnt) ==
  /\ io.place = "idle"
  /\ io' = [NoCall EXCEPT !.kind = kind, !.first = first, !.cnt = cnt,
              !.lba48 = LBA48 /\ first >= Reach, !.late = Busy \/ drive.status = "drq",
              !.place = IF kind = "read" THEN "select" ELSE "loop"]
  /\ written' = {}
  /\ UNCHANGED <<LBA48, drive, troubles>>

Goes(place) == io' = [io EXCEPT !.place = place]

(* The drive is busy when it must not be: the call returns what it has done. *)
GivesUp ==
  /\ io.place \in {"select", "power", "loop", "answer"}
  /\ io.place = "loop" => io.n < io.cnt
  /\ TimeOver(io.place = "answer" /\ io.pwrsave)
  /\ Goes("returned")
  /\ UNCHANGED <<LBA48, written, drive>>

(* ide_read asks whether the drive sleeps ...                                *)
AsksPower ==
  /\ io.place = "select" /\ Waited
  /\ Give("power", 0) /\ Goes("power")
  /\ UNCHANGED <<LBA48, written>>

(* A mutant of PowerSave: a drive that sleeps is not waited for. *)
NeverSleeps == FALSE

(* ... and what it says, unless it does not know the command.                *)
PowerSave == drive.status # "err" /\ drive.asleep

HearsPower ==
  /\ io.place = "power" /\ Waited
  /\ io' = [io EXCEPT !.place = "loop", !.pwrsave = PowerSave]
  /\ UNCHANGED <<LBA48, written, drive>>

NextBlock ==
  /\ io.place = "loop" /\ io.n < io.cnt /\ Waited
  /\ Give(io.kind, Block)
  /\ Goes("answer")
  /\ UNCHANGED <<LBA48, written>>

(* Its data is fetched, or sent; the drive may not want it.  For data fetched *)
(* the model keeps the block it comes from.                                   *)
Fetched == IF drive.cmd.kind = "read" THEN drive.cmd.block ELSE -1

Answered ==
  /\ io.place = "answer" /\ Waited
  /\ IF drive.status # "drq"
       THEN Goes("returned") /\ UNCHANGED drive
       ELSE /\ io' = [io EXCEPT !.place = "loop", !.n = @ + 1, !.pwrsave = FALSE,
                        !.mem = IF io.kind = "read" THEN Append(@, Fetched) ELSE @]
            /\ drive' = IF io.kind = "write" /\ drive.cmd.kind = "write"
                          THEN [drive EXCEPT !.status = "busy", !.cmd.kind = "data",
                                             !.cmd.data = io.first + io.n]
                          ELSE [drive EXCEPT !.status = "ready", !.cmd = NoCommand]
  /\ UNCHANGED <<LBA48, written>>

AllDone ==
  /\ io.place = "loop" /\ io.n = io.cnt
  /\ Goes("returned")
  /\ UNCHANGED <<LBA48, written, drive, troubles>>

Returned ==
  /\ io.place = "returned" /\ io' = NoCall
  /\ UNCHANGED <<LBA48, written, drive, troubles>>

Next ==
  \/ \E k \in {"read", "write"}, b \in Lba, c \in 0..MaxCount :
       b + c <= Blocks /\ Call(k, b, c)
  \/ GivesUp \/ AsksPower \/ HearsPower \/ NextBlock \/ Answered
  \/ AllDone \/ Returned
  \/ Finish \/ Fail \/ FallsAsleep

Spec == Init /\ [][Next]_vars

---------------------------------------------------------------------------
(* Every variable has its type. *)
IdeTypeOK ==
  /\ LBA48 \in Builds /\ written \subseteq Lba \X Lba
  /\ drive.status \in {"busy", "drq", "ready", "err"} /\ drive.cmd.block \in Lba
  /\ io.n \in 0..io.cnt /\ io.cnt \in 0..MaxCount /\ troubles \in 0..MaxFaults

(* The blocks of a call that its addresses tell from the others. *)
Meant(i) == Reached(io, io.first + i) = io.first + i

(* ide_read, ide_write: the blocks a call counts are read from, or written   *)
(* to, where they were asked for, whatever the drive failed at or was late   *)
(* with; and a drive without trouble is read to the end, though it sleeps.   *)
(* The exceptions are a call that finds the drive at an earlier command,     *)
(* blocks that 28 bits do not reach of a call that begins below them, and a  *)
(* block the drive could not write; the last one may still be being written. *)
CountedIsDone ==
  io.place = "returned" /\ ~io.late =>
    /\ io.kind = "read" =>
         /\ \A i \in 0..(io.n - 1) : Meant(i) => io.mem[i + 1] = io.first + i
         /\ troubles = 0 => io.n = io.cnt
    /\ io.kind = "write" /\ ~io.unseen =>
         \A i \in 0..(io.n - 1) : \/ ~Meant(i)
                                  \/ <<io.first + i, io.first + i>> \in written
                                  \/ i = io.n - 1 /\ Busy
=============================================================================
