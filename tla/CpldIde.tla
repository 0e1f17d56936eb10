------------------------------ MODULE CpldIde ------------------------------
(***************************************************************************)
(* board/dbox2/dbox2.c: the IDE adapter of the dbox2, a CPLD that makes    *)
(* the accesses to the drive by itself while the processor polls its FIFO  *)
(* of four words.  The CPLD runs beside the code: each of its accesses is  *)
(* a step of its own.  The processor takes two words with a read.          *)
(***************************************************************************)
EXTENDS Integers, Sequences

CONSTANTS
  Words,      \* `words' of input_data, in longs
  Ports,      \* the drive's registers
  MaxSlow     \* bound: accesses the drive makes wait

CpldSizes ==
  /\ Words \in Nat /\ Words > 2 /\ Words % 2 = 0 /\ MaxSlow \in Nat
  /\ "data" \notin Ports

VARIABLES
  bank,       \* chip select 2 is active
  avail,      \* cpld_avail
  ctrl,       \* the CPLD's control word
  fifo,       \* and its FIFO
  ata,        \* the drive: words given, the register written last
  call,       \* the call being made, with its place and `count'
  words,      \* what it has read
  slow        \* accesses waited for in vain

vars == <<bank, avail, ctrl, fifo, ata, call, words, slow>>

Depth == 4
Data  == "data"          \* the port with the words of a sector
Byte(port)  == <<"byte", port>>
Value(port) == <<"value", port>>
Word(n)     == <<"word", n>>

Idle == [on |-> FALSE, repeat |-> FALSE, writing |-> FALSE, port |-> Data]
Access(port, repeat, writing) ==
  [on |-> TRUE, repeat |-> repeat, writing |-> writing, port |-> port]

Call(op, port, place, count) == [op |-> op, port |-> port, place |-> place, count |-> count]
AtRest == call.place = "done"
Returns == call' = [call EXCEPT !.place = "done"]

Init ==
  /\ bank \in BOOLEAN /\ avail = FALSE
  /\ ctrl = Idle /\ fifo = <<>>
  /\ ata = [given |-> 0, written |-> "none"]
  /\ call = Call("none", Data, "done", 0)
  /\ words = <<>> /\ slow = 0

---------------------------------------------------------------------------
(* The CPLD: reads fill its FIFO, as long as it has room when they repeat; a *)
(* write empties it.                                                         *)
CpldReads ==
  /\ ctrl.on /\ ~ctrl.writing /\ Len(fifo) < Depth
  /\ IF ctrl.port = Data
       THEN /\ fifo' = Append(fifo, Word(ata.given + 1))
            /\ ata' = [ata EXCEPT !.given = @ + 1]
       ELSE fifo' = Append(fifo, Value(ctrl.port)) /\ UNCHANGED ata
  /\ ctrl' = [ctrl EXCEPT !.on = ctrl.repeat]
  /\ UNCHANGED <<bank, avail, call, words, slow>>

CpldWrites ==
  /\ ctrl.on /\ ctrl.writing /\ fifo # <<>>
  /\ ata' = [ata EXCEPT !.written = ctrl.port]
  /\ fifo' = Tail(fifo)
  /\ UNCHANGED <<bank, avail, ctrl, call, words, slow>>

---------------------------------------------------------------------------
(* ide_preinit: a bank that is active, its own from an earlier call included, is *)
(* not touched; detect_cpld empties the FIFO and resets the drive.               *)
PreinitFails == bank /\ UNCHANGED <<bank, avail, ctrl, fifo>>
Detected ==
  /\ ~bank
  /\ \E works \in BOOLEAN : bank' = works /\ avail' = works
  /\ fifo' = <<>> /\ ctrl' = Idle

Preinit ==
  /\ AtRest /\ (PreinitFails \/ Detected)
  /\ call' = Call("preinit", Data, "done", 0)
  /\ words' = <<>>
  /\ UNCHANGED <<ata, slow>>

(* ide_outb: the byte goes into the FIFO, and its port into the control word.  A *)
(* FIFO that is not empty is only reported.                                      *)
Outb(port) ==
  /\ AtRest /\ avail
  /\ ctrl' = Access(port, FALSE, TRUE)
  /\ fifo' = Append(fifo, Byte(port))
  /\ ata' = [ata EXCEPT !.written = "none"]
  /\ call' = Call("outb", port, "wait", 0)
  /\ words' = <<>>
  /\ UNCHANGED <<bank, avail, slow>>

(* wait_for_fifo_empty polls a thousand times, reports a failure and returns.    *)
FifoEmpty ==
  /\ call.op = "outb" /\ call.place = "wait" /\ fifo = <<>>
  /\ Returns
  /\ UNCHANGED <<bank, avail, ctrl, fifo, ata, words, slow>>

FifoTimeout ==
  /\ call.op = "outb" /\ call.place = "wait" /\ fifo # <<>>
  /\ slow < MaxSlow /\ Len(fifo) < Depth
  /\ slow' = slow + 1
  /\ Returns
  /\ UNCHANGED <<bank, avail, ctrl, fifo, ata, words>>

(* CPLD_IN(CPLD_READ_FIFO) *)
Taken == SubSeq(fifo, 1, IF Len(fifo) < 2 THEN Len(fifo) ELSE 2)
Left  == SubSeq(fifo, Len(Taken) + 1, Len(fifo))

(* ide_inb waits for a word without an end. *)
Inb(port) ==
  /\ AtRest /\ avail
  /\ ctrl' = Access(port, FALSE, FALSE)
  /\ call' = Call("inb", port, "wait", 0)
  /\ words' = <<>>
  /\ UNCHANGED <<bank, avail, fifo, ata, slow>>

InbReads ==
  /\ call.op = "inb" /\ call.place = "wait" /\ fifo # <<>>
  /\ words' = <<Head(fifo)>> /\ fifo' = Left
  /\ Returns
  /\ UNCHANGED <<bank, avail, ctrl, ata, slow>>

---------------------------------------------------------------------------
(* input_data: the CPLD reads ahead into its FIFO while words are taken from it, *)
(* and is stopped when the last four are there.                                  *)
Input ==
  /\ AtRest /\ avail
  /\ ctrl' = Access(Data, TRUE, FALSE)
  /\ ata' = [ata EXCEPT !.given = 0]
  /\ call' = Call("input", Data, "fill", 2 * Words)
  /\ words' = <<>>
  /\ UNCHANGED <<bank, avail, fifo, slow>>

Take(place) ==
  /\ words' = words \o Taken /\ fifo' = Left
  /\ call' = [call EXCEPT !.place = place]

(* A mutant of Full: the polls wait for a word, as ide_inb does. *)
NotEmpty == fifo # <<>>

Full == Len(fifo) = Depth

TakeFirst ==
  /\ call.place = "fill" /\ call.count > Depth /\ Full
  /\ Take("second")
  /\ UNCHANGED <<bank, avail, ctrl, ata, slow>>

TakeSecond ==
  /\ call.place = "second"
  /\ words' = words \o Taken /\ fifo' = Left
  /\ call' = [call EXCEPT !.place = "fill", !.count = @ - Depth]
  /\ UNCHANGED <<bank, avail, ctrl, ata, slow>>

Stop ==
  /\ call.place = "fill" /\ call.count <= Depth /\ Full
  /\ ctrl' = Idle
  /\ call' = [call EXCEPT !.place = "last"]
  /\ UNCHANGED <<bank, avail, fifo, ata, words, slow>>

TakeLast ==
  /\ call.place \in {"last", "end"}
  /\ Take(IF call.place = "last" THEN "end" ELSE "done")
  /\ UNCHANGED <<bank, avail, ctrl, ata, slow>>

(* output_data is empty: what ide_write hands over never reaches the drive. *)
Output ==
  /\ AtRest /\ avail
  /\ call' = Call("output", Data, "done", 0)
  /\ words' = <<>>
  /\ UNCHANGED <<bank, avail, ctrl, fifo, ata, slow>>

Next ==
  \/ CpldReads \/ CpldWrites
  \/ Preinit
  \/ \E port \in Ports : Outb(port) \/ Inb(port)
  \/ FifoEmpty \/ FifoTimeout \/ InbReads
  \/ Input \/ TakeFirst \/ TakeSecond \/ Stop \/ TakeLast
  \/ Output

Spec == Init /\ [][Next]_vars

---------------------------------------------------------------------------
(* Every register and place has its type; an adapter in use is selected. *)
CpldTypeOK ==
  /\ bank \in BOOLEAN /\ avail \in BOOLEAN /\ (avail => bank)
  /\ ctrl.port \in Ports \cup {Data} /\ Len(fifo) <= Depth
  /\ ata.given \in 0..(2 * Words + Depth) /\ slow \in 0..MaxSlow
  /\ call.place \in {"wait", "fill", "second", "last", "end", "done"}

(* ide_inb, ide_outb, input_data: each returns with its own access done and none  *)
(* besides: the register asked for, the port named, and the words of one sector   *)
(* in their order, with none read ahead and lost, though the CPLD reads on while  *)
(* the code takes words.  The exceptions: what follows an access that timed out,  *)
(* whose byte is still in the FIFO, and output_data.                              *)
SectorWhole ==
  AtRest /\ slow = 0 =>
    /\ fifo = <<>>
    /\ call.op = "inb"  => words = <<Value(call.port)>>
    /\ call.op = "outb" => ata.written = call.port
    /\ call.op = "input" =>
         words = [i \in 1..(2 * Words) |-> Word(i)] /\ ata.given = 2 * Words
=============================================================================
