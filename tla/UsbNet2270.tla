---------------------------- MODULE UsbNet2270 ----------------------------
(***************************************************************************)
(* The USB upgrade on boards with a NET2270 (net2270/mainloop.c, net2270.c,*)
(* chap_9.c, and its branches of vendor.c).  Unlike with the other chip    *)
(* the interrupt handler carries out every request that brings no data,    *)
(* the end of a download among them; the main loop is left those with data *)
(* and then waits for a block inside the request.  The status phase of a   *)
(* request ends with the handler, before the main loop sees the request.   *)
(* read_fifo and send_fifo end by enabling interrupts, also inside the     *)
(* handler and before what was read is counted.  After a send_fifo nothing *)
(* comes that changes the state: no SETUP before the status phase is let   *)
(* in, and no more than the interrupt of a packet sent.                    *)
(* The host and the chip are external.                                     *)
(***************************************************************************)
EXTENDS Integers, Sequences, SequencesExt

CONSTANTS
  Files,        \* files a host may send
  Size,         \* their packets
  BlockSize,    \* packets of a block
  Room,         \* packets of the upgrade buffer, CFG_DGS_UPGRADE_BUFSIZE
  MaxRequests   \* requests of a host

NetSizes ==
  /\ Size \in [Files -> Nat \ {0}] /\ BlockSize \in Nat \ {0} /\ Room \in Nat
  /\ MaxRequests \in Nat /\ "none" \notin Files

VARIABLES
  chip,    \* a SETUP to be handled, whether OUT data and the status phase are
           \* let in, and the FIFOs of endpoints 0 and B
  isr,     \* net2270_interrupt: "idle", or the place it has come to
  ctl,     \* ControlData, setup_packet, whether control_state is USB_RECEIVE, and
           \* how many Ep0_Handlers have read a packet and not counted it
  main,    \* the main loop: "loop", "reading" a block, "counting" what it has
           \* read of it, or "burn"ing
  upg,     \* status, file_header, usb_current_block_size, and the buffer: its
           \* last "new" packets are those the main loop has not counted
  host,    \* its request, what it has sent of it, and of the download
  seen     \* history

vars == <<chip, isr, ctl, main, upg, host, seen>>

NoFile  == "none"
Junk    == BlockSize + 1     \* a size read from a file name
Depth   == 2                 \* the packets endpoint B holds

(* A request: its kind, the file of those with data, the size of a block. *)
Req(k, f, n) == [kind |-> k, file |-> f, size |-> n]
NoRequest == Req("none", NoFile, 0)
WithData  == {"header", "block"}
Chunks(k) == CASE k = "header" -> 2 [] k = "block" -> 1 [] OTHER -> 0
ToHost(k) == k \in {"config", "version", "status"}
Least(a, b) == IF a < b THEN a ELSE b

Init ==
  /\ chip = [setup |-> FALSE, open |-> FALSE, handshake |-> FALSE,
             out |-> <<>>, outIrq |-> FALSE, in |-> "none", bulk |-> <<>>]
  /\ isr = "idle"
  /\ ctl = [req |-> NoRequest, data |-> <<NoRequest, NoRequest>>, count |-> 0,
            setup |-> FALSE, receive |-> FALSE, outer |-> 0]
  /\ main = "loop"
  /\ upg = [status |-> "UNUSED", buf |-> <<>>, new |-> 0, header |-> NoFile, block |-> 0]
  /\ host = [req |-> NoRequest, chunk |-> 0, file |-> NoFile, sent |-> 0,
             block |-> 0, n |-> 0]
  /\ seen = [late |-> FALSE, overtaken |-> FALSE, abandoned |-> FALSE,
             early |-> FALSE, ahead |-> FALSE, refused |-> FALSE, file |-> NoFile,
             ended |-> 0, burnt |-> 0]

---------------------------------------------------------------------------
(* The host *)

HostIdle  == host.req = NoRequest
NextBlock == Least(BlockSize, Size[host.file] - host.sent)

(* It asks for anything between the blocks of a download, and may break a    *)
(* block off.  A block is announced when the one before it is sent.          *)
BreaksOff(kind) ==
  \/ kind \in {"header", "version", "end"} /\ host.block > 0
  \/ kind \in {"header", "end"} /\ host.file # NoFile /\ host.sent < Size[host.file]

ReadingBlock == main \in {"reading", "counting"}

Ask(kind, f) ==
  /\ HostIdle /\ ~chip.setup /\ host.n < MaxRequests
  /\ CASE kind = "header" -> f \in Files
       [] kind = "block"  -> /\ f = host.file /\ f # NoFile
                             /\ host.block = 0 /\ host.sent < Size[f]
       [] kind = "end"    -> f = host.file /\ f # NoFile
       [] kind = "config" -> f = NoFile /\ host.file = NoFile
       [] OTHER           -> f = NoFile
  /\ host' = [host EXCEPT !.chunk = 0, !.n = @ + 1,
                !.req = Req(kind, f, IF kind = "block" THEN NextBlock ELSE 0),
                !.file = CASE kind = "header" -> f [] kind = "end" -> NoFile
                           [] OTHER -> @,
                !.sent = IF kind = "header" THEN 0 ELSE @,
                !.block = CASE kind = "block" -> NextBlock
                            [] kind = "header" -> 0 [] OTHER -> @]
  /\ chip' = [chip EXCEPT !.setup = TRUE, !.open = FALSE, !.handshake = TRUE]
  /\ seen' = [seen EXCEPT
       !.abandoned = @ \/ BreaksOff(kind),
       !.overtaken = @ \/ ctl.setup \/ ctl.receive
                       \/ (kind = "header" /\ upg.status = "WRITE"),
       !.early = @ \/ (kind = "end" /\ (chip.bulk # <<>> \/ ReadingBlock)),
       !.ahead = @ \/ (kind = "block" /\ (chip.bulk # <<>> \/ ReadingBlock)),
       !.file = IF kind = "end" THEN f ELSE @,
       !.ended = IF kind = "end" THEN @ + 1 ELSE @]
  /\ UNCHANGED <<isr, ctl, main, upg>>

(* A packet of the data stage; it is refused until the handler lets it in. *)
SendChunk ==
  /\ host.chunk < Chunks(host.req.kind) /\ chip.open /\ chip.out = <<>>
  /\ chip' = [chip EXCEPT !.out = <<host.req>>, !.outIrq = TRUE]
  /\ host' = [host EXCEPT !.chunk = @ + 1]
  /\ UNCHANGED <<isr, ctl, main, upg, seen>>

(* The answer is read, and the status phase done. *)
Complete ==
  /\ ~HostIdle /\ ~chip.setup /\ ~chip.handshake
  /\ host.chunk = Chunks(host.req.kind)
  /\ ToHost(host.req.kind) => chip.in # "none"
  /\ host' = [host EXCEPT !.req = NoRequest]
  /\ chip' = [chip EXCEPT !.in = "none"]
  /\ UNCHANGED <<isr, ctl, main, upg, seen>>

SendBulk ==
  /\ HostIdle /\ host.block > 0 /\ Len(chip.bulk) < Depth
  /\ chip' = [chip EXCEPT !.bulk = Append(@, <<host.file, host.sent + 1>>)]
  /\ host' = [host EXCEPT !.sent = @ + 1, !.block = @ - 1]
  /\ UNCHANGED <<isr, ctl, main, upg, seen>>

---------------------------------------------------------------------------
(* The interrupt handler *)

(* send_fifo to endpoint 0 writes nothing while an answer is still there. *)
Answered(c, k) == [c EXCEPT !.in = IF @ = "none" THEN k ELSE @]
Released(c)    == [c EXCEPT !.handshake = FALSE]

Counted == Len(upg.buf) - upg.new     \* upg_buffer_len

(* upg_buffer_len is file_header.file_size: it and the packets are of one size *)
LengthIsRight == upg.header # NoFile /\ Counted = Size[upg.header]

(* download_completed *)
Completed ==
  [upg EXCEPT !.status = IF @ # "DOWNLOAD" THEN @
                         ELSE IF LengthIsRight THEN "WRITE" ELSE "UNUSED",
              !.block  = IF upg.status = "DOWNLOAD" THEN 0 ELSE @]

Descriptor == <<NoFile, 0>>

(* get_descriptor builds the configuration in the upgrade buffer. *)
Clobbered == [upg EXCEPT !.buf = IF @ = <<>> THEN @ ELSE [@ EXCEPT ![1] = Descriptor]]

(* The handler lets OUT packets in again; whether the chip drops a packet that   *)
(* nobody read is the chip's.                                                   *)
Entered(c) == {[c EXCEPT !.setup = FALSE, !.open = TRUE, !.outIrq = FALSE, !.out = o] :
                 o \in {c.out, <<>>}}

(* Setup_Packet_Handler, for a request without data.  GET_FLASH_STATUS leaves   *)
(* setup_packet alone.  The firmware version waits for a block in progress.     *)
SetupWithoutData ==
  /\ isr = "idle" /\ chip.setup /\ host.req.kind \notin WithData
  /\ LET k     == host.req.kind
         waits == k = "version" /\ upg.block > 0 /\ upg.status = "DOWNLOAD"
     IN /\ ctl' = [ctl EXCEPT !.req = host.req, !.count = 0,
                     !.setup = IF k = "status" THEN @ ELSE FALSE,
                     !.receive = IF k = "status" THEN @ ELSE FALSE]
        /\ upg' = CASE k = "end" -> Completed [] k = "config" -> Clobbered
                    [] OTHER -> upg
        /\ isr' = IF waits THEN "wait" ELSE "idle"
        /\ \E c \in Entered(chip) :
             LET a == IF ToHost(k) THEN Answered(c, k) ELSE c
             IN chip' = IF waits THEN a ELSE Released(a)
  /\ UNCHANGED <<main, host, seen>>

(* One with data: it lets the data in ...                                       *)
SetupWithData ==
  /\ isr = "idle" /\ chip.setup /\ host.req.kind \in WithData
  /\ chip' \in Entered(chip)
  /\ ctl' = [ctl EXCEPT !.req = host.req, !.count = 0, !.receive = TRUE]
  /\ isr' = "read"
  /\ UNCHANGED <<main, upg, host, seen>>

(* dataBuffer after read_fifo, which puts the packet behind what is counted.    *)
Received == [i \in 1..2 |-> IF i = ctl.count + 1 /\ chip.out # <<>>
                             THEN chip.out[1] ELSE ctl.data[i]]

(* ... and reads what has come by then, be it nothing: then interrupts are      *)
(* enabled, and the second packet of a header may come.  One that comes during  *)
(* read_fifo is taken as one that comes after it.                               *)
ReadFirst ==
  /\ isr = "read"
  /\ ctl' = [ctl EXCEPT !.data = Received]
  /\ chip' = [chip EXCEPT !.out = <<>>, !.outIrq = FALSE]
  /\ isr' = CASE chip.out = <<>> -> "none"
              [] ctl.req.kind = "header" /\ host.chunk = 1 -> "full"
              [] OTHER -> "short"
  /\ seen' = [seen EXCEPT !.late = @ \/ host.chunk = 0]
  /\ UNCHANGED <<main, upg, host>>

(* It counts the packet.  One that does not fill endpoint 0, or none at all,    *)
(* ends the data.  The interrupt of a packet that came meanwhile is cleared.    *)
CountFirst ==
  /\ isr \in {"none", "short", "full"}
  /\ ctl' = [ctl EXCEPT !.count = IF isr = "none" THEN @ ELSE @ + 1,
                        !.setup = IF isr = "full" THEN @ ELSE TRUE,
                        !.receive = isr = "full"]
  /\ chip' = Released([chip EXCEPT !.outIrq = FALSE])
  /\ isr' = "idle"
  /\ UNCHANGED <<main, upg, host, seen>>

(* Ep0_Handler.  A packet nobody waits for stays in the FIFO.  An interrupt for  *)
(* a packet sent changes nothing: no answer fills a packet, so none goes on.     *)
Ep0Received ==
  /\ isr = "idle" /\ ~chip.setup /\ chip.outIrq
  /\ IF ctl.receive
       THEN /\ ctl' = [ctl EXCEPT !.data = Received, !.outer = @ + 1]
            /\ chip' = [chip EXCEPT !.outIrq = FALSE, !.out = <<>>]
       ELSE UNCHANGED ctl /\ chip' = [chip EXCEPT !.outIrq = FALSE]
  /\ UNCHANGED <<isr, main, upg, host, seen>>

(* The status phase is over by then, and the handler of the next SETUP may run   *)
(* before the packet, which is never a full one, is counted.                     *)
Ep0Counts ==
  /\ isr = "idle" /\ ~chip.setup /\ ~chip.outIrq /\ ctl.outer > 0
  /\ ctl' = [ctl EXCEPT !.count = Least(2, @ + 1), !.setup = TRUE, !.receive = FALSE,
                        !.outer = @ - 1]
  /\ UNCHANGED <<chip, isr, main, upg, host, seen>>

Interrupt == \/ SetupWithoutData \/ SetupWithData \/ ReadFirst \/ CountFirst
             \/ Ep0Received \/ Ep0Counts
InterruptDue == isr # "idle" \/ chip.setup \/ chip.outIrq \/ ctl.outer > 0

---------------------------------------------------------------------------
(* A mutant of Rest: what was read is not counted. *)
NotCounted(n) == upg.block

(* usb_current_block_size when n packets are counted *)
Rest(n) == upg.block - n

(* read_main_data: it calls itself until the block is there.  One reading takes *)
(* all the FIFO holds.                                                          *)
CanRead == upg.status = "DOWNLOAD" /\ (chip.bulk # <<>> \/ upg.block <= 0)

(* The buffer when a reading has put the packets behind what is counted.        *)
Old  == <<NoFile, 1>>
Laid ==
  [i \in 1..(Len(upg.buf) + Len(chip.bulk)) |->
     CASE i \in Counted + 1 .. Counted + Len(chip.bulk) -> chip.bulk[i - Counted]
       [] i > Counted + Len(chip.bulk) /\ i > Len(upg.buf) -> Old
       [] OTHER -> upg.buf[i]]

IsrReads ==
  /\ isr = "wait" /\ CanRead
  /\ LET c    == [chip EXCEPT !.bulk = <<>>]
         rest == Rest(Len(chip.bulk))
     IN /\ upg' = [upg EXCEPT !.buf = Laid, !.block = rest]
        /\ IF rest > 0 THEN isr' = "wait" /\ chip' = c
                       ELSE isr' = "idle" /\ chip' = Released(c)
  /\ UNCHANGED <<ctl, main, host, seen>>

(* In the main loop too interrupts are let in between a reading ...             *)
MainReads ==
  /\ main = "reading" /\ ~InterruptDue /\ CanRead
  /\ upg' = [upg EXCEPT !.buf = @ \o chip.bulk, !.new = Len(chip.bulk)]
  /\ main' = "counting"
  /\ chip' = [chip EXCEPT !.bulk = <<>>]
  /\ UNCHANGED <<isr, ctl, host, seen>>

(* ... and its two counts, which are one step: between them too the handler     *)
(* finds a block that wants packets already taken.                              *)
MainCounts ==
  /\ main = "counting" /\ ~InterruptDue
  /\ upg' = [upg EXCEPT !.new = 0, !.block = Rest(upg.new)]
  /\ main' = IF Rest(upg.new) > 0 THEN "reading" ELSE "loop"
  /\ UNCHANGED <<chip, isr, ctl, host, seen>>

(* The download was ended by the handler in the meantime. *)
MainStopsReading ==
  /\ main = "reading" /\ ~InterruptDue /\ upg.status # "DOWNLOAD"
  /\ main' = "loop"
  /\ UNCHANGED <<chip, isr, ctl, upg, host, seen>>

(* control_handler: the request is the one of the latest SETUP, the data what   *)
(* dataBuffer holds.  The name of a file is in the first packet of a header,    *)
(* its size in the last one; a block has its size in front.                     *)
SizeInFront ==
  LET d == ctl.data[1]
  IN CASE d.kind = "block" -> d.size [] d.kind = "header" -> Junk [] OTHER -> 0

TooBig(f) == f # NoFile /\ Size[f] > Room

(* set_file_down_header keeps the header also of a file it refuses. *)
HeaderTaken(f) ==
  IF TooBig(f) THEN [upg EXCEPT !.header = f]
  ELSE [upg EXCEPT !.status = "DOWNLOAD", !.buf = <<>>, !.header = f]

(* A request without data comes here again if its SETUP came while an            *)
(* Ep0_Handler was counting, or if it asked for the status.  The configuration   *)
(* is stalled then.                                                              *)
Handle ==
  /\ main = "loop" /\ ~InterruptDue /\ ctl.setup
  /\ ctl' = [ctl EXCEPT !.setup = FALSE]
  /\ LET k == ctl.req.kind
         f == ctl.data[2].file
     IN /\ upg' = CASE k = "header" -> HeaderTaken(f)
                    [] k = "block"  -> [upg EXCEPT !.block = SizeInFront]
                    [] k = "end"    -> Completed
                    [] OTHER        -> upg
        /\ main' = IF /\ upg.status = "DOWNLOAD"
                      /\ k = "block" \/ (k = "version" /\ upg.block > 0)
                     THEN "reading" ELSE "loop"
        /\ chip' = IF k \in {"version", "status"} THEN Answered(chip, k) ELSE chip
        /\ seen' = [seen EXCEPT !.refused = @ \/ (k = "header" /\ TooBig(f))]
  /\ UNCHANGED <<isr, host>>

(* A mutant of ToBurn: a download in progress is burnt too. *)
BurnsUnfinished == upg.status # "UNUSED"

ToBurn == upg.status = "WRITE"

(* burn_flash, as far as this protocol sees it. *)
Burn ==
  /\ main = "loop" /\ ~InterruptDue /\ ~ctl.setup /\ ToBurn
  /\ main' = "burn"
  /\ seen' = [seen EXCEPT !.burnt = @ + 1]
  /\ UNCHANGED <<chip, isr, ctl, upg, host>>

BurnReturns ==
  /\ main = "burn" /\ ~InterruptDue
  /\ main' = "loop"
  /\ upg' = [upg EXCEPT !.status = "UNUSED"]
  /\ UNCHANGED <<chip, isr, ctl, host, seen>>

Main == MainReads \/ MainCounts \/ MainStopsReading \/ Handle \/ Burn \/ BurnReturns

Next ==
  \/ \E k \in {"config", "version", "status", "header", "block", "end"},
        f \in Files \cup {NoFile} : Ask(k, f)
  \/ SendChunk \/ Complete \/ SendBulk
  \/ Interrupt \/ IsrReads
  \/ Main

Spec == Init /\ [][Next]_vars

---------------------------------------------------------------------------
(* Every variable has its type.                                             *)
TypeOK ==
  /\ chip.setup \in BOOLEAN /\ chip.open \in BOOLEAN /\ chip.handshake \in BOOLEAN
  /\ Len(chip.out) <= 1 /\ Len(chip.bulk) <= Depth
  /\ isr \in {"idle", "read", "none", "short", "full", "wait"}
  /\ main \in {"loop", "reading", "counting", "burn"}
  /\ ctl.count \in 0..2 /\ ctl.setup \in BOOLEAN /\ ctl.receive \in BOOLEAN
  /\ ctl.outer \in 0..MaxRequests /\ upg.new \in 0..Depth
  /\ upg.status \in {"UNUSED", "DOWNLOAD", "WRITE"} /\ upg.block <= Junk
  /\ host.n \in 0..MaxRequests

Whole(f) == [i \in 1..Size[f] |-> <<f, i>>]

(* Setup_Packet_Handler, read_main_data, download_completed: what burn_flash *)
(* is given is the file whose end the host asked for, also when requests     *)
(* overtake each other and a handler runs between a reading and its count,   *)
(* or a header refused for its size came in between.                         *)
(* The exceptions are a download that was broken off, or whose end or next   *)
(* block came while packets were still in the chip, where they wait for the  *)
(* next download; a packet read before it had come; and a descriptor built   *)
(* over the file (BufferFree of UsbD12).  And a host that sends whole        *)
(* downloads of files that fit the buffer, and none of whose requests met    *)
(* one not yet handled, nor a burn not yet done, has each of them burnt.     *)
WholeFile ==
  /\ main = "burn" /\ ~seen.abandoned /\ ~seen.late /\ ~seen.early /\ ~seen.ahead
     /\ Descriptor \notin Range(upg.buf) =>
       seen.file # NoFile /\ upg.buf = Whole(seen.file)
  /\ /\ HostIdle /\ ~InterruptDue /\ ~ctl.setup /\ main = "loop" /\ upg.status # "WRITE"
     /\ ~seen.abandoned /\ ~seen.late /\ ~seen.overtaken /\ ~seen.early /\ ~seen.refused
     => seen.burnt = seen.ended

(* vendor.c:87, "why???": the interrupt handler waits for packets of a block  *)
(* that are not there only after a download was broken off, or when requests *)
(* came faster than the box handled them: data read too soon, overwritten,   *)
(* or counted to the block before; or when it runs between a reading of the   *)
(* main loop and its count, where it waits for packets already taken.         *)
IsrDoesNotWait ==
  isr = "wait" => \/ seen.abandoned \/ seen.late \/ seen.overtaken \/ seen.ahead
                  \/ main = "counting" \/ Len(chip.bulk) >= upg.block
=============================================================================
