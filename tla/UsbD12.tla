------------------------------- MODULE UsbD12 -------------------------------
(***************************************************************************)
(* The USB upgrade of the boxes with a PDIUSBD12                           *)
(* (board/ipbox/common/pdiusbd12/ and vendor.c): the interrupt handler,    *)
(* the main loop, and a host that downloads files.                         *)
(*                                                                         *)
(* A request comes as a SETUP packet.  The handler reads it, and the data  *)
(* that follow it, into ControlData, and leaves the rest to the main loop, *)
(* except the question for the flash status, which it answers itself.      *)
(* Bulk packets it stores in the upgrade buffer.  The main loop answers,   *)
(* and burns the buffer when a download is completed.                      *)
(*                                                                         *)
(* A control packet holds PacketSize units of 8 bytes.  Each function that *)
(* disables interrupts, and each function of the handler, is one step.     *)
(***************************************************************************)
EXTENDS Integers, Sequences, FiniteSetsExt

CONSTANTS
    Files,       \* what hosts may download
    Size,        \* their sizes, in bulk packets
    BufSize,     \* CFG_DGS_UPGRADE_BUFSIZE, in bulk packets
    BlockSize,   \* bulk packets a host sends after one SET_FILE_DOWN
    LenBound,    \* bound of upg_buffer_len, beyond every size
    Hosts        \* the hosts there may be:
                 \*   files, what it downloads;
                 \*   kinds, requests its system makes besides the download's;
                 \*   wanted, for each descriptor, the lengths it may ask for;
                 \*   aborts, how many transfers it may give up

NoFile == "none"

ASSUME UsbConstants ==
    /\ Size \in [Files -> Nat \ {0}]
    /\ NoFile \notin Files
    /\ BufSize \in Nat \ {0} /\ BlockSize \in Nat \ {0}
    /\ LenBound \in Nat /\ BufSize < LenBound /\ \A f \in Files : Size[f] < LenBound
    /\ \A h \in Hosts :
          /\ h.files \subseteq Files
          /\ h.kinds \subseteq {"device", "config", "vendor", "short", "set", "clear", "reserved", "long"}
          /\ h.wanted \in [{"device", "config", "vendor"} -> SUBSET (Nat \ {0})]
          /\ h.aborts \in Nat

PacketSize == 2      \* EP0_PACKET_SIZE
MaxData    == 64     \* MAX_CONTROLDATA_SIZE
HeaderSize == 3      \* SET_FILE_DOWN_HEADER: a full packet and another one
FifoDepth  == 2      \* buffers of the bulk endpoint

Descriptor == [device |-> 3, config |-> 5, vendor |-> 2]    \* 18, 46 and 16 bytes
InBuffer   == {"config", "vendor"}       \* built in the upgrade buffer

Kinds == {"device", "config", "vendor", "short", "status", "reserved", "block",
          "set", "clear", "end", "long", "header"}
Request(kind, len, file) == [kind |-> kind, wLength |-> len, file |-> file]
GetDescriptor(h) ==
    UNION { { Request(k, n, NoFile) : n \in h.wanted[k] } : k \in DOMAIN Descriptor }
Requests ==
    (UNION { GetDescriptor(h) : h \in Hosts })
    \cup { Request(k, 1, NoFile) : k \in {"short", "status", "reserved", "block"} }
    \cup { Request(k, 0, NoFile) : k \in {"set", "clear", "end"} }
    \cup { Request("long", MaxData + 1, NoFile) }
    \cup { Request("header", HeaderSize, f) : f \in Files }
ToHost(q) == q.kind \in DOMAIN Descriptor \cup {"short", "status", "reserved"}

VARIABLES
    chip,    \* its endpoint buffers and interrupt register
    isr,     \* interrupts the running handler has read and not yet handled
    ctl,     \* ControlData, and of bEPPflags setup_packet and control_state
    main,    \* the main loop: its place, and the request it handles
    upg,     \* upgrade buffer: status, error number, length, contents, file_header
    host,    \* transfers of the host, and its download
    aborts,  \* number of transfers given up
    peer,    \* which of Hosts it is
    seen     \* history, see Init

vars == <<chip, isr, ctl, main, upg, host, aborts, peer, seen>>

Nothing    == <<>>
Foreign    == <<"descriptor">>
Contents   == { <<f, k>> : f \in Files, k \in 1 .. LenBound }
Interrupts == {"reset", "in", "out", "main"}
Statuses   == {"UNUSED", "DOWNLOAD", "ERASE", "WRITE"}
Answers    == {"", "idle", "error", "erase", "write", "unknown"}

NoPacket   == [setup |-> FALSE, len |-> -1]
Setup(q)   == [setup |-> TRUE, req |-> q]
Data(n, f) == [setup |-> FALSE, len |-> n, file |-> f]
\* A packet to the host: what it answers, and from which unit of the answer on.
Answer(kind, from, n, status) == [to |-> kind, from |-> from, len |-> n, status |-> status]

Packets ==
    {NoPacket} \cup [setup : {TRUE}, req : Requests]
               \cup [setup : {FALSE}, len : 0 .. PacketSize, file : Files \cup {NoFile}]
AnswerPackets ==
    {NoPacket} \cup [to : Kinds \cup {"junk"}, from : Nat, len : 0 .. PacketSize, status : Answers]

TypeOK ==
    /\ chip \in [out : Packets, in : AnswerPackets, locked : BOOLEAN, stall : BOOLEAN,
                 ints : SUBSET Interrupts, fifo : Seq(Contents)]
    /\ Len(chip.fifo) <= FifoDepth
    /\ isr \subseteq Interrupts \ {"reset"}
    /\ ctl \in [req : Requests, wLength : Nat, wCount : Nat, pData : DOMAIN Descriptor,
                file : Files \cup {NoFile}, setup : BOOLEAN, state : {"IDLE", "TRANSMIT", "RECEIVE"}]
    /\ main \in [pc : {"loop", "handle", "answer", "count", "state", "len", "size", "ack", "check",
                       "burn", "erase", "write", "burnt", "off"},
                 req : Requests, sent : 0 .. PacketSize]
    /\ upg \in [status : Statuses, errorno : 0 .. 1, len : 0 .. LenBound, header : Files \cup {NoFile},
                buf : [1 .. LenBound -> Contents \cup {Nothing, Foreign}]]
    /\ host \in [pc : {"idle", "send", "ack", "read", "status"}, req : Requests, count : Nat,
                 file : Files \cup {NoFile}, next : 1 .. LenBound, bulk : 0 .. BlockSize]
    /\ peer \in Hosts /\ aborts \in 0 .. peer.aborts
    /\ seen \in [handled : Nat, good : BOOLEAN, told : Answers, ended : Files \cup {NoFile},
                 burnt : Files \cup {NoFile}, raced : BOOLEAN, clobbered : BOOLEAN, refused : BOOLEAN]

NoRequest == Request("set", 0, NoFile)
Idle == [host EXCEPT !.pc = "idle", !.req = NoRequest, !.count = 0]

Init ==
    /\ chip = [out |-> NoPacket, in |-> NoPacket, locked |-> FALSE, stall |-> FALSE,
               ints |-> {}, fifo |-> <<>>]
    /\ isr = {}
    /\ ctl = [req |-> NoRequest, wLength |-> 0, wCount |-> 0, pData |-> "device",
              file |-> NoFile, setup |-> FALSE, state |-> "IDLE"]
    /\ main = [pc |-> "loop", req |-> NoRequest, sent |-> 0]
    /\ upg = [status |-> "UNUSED", errorno |-> 0, len |-> 0, header |-> NoFile,
              buf |-> [k \in 1 .. LenBound |-> Nothing]]
    /\ host = [pc |-> "idle", req |-> NoRequest, count |-> 0,
               file |-> NoFile, next |-> 1, bulk |-> 0]
    /\ aborts = 0 /\ peer \in Hosts
    /\ seen = [handled |-> 0,         \* how often the request in progress was handled
               good |-> TRUE,         \* its answer is its own, in order
               told |-> "",           \* flash status in its answer
               ended |-> NoFile,      \* a download acknowledged, with no error told since
               burnt |-> NoFile,      \* the file burnt since the last header
               raced |-> FALSE,       \* a control interrupt came in the middle of code_transmit,
                                      \* and the box was not at rest since
               clobbered |-> FALSE,   \* a descriptor went into the download's buffer
               refused |-> FALSE]     \* a file was too big

-----------------------------------------------------------------------------
\* D12_WriteEndpoint(1, ...): a SETUP packet that is not acknowledged locks the
\* buffer.
Put(c, p) == IF c.locked THEN c ELSE [c EXCEPT !.in = p]

\* A piece of the descriptor that pData points to; from the upgrade buffer it may
\* have been overwritten.
Piece(kind, from, n) ==
    Answer(IF kind \in InBuffer /\ upg.buf[1] # Foreign THEN "junk" ELSE kind, from, n, "")

\* fn_usb_isr: after a bus reset it looks at nothing else, for this time.
Interrupt ==
    /\ isr = {} /\ chip.ints # {} /\ main.pc # "off"
    /\ IF "reset" \in chip.ints
       THEN chip' = [chip EXCEPT !.ints = @ \ {"reset"}] /\ UNCHANGED isr
       ELSE isr' = chip.ints /\ UNCHANGED chip
    /\ seen' = [seen EXCEPT !.raced = @ \/ (main.pc \in {"count", "state"} /\ chip.ints # {"main"})]
    /\ UNCHANGED <<ctl, main, upg, host, aborts, peer>>

\* ep0_txdone
TxDone ==
    /\ "in" \in isr /\ isr' = isr \ {"in"}
    /\ LET i    == ctl.wLength - ctl.wCount
           n    == IF i < PacketSize THEN i ELSE PacketSize
           \* A negative length is a large one in an unsigned char.
           len  == IF n < 0 THEN PacketSize ELSE n
           chp  == [chip EXCEPT !.ints = @ \ {"in"}]
       IN  \/ /\ ctl.state # "TRANSMIT"
              /\ chip' = chp
              /\ UNCHANGED ctl
           \/ /\ ctl.state = "TRANSMIT"
              /\ chip' = Put(chp, Piece(ctl.pData, ctl.wCount, len))
              /\ ctl' = [ctl EXCEPT !.wCount = @ + n,
                                    !.state = IF i >= PacketSize THEN "TRANSMIT" ELSE "IDLE"]
    /\ UNCHANGED <<main, upg, host, aborts, peer, seen>>

\* GET_FLASH_STATUS in the handler.
NeverTellsError == IF upg.status = "UNUSED" THEN "idle" ELSE "write"
FlashStatus ==
    CASE upg.status = "UNUSED"   -> IF upg.errorno = 0 THEN "idle" ELSE "error"
      [] upg.status = "ERASE"    -> "erase"
      [] upg.status = "WRITE"    -> "write"
      [] upg.status = "DOWNLOAD" -> "unknown"

\* ep0_rxdone
Handler == "out" \in isr /\ "in" \notin isr /\ isr' = isr \ {"out"}
Received == [chip EXCEPT !.ints = @ \ {"out"}]
Taken == [Received EXCEPT !.out = NoPacket]
GotSetup(q, setup, state) ==
    [ctl EXCEPT !.req = q, !.wLength = q.wLength, !.wCount = 0, !.setup = setup, !.state = state]

RxSetup ==
    /\ Handler /\ chip.out.setup
    /\ LET q   == chip.out.req
           chp == [Taken EXCEPT !.locked = FALSE]
       IN  \/ /\ q.kind = "status"
              /\ ctl' = GotSetup(q, ctl.setup, ctl.state)
              /\ chip' = Put(chp, Answer("status", 0, 1, FlashStatus))
              /\ upg' = IF FlashStatus = "error" THEN [upg EXCEPT !.errorno = 0] ELSE upg
              /\ seen' = [seen EXCEPT !.handled = @ + 1]
           \/ /\ q.kind # "status" /\ (ToHost(q) \/ q.wLength = 0)
              /\ ctl' = GotSetup(q, TRUE, "IDLE")
              /\ chip' = chp
              /\ UNCHANGED <<upg, seen>>
           \/ /\ ~ToHost(q) /\ q.wLength > MaxData
              /\ ctl' = GotSetup(q, ctl.setup, "IDLE")
              /\ chip' = [chp EXCEPT !.stall = TRUE]
              /\ UNCHANGED <<upg, seen>>
           \/ /\ ~ToHost(q) /\ q.wLength \in 1 .. MaxData
              /\ ctl' = GotSetup(q, ctl.setup, "RECEIVE")
              /\ chip' = chp
              /\ UNCHANGED <<upg, seen>>
    /\ UNCHANGED <<main, host, aborts, peer>>

RxData ==
    /\ Handler /\ ~chip.out.setup
    /\ LET n == IF chip.out = NoPacket THEN 0 ELSE chip.out.len
           last == n # PacketSize \/ ctl.wCount + n >= ctl.wLength
       IN  \/ /\ ctl.state = "RECEIVE"
              /\ chip' = Taken
              /\ ctl' = [ctl EXCEPT !.wCount = @ + n,
                                    !.file = IF n = 0 THEN @ ELSE chip.out.file,
                                    !.setup = @ \/ last,
                                    !.state = IF last THEN "IDLE" ELSE @]
           \/ /\ ctl.state # "RECEIVE"
              /\ chip' = Received
              /\ ctl' = [ctl EXCEPT !.state = "IDLE"]
    /\ UNCHANGED <<main, upg, host, aborts, peer, seen>>

\* D12_ReadMainEndpoint: both buffers, when both are full.
ReadsOneOnly(fifo) == IF Len(fifo) = FifoDepth THEN 0 ELSE Len(fifo)
ReadMain(fifo) == Len(fifo)

\* main_rxdone.  Nothing compares the length with the buffer's.
MainRxDone ==
    /\ isr = {"main"} /\ isr' = {}
    /\ LET n   == ReadMain(chip.fifo)
           chp == [chip EXCEPT !.ints = @ \ {"main"}]
       IN  \/ /\ upg.status = "DOWNLOAD"
              /\ chip' = [chp EXCEPT !.fifo = SubSeq(@, n + 1, Len(@))]
              /\ upg' = [upg EXCEPT !.len = Min({@ + n, LenBound}),
                                    !.buf = [k \in DOMAIN @ |-> IF k - upg.len \in 1 .. n
                                                                THEN chip.fifo[k - upg.len] ELSE @[k]]]
           \/ /\ upg.status # "DOWNLOAD"
              /\ chip' = chp
              /\ UNCHANGED upg
    /\ UNCHANGED <<ctl, main, host, aborts, peer, seen>>

Isr == Interrupt \/ TxDone \/ RxSetup \/ RxData \/ MainRxDone

-----------------------------------------------------------------------------
\* The chip's interrupt is level sensitive: while one is pending the main loop
\* does not get to its next instruction.
Undisturbed == isr = {} /\ chip.ints = {}
At(place) == main.pc = place /\ Undisturbed
Goto(place) == main' = [main EXCEPT !.pc = place]

\* main_loop_function
LoopKeepsFlag == At("loop") /\ ctl.setup /\ Goto("handle") /\ UNCHANGED <<chip, isr, ctl, upg, host, aborts, peer, seen>>

Loop ==
    /\ At("loop") /\ ctl.setup
    /\ ctl' = [ctl EXCEPT !.setup = FALSE]
    /\ Goto("handle")
    /\ UNCHANGED <<chip, isr, upg, host, aborts, peer, seen>>

PowerKey ==
    /\ At("loop")
    /\ Goto("off")
    /\ host' = [Idle EXCEPT !.bulk = 0]
    /\ UNCHANGED <<chip, isr, ctl, upg, aborts, peer, seen>>

\* control_handler, with the part of each request up to the next moment at which
\* the handler of interrupts or the host can see a difference.
Dispatch(kinds, place) ==
    /\ At("handle") /\ ctl.req.kind \in kinds
    /\ main' = [main EXCEPT !.pc = place, !.req = ctl.req]
    /\ UNCHANGED <<isr, ctl, host, aborts, peer>>
Handled == [seen EXCEPT !.handled = @ + 1]

HandleShort ==
    /\ Dispatch({"short", "status", "set", "block"}, "ack")
    /\ seen' = Handled /\ UNCHANGED <<chip, upg>>

\* clear_feature returns at once, with no answer.
HandleClear ==
    /\ Dispatch({"clear"}, "check")
    /\ seen' = Handled /\ UNCHANGED <<chip, upg>>

HandleReserved ==
    /\ Dispatch({"reserved", "long"}, "check")
    /\ chip' = [chip EXCEPT !.stall = TRUE]
    /\ seen' = Handled /\ UNCHANGED upg

HandleDescriptor ==
    /\ Dispatch(DOMAIN Descriptor, "answer")
    /\ LET uses == ctl.req.kind \in InBuffer
       IN  /\ upg' = IF uses THEN [upg EXCEPT !.buf[1] = Foreign] ELSE upg
           /\ seen' = [Handled EXCEPT !.clobbered = @ \/ (uses /\ upg.status = "DOWNLOAD")]
    /\ UNCHANGED chip

TooBig(f) == f # NoFile /\ Size[f] > BufSize

\* set_file_down_header
HandleHeader ==
    \/ /\ Dispatch({"header"}, "ack") /\ TooBig(ctl.file)
       /\ upg' = [upg EXCEPT !.header = ctl.file]
       /\ seen' = [Handled EXCEPT !.refused = TRUE, !.burnt = NoFile]
       /\ UNCHANGED chip
    \/ /\ Dispatch({"header"}, "len") /\ ~TooBig(ctl.file)
       /\ upg' = [upg EXCEPT !.header = ctl.file, !.status = "DOWNLOAD"]
       /\ seen' = [Handled EXCEPT !.burnt = NoFile, !.clobbered = FALSE]
       /\ UNCHANGED chip

ResetLen ==
    /\ At("len") /\ Goto("ack")
    /\ upg' = [upg EXCEPT !.len = 0]
    /\ UNCHANGED <<chip, isr, ctl, host, aborts, peer, seen>>

\* download_completed
HandleEnd ==
    \/ /\ Dispatch({"end"}, "size") /\ upg.status = "DOWNLOAD"
       /\ upg' = [upg EXCEPT !.status = "WRITE"]
       /\ seen' = Handled /\ UNCHANGED chip
    \/ /\ Dispatch({"end"}, "ack") /\ upg.status # "DOWNLOAD"
       /\ seen' = Handled /\ UNCHANGED <<chip, upg>>

NoCheckOfSize == At("size") /\ Goto("ack") /\ UNCHANGED <<chip, isr, ctl, upg, host, aborts, peer, seen>>

CheckSize ==
    /\ At("size") /\ Goto("ack")
    /\ upg' = IF upg.header # NoFile /\ upg.len = Size[upg.header] THEN upg
              ELSE [upg EXCEPT !.status = "UNUSED"]
    /\ UNCHANGED <<chip, isr, ctl, host, aborts, peer, seen>>

\* single_transmit, and the flash status of vendor_req
SingleTransmit ==
    /\ At("ack") /\ Goto("check")
    /\ LET q == main.req
       IN  chip' = Put(chip, Answer(q.kind, 0, IF ToHost(q) THEN 1 ELSE 0,
                                    IF q.kind # "status" THEN ""
                                    ELSE IF upg.status = "UNUSED" THEN "idle" ELSE "write"))
    /\ UNCHANGED <<isr, ctl, upg, host, aborts, peer, seen>>

\* code_transmit: the first packet, the count, and only then the state.
PacketOf(n) == Min({n, PacketSize})

FirstPacket ==
    /\ At("answer")
    /\ LET n    == Min({ctl.wLength, Descriptor[main.req.kind]})
           sent == PacketOf(n)
       IN  /\ ctl' = [ctl EXCEPT !.wCount = 0, !.wLength = n, !.pData = main.req.kind]
           /\ main' = [main EXCEPT !.pc = "count", !.sent = sent]
           /\ chip' = Put(chip, Piece(main.req.kind, 0, sent))
    /\ UNCHANGED <<isr, upg, host, aborts, peer, seen>>

CountsNothing == At("count") /\ Goto("state") /\ UNCHANGED <<chip, isr, ctl, upg, host, aborts, peer, seen>>

CountPacket ==
    /\ At("count") /\ Goto("state")
    /\ ctl' = [ctl EXCEPT !.wCount = @ + main.sent]
    /\ UNCHANGED <<chip, isr, upg, host, aborts, peer, seen>>

ForgetsState == At("state") /\ Goto("check") /\ UNCHANGED <<chip, isr, ctl, upg, host, aborts, peer, seen>>

SetState ==
    /\ At("state") /\ Goto("check")
    /\ ctl' = [ctl EXCEPT !.state = IF main.sent = PacketSize THEN "TRANSMIT" ELSE "IDLE"]
    /\ UNCHANGED <<chip, isr, upg, host, aborts, peer, seen>>

\* The rest of a turn of the loop in usb_client_main.
Burns == upg.status = "WRITE"

Check ==
    /\ At("check")
    /\ main' = [pc |-> IF Burns THEN "burn" ELSE "loop",
                req |-> NoRequest, sent |-> 0]
    /\ UNCHANGED <<chip, isr, ctl, upg, host, aborts, peer, seen>>

-----------------------------------------------------------------------------
\* burn_flash, module BurnFlash, as far as the host can see.
Holds(f) == \A k \in 1 .. Size[f] : upg.buf[k] = <<f, k>>

BurnFails ==
    /\ main.pc \in {"burn", "erase", "write"} /\ Undisturbed
    /\ Goto("burnt")
    /\ upg' = [upg EXCEPT !.errorno = 1]
    /\ UNCHANGED <<chip, isr, ctl, host, aborts, peer, seen>>

BurnErase ==
    /\ At("burn") /\ \E f \in Files : Holds(f)
    /\ Goto("erase")
    /\ upg' = [upg EXCEPT !.status = "ERASE"]
    /\ UNCHANGED <<chip, isr, ctl, host, aborts, peer, seen>>

BurnWrite ==
    /\ At("erase") /\ Goto("write")
    /\ upg' = [upg EXCEPT !.status = "WRITE"]
    /\ UNCHANGED <<chip, isr, ctl, host, aborts, peer, seen>>

BurnDone ==
    /\ At("write") /\ Goto("burnt")
    /\ \E f \in Files : Holds(f) /\ seen' = [seen EXCEPT !.burnt = f]
    /\ UNCHANGED <<chip, isr, ctl, upg, host, aborts, peer>>

BurnReturns ==
    /\ At("burnt") /\ Goto("loop")
    /\ upg' = [upg EXCEPT !.status = "UNUSED"]
    /\ UNCHANGED <<chip, isr, ctl, host, aborts, peer, seen>>

Main ==
    \/ Loop \/ HandleShort \/ HandleClear \/ HandleReserved \/ HandleDescriptor \/ HandleHeader
    \/ ResetLen \/ HandleEnd \/ CheckSize \/ SingleTransmit \/ FirstPacket \/ CountPacket
    \/ SetState \/ Check \/ BurnFails \/ BurnErase \/ BurnWrite \/ BurnDone \/ BurnReturns

-----------------------------------------------------------------------------
\* The host.  Its system asks what it likes; its application downloads a file:
\* a header, blocks until all of it is sent, the end, and then questions for
\* the status.  It may end a download early, and begin again at any time.
Allowed(q) ==
    CASE q.kind = "block"  -> host.bulk = 0 /\ host.file # NoFile /\ host.next <= Size[host.file]
      [] q.kind = "end"    -> host.bulk = 0 /\ host.file # NoFile
      [] q.kind = "header" -> host.bulk = 0 /\ q.file \in peer.files
      [] q.kind = "status" -> host.bulk = 0
      [] q.kind \in DOMAIN Descriptor -> q.kind \in peer.kinds /\ q.wLength \in peer.wanted[q.kind]
      [] OTHER             -> q.kind \in peer.kinds

\* No interrupt is pending, and no answer is being sent.
AtRest == Undisturbed /\ main.pc \notin {"count", "state"} /\ ctl.state = "IDLE"

\* A SETUP packet is always taken.  It empties the buffer to the host, and locks
\* it till it is acknowledged.
NewRequest ==
    /\ host.pc = "idle" /\ main.pc # "off"
    /\ \E q \in { p \in Requests : Allowed(p) } :
          /\ chip' = [chip EXCEPT !.out = Setup(q), !.in = NoPacket, !.locked = TRUE,
                                  !.stall = FALSE, !.ints = @ \cup {"out"}]
          /\ host' = [host EXCEPT !.req = q, !.count = 0,
                                  !.pc = IF ToHost(q) THEN "read"
                                         ELSE IF q.wLength > 0 THEN "send" ELSE "ack",
                                  !.file = IF q.kind = "header" THEN NoFile ELSE @,
                                  !.next = IF q.kind = "header" THEN 1 ELSE @]
          /\ seen' = [seen EXCEPT !.handled = 0, !.good = TRUE, !.told = "", !.raced = @ /\ ~AtRest,
                                  !.ended = IF q.kind = "header" THEN NoFile ELSE @]
    /\ UNCHANGED <<isr, ctl, main, upg, aborts, peer>>

HostSend ==
    /\ host.pc = "send" /\ chip.out = NoPacket /\ ~chip.locked /\ ~chip.stall
    /\ LET n == Min({PacketSize, host.req.wLength - host.count})
       IN  /\ chip' = [chip EXCEPT !.out = Data(n, host.req.file), !.ints = @ \cup {"out"}]
           /\ host' = [host EXCEPT !.count = @ + n,
                                   !.pc = IF host.count + n = host.req.wLength THEN "ack" ELSE @]
    /\ UNCHANGED <<isr, ctl, main, upg, aborts, peer, seen>>

TakeIn == [chip EXCEPT !.in = NoPacket, !.ints = @ \cup {"in"}]

HostAck ==
    /\ host.pc = "ack" /\ chip.in # NoPacket
    /\ chip' = TakeIn
    /\ LET q == host.req
       IN  host' = CASE q.kind = "header" -> [Idle EXCEPT !.file = q.file, !.next = 1]
                     [] q.kind = "block"  -> [Idle EXCEPT !.bulk =
                                                Min({BlockSize, Size[host.file] - host.next + 1})]
                     [] q.kind = "end"    -> [Idle EXCEPT !.file = NoFile, !.next = 1]
                     [] OTHER             -> Idle
    /\ seen' = [seen EXCEPT !.ended = IF host.req.kind = "end" /\ host.next > Size[host.file]
                                     THEN host.file ELSE @]
    /\ UNCHANGED <<isr, ctl, main, upg, aborts, peer>>

HostRead ==
    /\ host.pc = "read" /\ chip.in # NoPacket
    /\ LET p == chip.in
       IN  /\ chip' = TakeIn
           /\ host' = [host EXCEPT !.count = @ + p.len,
                         !.pc = IF p.len < PacketSize \/ host.count + p.len >= host.req.wLength
                                THEN "status" ELSE @]
           /\ seen' = [seen EXCEPT !.told = p.status,
                         !.ended = IF p.status = "error" THEN NoFile ELSE @,
                         !.good = @ /\ p.to = host.req.kind /\ p.from = host.count]
    /\ UNCHANGED <<isr, ctl, main, upg, aborts, peer>>

HostStatus ==
    /\ host.pc = "status" /\ chip.out = NoPacket /\ ~chip.locked
    /\ chip' = [chip EXCEPT !.out = Data(0, NoFile), !.ints = @ \cup {"out"}]
    /\ host' = Idle
    /\ UNCHANGED <<isr, ctl, main, upg, aborts, peer, seen>>

HostStalled ==
    /\ host.pc # "idle" /\ chip.stall
    /\ host' = Idle
    /\ UNCHANGED <<chip, isr, ctl, main, upg, aborts, peer, seen>>

BulkSend ==
    /\ host.bulk > 0 /\ Len(chip.fifo) < FifoDepth
    /\ chip' = [chip EXCEPT !.fifo = Append(@, <<host.file, host.next>>), !.ints = @ \cup {"main"}]
    /\ host' = [host EXCEPT !.bulk = @ - 1, !.next = @ + 1]
    /\ UNCHANGED <<isr, ctl, main, upg, aborts, peer, seen>>

\* It gives up what it waits for, and may reset the bus.
Abort ==
    /\ aborts < peer.aborts /\ aborts' = aborts + 1
    /\ host.pc # "idle" \/ host.bulk > 0
    /\ host' = [Idle EXCEPT !.bulk = 0, !.file = NoFile, !.next = 1]
    /\ seen' = [seen EXCEPT !.ended = NoFile]
    /\ chip' \in {chip, [chip EXCEPT !.ints = @ \cup {"reset"}],
                  [chip EXCEPT !.ints = {"reset"}, !.out = NoPacket, !.in = NoPacket,
                               !.locked = FALSE, !.fifo = <<>>]}
    /\ UNCHANGED <<isr, ctl, main, upg, peer>>

HostGoesOn == HostSend \/ HostAck \/ HostRead \/ HostStatus \/ HostStalled

Next == Isr \/ Main \/ PowerKey \/ NewRequest \/ HostGoesOn \/ BulkSend \/ Abort

Spec == Init /\ [][Next]_vars
FairSpec == Spec /\ WF_vars(Isr) /\ SF_vars(Main) /\ WF_vars(HostGoesOn) /\ WF_vars(BulkSend)

-----------------------------------------------------------------------------
\* Below, a host is orderly when it has given nothing up, so that an answer it
\* waits for can only be to its last request.
Orderly == aborts = 0

\* A request is handled once before the host has its answer, never twice, by the
\* handler or by the main loop: setup_packet is set by one and cleared by the
\* other, and ControlData is one for all requests.
HandledOnce ==
    Orderly => /\ seen.handled <= 1
               /\ host.pc = "status" => seen.handled = 1
               /\ host.pc = "ack" /\ chip.in # NoPacket => seen.handled = 1

\* What the host reads is the answer to its own request, the packets in order and
\* none twice, though main loop and handler both write to the endpoint and both
\* count.  Two things break it: an interrupt in the middle of code_transmit, for this
\* request and those that follow until the box is at rest once (a header may then be
\* taken for complete too early, and the status asked for next be overwritten by a
\* piece of a descriptor), and a descriptor built in the buffer into which packets
\* are arriving.
AnswerBelongs == Orderly /\ ~seen.raced /\ ~seen.clobbered => seen.good

\* What burn_flash is given is the file of the last header, each packet in its
\* place: however requests, packets, polls of the status and headers that start
\* the download again are interleaved.  Not so if a descriptor was built in the
\* buffer since that header, or if a header was ever refused: its packets are
\* stored by the download in progress, or by the next one.
WholeFile ==
    Orderly /\ ~seen.clobbered /\ ~seen.refused /\ main.pc = "burn" => Holds(upg.header)

\* A host that sent a whole file and its end, has since been told of no error, and
\* asks for the status is told that the box is idle only when the file is burnt:
\* also from the middle of download_completed and of burn_flash.
ToldTruth ==
    Orderly /\ ~seen.refused /\ seen.ended # NoFile /\ seen.told = "idle" => seen.burnt = seen.ended

\* Each request is answered or stalled in the end, also after requests that were
\* given up and resets of the bus: but for clear_feature, which returns at once,
\* and an interrupt in the middle of code_transmit, as for AnswerBelongs.
RequestAnswered ==
    host.pc # "idle" ~> host.pc = "idle" \/ seen.raced \/ host.req.kind = "clear"

\* The packets of a block are taken in the end, though the chip interrupts once
\* for two and the main loop may burn: main_rxdone finds a download in progress
\* whenever they arrive, and so never leaves one in the chip, where no interrupt
\* tells of it again.  Not so if a header was refused: the host is not told so and
\* sends the file all the same.
BulkTaken == host.bulk > 0 ~> host.bulk = 0 \/ seen.refused \/ ~Orderly

\* When get_descriptor uses the upgrade buffer, the buffer does not "have any valid
\* data yet", as its comment says.  The code looks at nothing, and the run finds a
\* configuration descriptor asked for in the middle of a download.
BufferFree ==
    main.pc = "handle" /\ ctl.req.kind \in InBuffer => upg.status # "DOWNLOAD" \/ upg.len = 0
=============================================================================
