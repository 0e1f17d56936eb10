------------------------------ MODULE Isp116x ------------------------------
(***************************************************************************)
(* drivers/isp116x-hcd.c: the USB host controller of the relook210.  A     *)
(* message (submit_control_msg, submit_bulk_msg) is cut into jobs          *)
(* (isp116x_submit_job), a job into packets, and each packet goes through  *)
(* the controller's FIFO alone.  The device is external: it follows the    *)
(* toggle rules of USB, and may refuse, not answer, or answer less.        *)
(* Data is counted in units; `moved' pairs the units of the device's       *)
(* stream with the places of the caller's buffer they came from or went to.*)
(***************************************************************************)
EXTENDS Integers

CONSTANTS
  MaxPacket,    \* usb_maxpacket
  JobPackets,   \* the packets of the longest job: max_transfer_len
  Retries,      \* `retries' of a job
  Lens          \* lengths of messages

HostSizes ==
  /\ MaxPacket \in Nat \ {0} /\ JobPackets \in Nat \ {0}
  /\ Retries \in Nat /\ Lens \subseteq Nat

VARIABLES
  hc,       \* isp116x_dev and the chip: disabled, and whether the FIFO is full
  toggle,   \* dev->toggle, for each pipe
  halted,   \* bulk pipes whose last message failed
  msg,      \* the message: its pipe, length, stage, bytes done, result
  job,      \* the arguments and variables of isp116x_submit_job
  dev,      \* the device
  moved,    \* the data of this message that device and buffer exchanged
  again     \* history: a retry began after the first packet of a job

vars == <<hc, toggle, halted, msg, job, dev, moved, again>>

Control  == {"ctlOut", "ctlIn"}
Bulk     == {"bulkOut", "bulkIn"}
Pipes    == Control \cup Bulk
IsIn(p)  == p \in {"ctlIn", "bulkIn"}
Least(a, b) == IF a < b THEN a ELSE b
JobMax   == JobPackets * MaxPacket

NoError == 0   DataToggle == 3   Stalled == 4   NoResponse == 5
Overrun == 8   NotAccessed == 15

(* The part of a message that is left, as the arguments of a job. *)
Job(dir, at, n) ==
  [dir |-> dir, at |-> at, len |-> n, done |-> 0, out |-> 0, tries |-> Retries]
NoJob == Job("out", 0, 0)

SetupJob     == Job("setup", 0, 1)
DataJob(m)   == Job(IF IsIn(m.pipe) THEN "in" ELSE "out", m.done,
                    Least(JobMax, m.len - m.done))
StatusJob(m) == Job(IF IsIn(m.pipe) THEN "out" ELSE "in", m.len, 0)

NoMessage == [pipe |-> "ctlOut", len |-> 0, stage |-> "idle", done |-> 0,
              ret |-> "ok"]

Device(total, old) == [old EXCEPT !.total = total, !.n = 0, !.ended = FALSE,
                                  !.runs = 0, !.setup = FALSE]

Init ==
  /\ hc = [disabled |-> FALSE, full |-> FALSE]
  /\ toggle = [p \in Pipes |-> 0]
  /\ halted = {}
  /\ msg = NoMessage
  /\ job = NoJob
  /\ dev = [tog |-> [p \in Pipes |-> 0], total |-> 0, n |-> 0, ended |-> FALSE,
            runs |-> 0, setup |-> FALSE]
  /\ moved = {}
  /\ again = FALSE

Usable == ~hc.disabled /\ ~hc.full

(* A caller starts a message.  A bulk pipe that failed is cleared first.    *)
(* A disabled controller or a FIFO that still holds a packet ends it here.  *)
Submit(p, n, total) ==
  /\ msg.stage = "idle" /\ p \notin halted
  /\ total <= n /\ (~IsIn(p) => total = n) /\ (p \in Bulk => n > 0)
  /\ LET m == [pipe |-> p, len |-> n, done |-> 0, ret |-> "ok",
               stage |-> IF p \in Control THEN "setup" ELSE "data"]
     IN IF Usable
          THEN /\ msg' = m
               /\ job' = IF p \in Control THEN SetupJob ELSE DataJob(m)
               /\ toggle' = IF p \in Control
                              THEN [toggle EXCEPT !["ctlOut"] = 0] ELSE toggle
               /\ dev' = Device(total, dev)
               /\ halted' = halted
          ELSE /\ msg' = [m EXCEPT !.stage = "idle", !.ret = "failed"]
               /\ halted' = halted \cup ({p} \cap Bulk)
               /\ UNCHANGED <<job, toggle, dev>>
  /\ moved' = {} /\ again' = FALSE
  /\ UNCHANGED hc

(* The packet the job sends or asks for next: ptd[0]. *)
Ptd == [toggle |-> toggle[msg.pipe], dir |-> job.dir, from |-> job.at,
        len |-> Least(MaxPacket, job.len - job.done)]

---------------------------------------------------------------------------
(* What becomes of a packet: the controller's completion code and count,   *)
(* the device afterwards, and the data exchanged.                          *)

Result(cc, count, d, x) == [cc |-> cc, count |-> count, dev |-> d, moved |-> x]

Pairs(n) == {<<dev.n + k, Ptd.from + k>> : k \in 1..n}

Refusals == {Result(cc, 0, dev, {}) : cc \in {Stalled, NoResponse, NotAccessed}}

(* A packet the device acknowledges; the acknowledgement may be lost. *)
Taken(d, x) == {Result(NoError, Ptd.len, d, x), Result(NoResponse, 0, d, x)}

Flipped == [dev EXCEPT !.tog[msg.pipe] = 1 - @]

(* A SETUP packet is DATA0; what a device does with another one is open. *)
SetupResults ==
  Taken([dev EXCEPT !.setup = TRUE, !.tog["ctlOut"] = 1, !.tog["ctlIn"] = 1], {})

OutResults ==
  IF Ptd.toggle = dev.tog[msg.pipe]
    THEN Taken([Flipped EXCEPT !.n = @ + Ptd.len], Pairs(Ptd.len))
    ELSE Taken(dev, {})

(* The device sends what is left of its stream, and a short packet ends it. *)
InLen == Least(MaxPacket, dev.total - dev.n)
InDone == [Flipped EXCEPT !.n = @ + InLen,
                          !.ended = InLen < MaxPacket \/ dev.n + InLen = msg.len]
InResults ==
  IF dev.ended THEN {}
  ELSE IF Ptd.toggle # dev.tog[msg.pipe] THEN {Result(DataToggle, 0, dev, {})}
  ELSE IF InLen > Ptd.len THEN {Result(Overrun, 0, d, {}) : d \in {dev, InDone}}
  ELSE {Result(NoError, InLen, d, Pairs(InLen)) : d \in {dev, InDone}}

StatusResults ==
  IF dev.setup /\ (IsIn(msg.pipe) \/ dev.n = dev.total)
    THEN Taken([dev EXCEPT !.runs = 1], {}) ELSE {}

PacketResults ==
  Refusals \cup
  CASE msg.stage = "setup"  -> SetupResults
    [] msg.stage = "status" -> StatusResults
    [] msg.stage = "data" /\ (msg.pipe \in Control => dev.setup) ->
         IF IsIn(msg.pipe) THEN InResults ELSE OutResults
    [] OTHER -> {}

---------------------------------------------------------------------------
(* isp116x_submit_job *)

TogglePipe == [toggle EXCEPT ![msg.pipe] = 1 - @]      \* usb_dotoggle

LeavesLoop(r) == r.count < Ptd.len \/ job.done + Ptd.len >= job.len

Exchange(r) == dev' = r.dev /\ moved' = moved \cup r.moved

MessageFails ==
  /\ msg' = [msg EXCEPT !.stage = "idle", !.ret = "failed"]
  /\ halted' = halted \cup ({msg.pipe} \cap Bulk)
  /\ job' = NoJob

NextPacket ==
  \E r \in PacketResults :
    /\ ~LeavesLoop(r) /\ Exchange(r)
    /\ toggle' = TogglePipe
    /\ job' = [job EXCEPT !.at = @ + Ptd.len, !.done = @ + Ptd.len,
                          !.out = @ + Ptd.len]
    /\ UNCHANGED <<hc, halted, msg, again>>

(* The job as `goto retry' leaves it: u8_buf stays where it was. *)
Retried == [job EXCEPT !.done = 0, !.out = 0, !.tries = @ - 1]

(* A mutant of RetryToggle: the second usb_dotoggle forgotten. *)
ForgetsToggle == TogglePipe

(* One usb_dotoggle before the packet, one at the retry. *)
RetryToggle == toggle

RetryJob ==
  \E r \in PacketResults :
    /\ LeavesLoop(r) /\ r.cc = NotAccessed /\ job.tries > 0 /\ Exchange(r)
    /\ job' = Retried
    /\ toggle' = RetryToggle
    /\ again' = (again \/ job.done > 0)
    /\ UNCHANGED <<hc, halted, msg>>

JobFails ==
  \E r \in PacketResults :
    /\ LeavesLoop(r) /\ r.cc # NoError /\ Exchange(r)
    /\ r.cc = NotAccessed => job.tries = 0
    /\ toggle' = TogglePipe
    /\ MessageFails
    /\ UNCHANGED <<hc, again>>

(* The caller of the job with `out' more bytes done.  The count includes what  *)
(* a short packet did not bring, so a short packet that ends a full job is not *)
(* seen (lines 736, 1158 and 1204).                                            *)
DataDone(m, out) == m.done >= m.len \/ (IsIn(m.pipe) /\ out < JobMax)

NextStage(m, out) ==
  CASE m.stage = "setup" /\ m.len > 0          -> "data"
    [] m.stage = "setup" /\ m.len = 0          -> "status"
    [] m.stage = "data" /\ ~DataDone(m, out)   -> "data"
    [] m.stage = "data" /\ DataDone(m, out)    -> IF m.pipe \in Control
                                                    THEN "status" ELSE "idle"
    [] OTHER                                   -> "idle"

JobReturns ==
  \E r \in PacketResults :
    /\ LeavesLoop(r) /\ r.cc = NoError /\ Exchange(r)
    /\ LET out == job.out + Ptd.len
           m   == IF msg.stage = "data" THEN [msg EXCEPT !.done = @ + out] ELSE msg
           to  == NextStage(m, out)
       IN /\ msg' = [m EXCEPT !.stage = to]
          /\ job' = CASE to = "data"   -> DataJob(m)
                      [] to = "status" -> StatusJob(m)
                      [] to = "idle"   -> NoJob
          /\ toggle' = IF to # msg.stage /\ to # "idle"
                         THEN [toggle EXCEPT ![msg.pipe] = 1] ELSE TogglePipe
    /\ UNCHANGED <<hc, halted, again>>

(* isp116x_interrupt, when it reports no packet: a change of the root hub or   *)
(* an overrun of the schedule leave it in the FIFO, and an unrecoverable error *)
(* resets the chip.                                                            *)
OtherInterrupt == \E ue \in BOOLEAN : hc' = [disabled |-> ue, full |-> ~ue]

(* The packet is not done when the wait ends, for that or because its time is  *)
(* over.  The device may have got it.                                          *)
NotDone ==
  /\ msg.stage # "idle"
  /\ \E r \in PacketResults : dev' = r.dev
  /\ OtherInterrupt
  /\ toggle' = TogglePipe
  /\ MessageFails
  /\ UNCHANGED <<moved, again>>

---------------------------------------------------------------------------
(* usb_clear_halt, by the caller of a bulk message that failed. *)
ClearHalt(p) ==
  /\ msg.stage = "idle" /\ p \in halted /\ Usable
  /\ halted' = halted \ {p}
  /\ toggle' = [toggle EXCEPT ![p] = 0]
  /\ dev' = [dev EXCEPT !.tog[p] = 0]
  /\ UNCHANGED <<hc, msg, job, moved, again>>

(* isp116x_reset, which may fail, and isp116x_start *)
ResetChip == \E reset \in BOOLEAN : hc' = [disabled |-> FALSE, full |-> hc.full /\ ~reset]

(* usb_lowlevel_init: whether the reset succeeds is not looked at, and the     *)
(* devices are enumerated anew.                                                *)
LowlevelInit ==
  /\ msg.stage = "idle"
  /\ ResetChip
  /\ toggle' = [p \in Pipes |-> 0]
  /\ dev' = [dev EXCEPT !.tog = [p \in Pipes |-> 0]]
  /\ halted' = {}
  /\ UNCHANGED <<msg, job, moved, again>>

LowlevelStop ==
  /\ msg.stage = "idle" /\ ~hc.disabled
  /\ hc' = [disabled |-> TRUE, full |-> FALSE]
  /\ UNCHANGED <<toggle, halted, msg, job, dev, moved, again>>

Packet == msg.stage # "idle" /\ (NextPacket \/ RetryJob \/ JobFails \/ JobReturns)

Next ==
  \/ \E p \in Pipes, n \in Lens, total \in Lens : Submit(p, n, total)
  \/ Packet
  \/ NotDone
  \/ \E p \in Bulk : ClearHalt(p)
  \/ LowlevelInit
  \/ LowlevelStop

Spec == Init /\ [][Next]_vars

---------------------------------------------------------------------------
(* Every register, counter and place has its type; a job stays inside its   *)
(* message while no retry came late.                                        *)
TypeOK ==
  /\ hc \in [disabled : BOOLEAN, full : BOOLEAN]
  /\ toggle \in [Pipes -> {0, 1}] /\ halted \subseteq Bulk
  /\ msg.pipe \in Pipes /\ msg.stage \in {"idle", "setup", "data", "status"}
  /\ msg.ret \in {"ok", "failed"} /\ msg.done \in 0..msg.len
  /\ job.tries \in 0..Retries /\ job.done \in 0..job.len /\ job.out = job.done
  /\ again \/ msg.stage # "data" \/ job.at + job.len - job.done <= msg.len

(* isp116x_submit_job, submit_bulk_msg, submit_control_msg: a message that  *)
(* succeeds has moved the whole buffer, or for a read all that the device   *)
(* had, each byte once and to its place, and the device has carried out a   *)
(* control request: whatever packets were refused, lost or repeated, and    *)
(* whatever earlier messages left the toggles at.  Retries after the first  *)
(* packet of a job are the exception (see RetryMovesNothing).               *)
Delivered ==
  msg.stage = "idle" /\ msg.ret = "ok" /\ ~again =>
    /\ moved = {<<i, i>> : i \in 1..dev.total}
    /\ msg.pipe \in Control /\ msg # NoMessage => dev.runs = 1

(* isp116x-hcd.c:743, "Just retry the transfer...": a retry sends the       *)
(* packets of its job again, so what moves is still in its place.           *)
RetryMovesNothing == \A x \in moved : x[1] = x[2]
=============================================================================
