----------------------------- MODULE SerialLink -----------------------------
(***************************************************************************)
(* The serial download: a box that receives an image                       *)
(* (board/ipbox/common/serial_upgrade.c) and a box that sends a part of    *)
(* its flash (serial_set2set.c).                                           *)
(*                                                                         *)
(* Each box polls its UART and waits for a byte a limited time.  The       *)
(* receiver proposes at 9600 baud, the sender chooses the rate both change *)
(* to, and the receiver asks for the header and for each block.  The line  *)
(* loses and breaks what is sent.                                          *)
(*                                                                         *)
(* A message is a byte, the 64 bytes of a header, or the 1030 of a block;  *)
(* what lacks bytes counts as lost, for its reader waits as long.  Time    *)
(* passes in units of 100 ms, and only when both boxes wait.               *)
(***************************************************************************)
EXTENDS Integers, Sequences

CONSTANTS
    Images,       \* images of the sender, header included, as sequences of blocks
    Mod,          \* modulus of block numbers (10)
    Timeout,      \* TIMEOUT, 500 ms, in units
    Delay,        \* 100 ms, in units
    Retries,      \* how often the receiver repeats a wait (10)
    SenderTries,  \* how often the sender waits for _CMD_PC_READY (4)
    Depth,        \* messages a UART keeps for a box that does not read
    MaxFaults     \* messages lost or broken, and boxes restarted, in a behaviour

Data == UNION { { i[k] : k \in DOMAIN i } : i \in Images }
LongestImage == CHOOSE n \in { Len(i) : i \in Images } : \A i \in Images : Len(i) <= n

ASSUME SerialConstants ==
    /\ Images # {} /\ \A i \in Images : i \in Seq(Nat) /\ Len(i) > 0
    /\ Mod \in 2 .. 10
    /\ Timeout \in Nat \ {0} /\ Delay \in Nat \ {0}
    /\ Retries \in Nat \ {0} /\ SenderTries \in Nat \ {0}
    /\ Depth \in 3 .. 16 /\ MaxFaults \in Nat

CMD_PC_BR          == 34     \* 0x22
CMD_PC_READY       == 5
CMD_WHICH_FUNCTION == 208    \* 0xd0
DOWNLOAD           == 7
NOTHING            == 8
REQ_HEADER         == 112    \* 0x70
REQ_BLOCK          == 105    \* 0x69
LAST_BLOCK         == 238    \* 0xee
Junk               == 255    \* a byte that means nothing
Spoilt             == -1     \* the data of a block that does not fit its CRC
NoKey              == -1

\* Baud rates by the numbers the sender names them with: 9600, CONFIG_BAUDRATE,
\* 230400.
Rates   == 1 .. 6
Slow    == 1
Console == 5
Fast    == 6

Bytes == (0 .. 9) \cup {CMD_PC_BR, CMD_WHICH_FUNCTION, REQ_HEADER, REQ_BLOCK, Junk}
Sizes == -1 .. LongestImage + 1    \* in blocks; -1 for a negative size

Byte(b)         == [kind |-> "byte", val |-> b]
Header(mine, n) == [kind |-> "header", mine |-> mine, blocks |-> n]
Block(n, d)     == [kind |-> "block", num |-> n, data |-> d]

Numbers == (0 .. Mod - 1) \cup {LAST_BLOCK}
Headers == { Header(m, n) : m \in BOOLEAN, n \in Sizes }
Blocks  == { Block(n, d) : n \in Numbers, d \in Data \cup {Spoilt} }

VARIABLES
    r,        \* the receiver: place, rate, time left, tries, and the download
    s,        \* the sender likewise
    toR, toS, \* what the UARTs hold for each of them
    buffer,   \* blocks in the receiver's upgrade buffer, 0 where there is none
    faults,   \* number of faults so far
    sent,     \* history: the image whose header was last sent
    clean     \* history: the receiver began with a waiting sender, and no fault since

vars == <<r, s, toR, toS, buffer, faults, sent, clean>>

ReceiverPCs == {"menu", "br", "rate", "ready", "function", "header", "body", "burn"}
SenderPCs   == {"menu", "wait", "sendRate", "changed", "ready", "which", "echo",
                "header", "request", "number"}

Patience == Retries * Timeout     \* for each byte of a header or a block

TypeOK ==
    /\ r \in [pc : ReceiverPCs, rate : Rates, time : 0 .. 4 * Timeout \cup 0 .. Patience,
              tries : 0 .. Retries - 1, blocks : Sizes, block : Nat, failed : BOOLEAN]
    /\ s \in [pc : SenderPCs, rate : Rates, time : 0 .. Timeout \cup 0 .. Delay,
              tries : 0 .. SenderTries - 1, image : Images, block : Nat, out : Nat,
              shown : {"nothing", "failed", "successed"}]
    /\ r.block <= LongestImage /\ s.block < Len(s.image) /\ s.out <= Len(s.image)
    /\ \A i \in 1 .. Len(toR) : toR[i] \in { Byte(b) : b \in Bytes } \cup Headers \cup Blocks
    /\ \A i \in 1 .. Len(toS) : toS[i] \in { Byte(b) : b \in Bytes }
    /\ Len(toR) <= Depth /\ Len(toS) <= Depth
    /\ buffer \in [1 .. LongestImage -> Data \cup {0}]
    /\ faults \in 0 .. MaxFaults
    /\ sent \in Images \cup { <<>> }
    /\ clean \in BOOLEAN

-----------------------------------------------------------------------------
\* The line.  At different rates a box gets junk or nothing.
Clip(q) == SubSeq(q, 1, IF Len(q) < Depth THEN Len(q) ELSE Depth)

Arrived(ms, same) ==
    IF same THEN {ms} ELSE { [i \in 1 .. k |-> Byte(Junk)] : k \in 0 .. Len(ms) }

Broken(m) ==
    CASE m.kind = "byte"   -> { Byte(b) : b \in Bytes }
      [] m.kind = "header" -> { h \in Headers : h.mine => h.blocks # m.blocks }
      [] m.kind = "block"  -> { Block(n, m.data) : n \in Numbers }
                                 \cup { Block(m.num, Spoilt) }

\* One message of ms is lost or broken.
Damaged(ms) ==
    UNION { { SubSeq(ms, 1, i - 1) \o x \o SubSeq(ms, i + 1, Len(ms)) :
                x \in { <<>> } \cup { <<m>> : m \in Broken(ms[i]) \ {ms[i]} } }
            : i \in 1 .. Len(ms) }

ToSender(ms, rate) ==
    \/ /\ \E x \in Arrived(ms, rate = s.rate) : toS' = Clip(toS \o x)
       /\ UNCHANGED faults
    \/ /\ faults < MaxFaults /\ rate = s.rate
       /\ \E x \in Damaged(ms) : toS' = Clip(toS \o x)
       /\ faults' = faults + 1

ToReceiver(ms) ==
    \/ /\ \E x \in Arrived(ms, s.rate = r.rate) : toR' = Clip(toR \o x)
       /\ UNCHANGED faults
    \/ /\ faults < MaxFaults /\ s.rate = r.rate
       /\ \E x \in Damaged(ms) : toR' = Clip(toR \o x)
       /\ faults' = faults + 1

\* dg_getc: a message if there is one, NoKey when the time has passed.
Getc(box, place, q) == box.pc = place /\ (q # <<>> \/ box.time = 0)
Rest(q) == IF q = <<>> THEN q ELSE Tail(q)
KeyOf(q) == CASE q = <<>>                             -> NoKey
              [] q # <<>> /\ Head(q).kind = "byte" -> Head(q).val
              [] OTHER                             -> Junk

InitReceiver == [pc |-> "menu", rate |-> Console, time |-> 0, tries |-> 0,
                 blocks |-> 0, block |-> 0, failed |-> FALSE]
InitSender(i) == [pc |-> "menu", rate |-> Console, time |-> 0, tries |-> 0, image |-> i,
                  block |-> 0, out |-> 0, shown |-> "nothing"]

Init ==
    /\ r = InitReceiver
    /\ \E i \in Images : s = InitSender(i)
    /\ toR = <<>> /\ toS = <<>>
    /\ buffer = [k \in 1 .. LongestImage |-> 0]
    /\ faults = 0 /\ sent = <<>> /\ clean = FALSE

-----------------------------------------------------------------------------
\* serial_main, on the receiver.
RGetc(place) == Getc(r, place, toR) /\ toR' = Rest(toR)
RKey == KeyOf(toR)
RWait(place, time) == [r EXCEPT !.pc = place, !.time = time]

\* Back to the loop's start; ret keeps its value till the next download.
RMenu(failed) == [r EXCEPT !.pc = "menu", !.time = 0, !.tries = 0, !.blocks = 0,
                           !.block = 0, !.failed = failed]

\* The user presses OK: the receiver drains its UART and calls the sender.
PressOK ==
    /\ r.pc = "menu"
    /\ toR' = <<>>
    /\ r' = [r EXCEPT !.pc = "br", !.time = 4 * Timeout, !.rate = Slow]
    /\ ToSender(<<Byte(CMD_PC_BR)>>, Slow)
    /\ UNCHANGED <<s, buffer, sent>>

GetBR ==
    /\ RGetc("br")
    /\ r' = IF RKey = CMD_PC_BR THEN RWait("rate", Timeout) ELSE RMenu(r.failed)
    /\ UNCHANGED <<s, toS, buffer, sent, faults>>

GetRate ==
    /\ RGetc("rate")
    /\ \/ /\ RKey \in Rates
          /\ r' = [RWait("ready", Timeout) EXCEPT !.rate = RKey]
          /\ ToSender(<<Byte(CMD_PC_READY)>>, RKey)
       \/ /\ RKey \notin Rates
          /\ r' = RMenu(r.failed)
          /\ UNCHANGED <<toS, faults>>
    /\ UNCHANGED <<s, buffer, sent>>

\* One more turn of a loop that repeats a byte, or the end of its patience.
RepeatForever(b) ==      \* a bug: the turns are not counted
    /\ r' = [r EXCEPT !.time = Timeout]
    /\ ToSender(<<Byte(b)>>, r.rate)
Repeat(b) ==
    \/ /\ r.tries < Retries - 1
       /\ r' = [r EXCEPT !.tries = @ + 1, !.time = Timeout]
       /\ ToSender(<<Byte(b)>>, r.rate)
    \/ /\ r.tries = Retries - 1
       /\ r' = RMenu(r.failed)
       /\ UNCHANGED <<toS, faults>>

GetReady ==
    /\ RGetc("ready")
    /\ \/ /\ RKey = CMD_PC_READY
          /\ r' = [RWait("function", Timeout) EXCEPT !.tries = 0]
          /\ ToSender(<<Byte(CMD_WHICH_FUNCTION)>>, r.rate)
       \/ RKey # CMD_PC_READY /\ Repeat(CMD_PC_READY)
    /\ UNCHANGED <<s, buffer, sent>>

\* The function number is echoed, whatever it is.
GetFunction ==
    /\ RGetc("function")
    /\ \/ RKey = NoKey /\ Repeat(CMD_WHICH_FUNCTION)
       \/ /\ RKey = DOWNLOAD
          /\ r' = [RWait("header", Patience) EXCEPT !.tries = 0]
          /\ ToSender(<<Byte(DOWNLOAD), Byte(REQ_HEADER)>>, r.rate)
       \/ /\ RKey \notin {NoKey, DOWNLOAD}
          /\ r' = RMenu(r.failed)
          /\ ToSender(<<Byte(RKey)>>, r.rate)
    /\ UNCHANGED <<s, buffer, sent>>

\* The label terminate of do_serial_download.
EndDownload(failed) ==
    /\ r' = RMenu(failed)
    /\ ToSender([i \in 1 .. 3 |-> Byte(REQ_HEADER)], r.rate)

\* The head of the loop over the blocks, with k received: receive_body asks for
\* the next one.
NextBlock(k, n) ==
    \/ /\ k < n
       /\ r' = [RWait("body", Patience) EXCEPT !.block = k, !.blocks = n]
       /\ ToSender(<<Byte(REQ_BLOCK), Byte((k + 1) % Mod)>>, r.rate)
    \/ /\ k >= n
       /\ r' = [RWait("burn", 0) EXCEPT !.block = k, !.blocks = n]
       /\ UNCHANGED <<toS, faults>>

ReceiveHeader ==
    /\ RGetc("header")
    /\ LET mine == toR # <<>> /\ toR[1].kind = "header" /\ toR[1].mine /\ toR[1].blocks >= 0
       IN  \/ mine /\ NextBlock(0, toR[1].blocks)
           \/ ~mine /\ EndDownload(TRUE)
    /\ UNCHANGED <<s, buffer, sent>>

\* The checks of receive_body on what came.
ExpectedNumber == IF r.block + 1 = r.blocks THEN LAST_BLOCK ELSE (r.block + 1) % Mod
AcceptsAnyNumber(m) == m.kind = "block" /\ m.data # Spoilt       \* a bug
AcceptsBroken(m) == m.kind = "block" /\ m.num = ExpectedNumber     \* a bug
Accepts(m) == m.kind = "block" /\ m.num = ExpectedNumber /\ m.data # Spoilt

ReceiveBody ==
    /\ RGetc("body")
    /\ LET good == toR # <<>> /\ Accepts(toR[1])
       IN  \/ /\ good
              /\ buffer' = [buffer EXCEPT ![r.block + 1] = toR[1].data]
              /\ NextBlock(r.block + 1, r.blocks)
           \/ /\ ~good
              /\ EndDownload(TRUE)
              /\ UNCHANGED buffer
    /\ UNCHANGED <<s, sent>>

\* burn_flash, module BurnFlash, takes as long as it takes.
Burn ==
    /\ r.pc = "burn"
    /\ \E failed \in BOOLEAN : EndDownload(failed)
    /\ UNCHANGED <<s, toR, buffer, sent>>

Receiver == GetBR \/ GetRate \/ GetReady \/ GetFunction \/ ReceiveHeader \/ ReceiveBody \/ Burn

-----------------------------------------------------------------------------
\* serial_set2set, on the sender.
SGetc(place) == Getc(s, place, toS) /\ toS' = Rest(toS)
SKey == KeyOf(toS)
SWait(place, time) == [s EXCEPT !.pc = place, !.time = time, !.tries = 0]

SMenu(shown) == [s EXCEPT !.pc = "menu", !.time = 0, !.tries = 0, !.block = 0, !.shown = shown]
SFails == s' = SMenu("failed") /\ UNCHANGED <<toR, faults>>

\* The user selects a partition.  Nothing is drained.
Select ==
    /\ s.pc = "menu"
    /\ \E i \in Images :
          s' = [s EXCEPT !.pc = "wait", !.rate = Slow, !.image = i, !.out = 0, !.shown = "nothing"]
    /\ UNCHANGED <<r, toR, toS, buffer, faults, sent>>

WaitBR ==
    /\ s.pc = "wait" /\ toS # <<>>
    /\ toS' = Rest(toS)
    /\ \/ /\ SKey = CMD_PC_BR
          /\ s' = SWait("sendRate", Delay)
          /\ ToReceiver(<<Byte(CMD_PC_BR), Byte(Fast)>>)
       \/ /\ SKey # CMD_PC_BR
          /\ UNCHANGED <<s, toR, faults>>
    /\ UNCHANGED <<r, buffer, sent>>

ChangeRate ==
    /\ s.pc = "sendRate" /\ s.time = 0
    /\ s' = [SWait("changed", Delay) EXCEPT !.rate = Fast]
    /\ UNCHANGED <<r, toR, toS, buffer, faults, sent>>

Listen ==
    /\ s.pc = "changed" /\ s.time = 0
    /\ s' = SWait("ready", Timeout)
    /\ UNCHANGED <<r, toR, toS, buffer, faults, sent>>

\* A bug: any byte but the right one ends the wait.
GiveUpAtOnce == SFails
NotReady ==
    \/ /\ s.tries < SenderTries - 1
       /\ s' = [s EXCEPT !.tries = @ + 1, !.time = Timeout]
       /\ UNCHANGED <<toR, faults>>
    \/ s.tries = SenderTries - 1 /\ SFails

WaitReady ==
    /\ SGetc("ready")
    /\ \/ /\ SKey = CMD_PC_READY
          /\ s' = SWait("which", Timeout)
          /\ ToReceiver(<<Byte(CMD_PC_READY)>>)
       \/ SKey # CMD_PC_READY /\ NotReady
    /\ UNCHANGED <<r, buffer, sent>>

SendFunction ==
    /\ SGetc("which")
    /\ \/ /\ SKey = CMD_WHICH_FUNCTION
          /\ s' = SWait("echo", Timeout)
          /\ ToReceiver(<<Byte(DOWNLOAD)>>)
       \/ SKey # CMD_WHICH_FUNCTION /\ SFails
    /\ UNCHANGED <<r, buffer, sent>>

WaitEcho ==
    /\ SGetc("echo")
    /\ \/ SKey = DOWNLOAD /\ s' = SWait("header", Timeout) /\ UNCHANGED <<toR, faults>>
       \/ SKey # DOWNLOAD /\ SFails
    /\ UNCHANGED <<r, buffer, sent>>

SendHeader ==
    /\ SGetc("header")
    /\ \/ /\ SKey = REQ_HEADER
          /\ s' = SWait("request", Timeout)
          /\ ToReceiver(<<Header(TRUE, Len(s.image))>>)
          /\ sent' = s.image
       \/ SKey # REQ_HEADER /\ SFails /\ UNCHANGED sent
    /\ UNCHANGED <<r, buffer>>

\* The loop over the blocks goes on whatever send_body returned: ret is still
\* send_header's.
Advance(out) ==
    s' = IF s.block + 1 < Len(s.image)
         THEN [SWait("request", Timeout) EXCEPT !.block = @ + 1, !.out = out]
         ELSE [SMenu("successed") EXCEPT !.out = out]

GetRequest ==
    /\ SGetc("request")
    /\ \/ SKey = REQ_BLOCK /\ s' = SWait("number", Timeout)
       \/ SKey # REQ_BLOCK /\ Advance(s.out)
    /\ UNCHANGED <<r, toR, buffer, faults, sent>>

Asked == SKey = (s.block + 1) % Mod
SentNumber == IF s.block + 1 = Len(s.image) THEN LAST_BLOCK ELSE (s.block + 1) % Mod

SendBody ==
    /\ SGetc("number")
    /\ \/ /\ Asked
          /\ Advance(s.out + 1)
          /\ ToReceiver(<<Block(SentNumber, s.image[s.block + 1])>>)
       \/ ~Asked /\ Advance(s.out) /\ UNCHANGED <<toR, faults>>
    /\ UNCHANGED <<r, buffer, sent>>

Sender == WaitBR \/ ChangeRate \/ Listen \/ WaitReady \/ SendFunction \/ WaitEcho
          \/ SendHeader \/ GetRequest \/ SendBody

-----------------------------------------------------------------------------
RTimed == r.pc \notin {"menu", "burn"}
STimed == s.pc \notin {"menu", "wait"}

\* Neither box has anything to do before its time has passed.
Tick ==
    /\ RTimed \/ STimed
    /\ RTimed => toR = <<>> /\ r.time > 0
    /\ s.pc = "wait" => toS = <<>>
    /\ STimed => s.time > 0 /\ (toS = <<>> \/ s.pc \in {"sendRate", "changed"})
    /\ r' = IF RTimed THEN [r EXCEPT !.time = @ - 1] ELSE r
    /\ s' = IF STimed THEN [s EXCEPT !.time = @ - 1] ELSE s
    /\ UNCHANGED <<toR, toS, buffer, faults, sent>>

\* The power key in a menu ends the command, and the box restarts.
QuitReceiver ==
    /\ r.pc = "menu" /\ r' = InitReceiver /\ toR' = <<>>
    /\ UNCHANGED <<s, toS, buffer, faults, sent>>
QuitSender ==
    /\ s.pc = "menu" /\ s' = InitSender(s.image) /\ toS' = <<>>
    /\ UNCHANGED <<r, toR, buffer, faults, sent>>

\* A box is switched off and on at any other moment.
Restart ==
    /\ faults < MaxFaults /\ faults' = faults + 1
    /\ \/ r' = InitReceiver /\ toR' = <<>> /\ UNCHANGED <<s, toS>>
       \/ s' = InitSender(s.image) /\ toS' = <<>> /\ UNCHANGED <<r, toR>>
    /\ UNCHANGED <<buffer, sent>>

Step == PressOK \/ Select \/ Receiver \/ Sender \/ Tick \/ QuitReceiver \/ QuitSender \/ Restart

Next ==
    /\ Step
    /\ clean' = CASE faults' # faults                     -> FALSE
                  [] faults' = faults /\ r.pc = "menu" /\ r'.pc = "br"
                                                          -> s.pc = "wait" /\ toS = <<>>
                  [] OTHER                                -> clean

Spec == Init /\ [][Next]_vars

FairSpec == /\ Spec
            /\ WF_vars(Receiver /\ Next) /\ WF_vars(Sender /\ Next) /\ WF_vars(Tick /\ Next)

-----------------------------------------------------------------------------
\* What the receiver burns is what the sender sent, in order, and all of it
\* unless two messages broke: the header has no CRC, but a broken size shows at
\* the number of the last block, which has none either.  A size broken to
\* nothing makes the receiver burn what its buffer held before.
BurntIsSent ==
    r.pc = "burn" =>
        /\ r.blocks <= Len(sent)
        /\ \A k \in 1 .. r.blocks : buffer[k] = sent[k]
        /\ faults < 2 => r.blocks \in {0, Len(sent)}

\* A block is only ever stored in its place of the image announced last, though
\* its number is known modulo Mod only and the sender may run ahead.
BlockInPlace ==
    [][buffer' # buffer =>
          /\ r.block + 1 \in DOMAIN sent
          /\ buffer' = [buffer EXCEPT ![r.block + 1] = sent[r.block + 1]]]_vars

\* When the receiver calls a sender that waits, and the line is good from then
\* on, the image arrives: the change of the rate and the timeouts of the two
\* boxes fit together.
CleanSessionArrives == (clean /\ r.pc = "br") ~> (~clean \/ r.pc = "burn")

\* Whatever the line does, neither box hangs: the receiver comes back to its
\* menu, and the sender to its menu or to waiting for a call.
BothReturn ==
    /\ (r.pc # "menu") ~> (r.pc = "menu")
    /\ (s.pc \notin {"menu", "wait"}) ~> (s.pc = "menu")

\* serial_set2set: "successed." stands behind loops that are to end at the
\* first block that could not be sent.
SuccessMeansSent == s.shown = "successed" => s.out = Len(s.image)
=============================================================================
