-------------------------- MODULE UsbNet2270Proofs --------------------------
(***************************************************************************)
(* What the USB upgrade with a NET2270 burns is the file whose end was     *)
(* asked for, a whole download of a file that fits the buffer is burnt, and*)
(* the interrupt handler waits for no packets but for the reasons named,   *)
(* for any files, sizes of them, of blocks and of the buffer, and any      *)
(* requests of the host.                                                   *)
(***************************************************************************)
EXTENDS UsbNet2270, TLAPS

Kinds    == {"none", "config", "version", "status", "header", "block", "end"}
Named    == Files \cup {NoFile}
Requests == [kind : Kinds, file : Named, size : Int]
Pieces   == Named \X Nat

Chips ==
  [setup : BOOLEAN, open : BOOLEAN, handshake : BOOLEAN, out : Seq(Requests), outIrq : BOOLEAN,
   in : Kinds, bulk : Seq(Pieces)]
Controls ==
  [req : Requests, data : [1..2 -> Requests], count : 0..2, setup : BOOLEAN, receive : BOOLEAN,
   outer : Nat]
Upgrades ==
  [status : {"UNUSED", "DOWNLOAD", "WRITE"}, buf : Seq(Pieces), new : Nat, header : Named,
   block : Int]
Hosts ==
  [req : Requests, chunk : 0..2, file : Named, sent : Nat, block : Nat, n : Nat]
Histories ==
  [late : BOOLEAN, overtaken : BOOLEAN, abandoned : BOOLEAN, early : BOOLEAN, ahead : BOOLEAN,
   refused : BOOLEAN, file : Named, ended : Nat, burnt : Nat]

NetTyped ==
  /\ chip \in Chips /\ isr \in {"idle", "read", "none", "short", "full", "wait"}
  /\ main \in {"loop", "reading", "counting", "burn"}
  /\ ctl \in Controls /\ upg \in Upgrades /\ host \in Hosts /\ seen \in Histories

-----------------------------------------------------------------------------
(* What holds whatever the host asks.                                      *)

\* What the host asks for, and where its download is.
HostFollows ==
  /\ host.req.kind = "none" => host.req = NoRequest
  /\ host.req.kind = "header" => /\ host.file = host.req.file /\ host.file # NoFile
                                 /\ host.sent = 0 /\ host.block = 0
  /\ host.req.kind = "block" => /\ host.file # NoFile
                                /\ host.block = host.req.size /\ host.block > 0
  /\ host.req.kind = "end" => /\ host.file = NoFile /\ host.req.file # NoFile
                              /\ seen.file = host.req.file
  /\ host.file # NoFile => host.sent + host.block <= Size[host.file]
  /\ ~HostIdle => host.chunk <= Chunks(host.req.kind)

\* The handler has read data and not counted it, or is about to read it.
HasRead == isr \in {"none", "short", "full"}
Inside  == isr = "read" \/ HasRead

\* Where the request is: in the chip, with the handler, or behind it.
RequestFollows ==
  /\ chip.setup => /\ ~HostIdle /\ chip.handshake /\ isr = "idle" /\ ~chip.open
                   /\ host.chunk = 0
  /\ isr # "idle" => ~HostIdle /\ chip.handshake /\ ~chip.setup
  /\ ~HostIdle /\ ~chip.setup => ctl.req = host.req
  /\ ~HostIdle /\ ~chip.setup /\ isr = "idle" => ~chip.handshake
  /\ main = "burn" => upg.status = "WRITE"

\* What the handler is at.
HandlerFollows ==
  /\ Inside => ctl.req.kind \in WithData /\ ctl.count = 0 /\ ctl.receive
  /\ isr = "read" => host.chunk <= 1 /\ (host.chunk > 0 => chip.out = <<host.req>>)
  /\ HasRead => chip.out \in {<<>>, <<host.req>>}
  /\ isr = "full" => ctl.req.kind = "header" /\ host.chunk > 0
  /\ isr = "wait" => /\ ctl.req.kind = "version" /\ ~ctl.setup /\ ~ctl.receive
                     /\ upg.status = "DOWNLOAD" /\ upg.block > 0
  /\ ctl.receive => \/ Inside
                    \/ ctl.req.kind = "header" /\ ctl.count = 1
                    \/ ctl.req.kind \notin WithData /\ ~chip.outIrq
  /\ chip.outIrq => chip.out # <<>>
  /\ Len(chip.out) <= 1
  /\ ctl.req.kind = "block" => chip.setup \/ host.sent > 0 \/ host.block > 0
  /\ ctl.req.kind = "end" => upg.status # "DOWNLOAD"
  /\ ctl.req.kind = "version" /\ upg.status = "DOWNLOAD" => isr = "wait" \/ upg.block <= 0
  /\ main # "counting" => upg.new = 0

NetBase == NetTyped /\ HostFollows /\ RequestFollows /\ HandlerFollows

-----------------------------------------------------------------------------
(* What is burnt is the file announced.                                    *)

Kept == ~seen.abandoned /\ ~seen.late /\ ~seen.early /\ ~seen.ahead

\* The latest request that is handled.
Latest(k) == host.req.kind = k /\ (chip.setup \/ Inside)

\* Data is left to the main loop, or will be when a handler has counted it.
Due == ctl.setup \/ ctl.outer > 0

\* Old packets are in the chip, and nothing takes them out.
Held ==
  /\ host.file # NoFile /\ host.sent = 0 /\ host.block = 0 /\ chip.bulk # <<>>
  /\ ~ReadingBlock /\ isr # "wait" /\ upg.block <= 0
  /\ chip.setup \/ ctl.req.kind # "block"
  /\ chip.setup => host.req.kind \notin {"block", "end"}

\* A download that was not broken off.
KeptHost ==
  /\ host.block > 0 => host.file # NoFile
  /\ host.req.kind \in {"version", "end"} => host.block = 0
  /\ chip.setup /\ host.req.kind = "end" =>
       /\ chip.bulk = <<>> /\ ~ReadingBlock /\ host.sent = Size[host.req.file]
  /\ Latest("block") => chip.bulk = <<>> /\ ~ReadingBlock /\ upg.block <= 0

\* A block that is awaited is being read, or can be; the main loop counts on all its packets.
BlockFollows ==
  /\ upg.block > 0 => ReadingBlock \/ isr = "wait" \/ host.block > 0 \/ chip.bulk # <<>>
  /\ ReadingBlock => /\ upg.status = "DOWNLOAD"
                     /\ Due => host.sent = 0 /\ host.block = 0
                     /\ upg.block >= host.block + Len(chip.bulk) + upg.new
  /\ main = "counting" => upg.new > 0 \/ upg.block <= 0

\* Data that the main loop has not seen: of the file the host is at, whose packets it left in the
\* chip; of a block it is the size.
DataFollow ==
  /\ Due => /\ host.file # NoFile
            /\ host.sent > 0 \/ host.block > 0 =>
                 /\ ~ReadingBlock /\ isr # "wait" /\ upg.block <= 0
                 /\ host.block = 0 => chip.bulk # <<>>
  /\ ctl.req.kind = "block" /\ (HasRead \/ (isr = "idle" /\ Due)) =>
       ctl.data[1].kind = "block" /\ host.block + Len(chip.bulk) <= ctl.data[1].size

\* The header handled last is that of the host's file, nothing of which was sent before.
HeaderFollows ==
  /\ chip.setup /\ host.req.kind = "header" /\ Due => Held
  /\ ctl.req.kind = "header" =>
       /\ host.file = ctl.req.file /\ host.file # NoFile /\ host.sent = 0
       /\ host.block > 0 => chip.setup /\ host.req.kind = "block"
       /\ Inside /\ Due => Held
       /\ HasRead => isr = "full"
       /\ isr = "idle" =>
            \/ /\ ctl.count = 1 /\ ctl.receive /\ chip.out \in {<<>>, <<ctl.req>>}
               /\ Due => Held \/ (ctl.outer > 0 /\ ctl.data[2].file = ctl.req.file)
               /\ ctl.setup => Held
            \/ ctl.count = 2 /\ ~ctl.receive /\ (ctl.data[2].file = ctl.req.file \/ Held)

\* The file being sent.
FileSent == IF chip.setup /\ host.req.kind = "end" THEN host.req.file ELSE host.file
Taken    == upg.buf \o chip.bulk

\* What was sent since the header is at the end of what was taken; another file's header has
\* what was sent of that file in front of it.  A handler that reads before the main loop has
\* counted never comes to an end.
TakenFollows ==
  upg.status = "DOWNLOAD" /\ ~(isr = "wait" /\ main = "counting") =>
    /\ FileSent # NoFile /\ host.sent <= Len(Taken)
    /\ \A i \in 1..host.sent :
         Taken[Len(Taken) - host.sent + i] \in {<<FileSent, i>>, Descriptor}
    /\ \/ upg.header \in {FileSent, NoFile}
       \/ Len(Taken) >= host.sent + Size[upg.header]
       \/ Held

\* Nothing is taken of what is sent while a burn is awaited.
WholeInBuf ==
  upg.status = "WRITE" =>
    /\ host.file # NoFile /\ host.sent > 0 => chip.bulk # <<>>
    /\ Descriptor \notin Range(upg.buf) => seen.file # NoFile /\ upg.buf = Whole(seen.file)

KeptInv ==
  Kept => /\ KeptHost /\ BlockFollows /\ DataFollow /\ HeaderFollows /\ TakenFollows
          /\ WholeInBuf

-----------------------------------------------------------------------------
(* A whole download is burnt.                                              *)

InOrder == ~seen.late /\ ~seen.overtaken
Calm    == InOrder /\ ~seen.abandoned /\ ~seen.early /\ ~seen.refused

\* A header's second packet is awaited, in the chip, or read and not yet counted.
SecondFollows ==
  /\ ctl.receive /\ ~ctl.setup /\ ctl.req.kind = "header" /\ ctl.count = 1
  /\ host.file = ctl.req.file
  /\ ~HostIdle => host.chunk > 0
  /\ \/ /\ ctl.outer = 0
        /\ chip.out = IF ~HostIdle /\ host.chunk < 2 THEN <<>> ELSE <<ctl.req>>
     \/ /\ ctl.outer = 1 /\ chip.out = <<>> /\ ctl.data[2] = ctl.req
        /\ ~HostIdle => host.chunk = 2

\* No packet of a request is left behind.
ChunksFollow ==
  /\ chip.setup => ~ctl.setup /\ ~ctl.receive /\ chip.out = <<>> /\ ctl.outer = 0
  /\ isr = "wait" => chip.out = <<>> /\ ctl.outer = 0
  /\ Inside => ~ctl.setup /\ ctl.outer = 0
  /\ isr = "read" => chip.out = IF host.chunk = 0 THEN <<>> ELSE <<host.req>>
  /\ HasRead => /\ isr = IF ctl.req.kind = "header" THEN "full" ELSE "short"
                /\ host.chunk > 0
                /\ chip.out = IF host.chunk < 2 THEN <<>> ELSE <<host.req>>
                /\ ctl.req.kind = "block" => ctl.data[1].kind = "block"
  /\ ctl.setup \/ ctl.receive => ctl.req.kind \in WithData
  /\ isr = "idle" => \/ ~ctl.receive /\ chip.out = <<>> /\ ctl.outer = 0
                     \/ SecondFollows
  /\ isr = "idle" /\ ~chip.setup /\ host.req.kind = "block" => host.chunk = 1
  /\ isr = "idle" /\ ~chip.setup /\ host.req.kind = "header" => host.chunk = 2 \/ ctl.receive
  /\ ctl.setup \/ ctl.receive => chip.setup \/ host.file # NoFile
  /\ ctl.setup => /\ ctl.req.kind = "block" => ctl.data[1].kind = "block"
                  /\ ctl.req.kind = "header" => /\ ctl.data[2] = ctl.req
                                                /\ host.file = ctl.req.file

\* The header of the file is not yet handled.
NotHandled ==
  \/ chip.setup /\ host.req.kind = "header"
  \/ ctl.req.kind = "header" /\ (Inside \/ ctl.receive \/ ctl.setup)

Pending == chip.setup /\ host.req.kind = "end"

CalmHost ==
  /\ host.block > 0 => host.file # NoFile
  /\ host.req.kind \in {"version", "end"} => host.block = 0
  /\ host.file = NoFile => chip.bulk = <<>> /\ ~ReadingBlock
  /\ NotHandled => /\ host.file # NoFile /\ host.sent = 0 /\ host.block = 0
                   /\ upg.status # "WRITE"
                   /\ ~ReadingBlock => chip.bulk = <<>>
  /\ upg.status = "WRITE" => host.file = NoFile /\ ~Pending
  /\ ReadingBlock => upg.status = "DOWNLOAD"

\* What was sent of a file whose header is handled is taken.
AllTaken ==
  (host.file # NoFile \/ Pending) /\ ~NotHandled =>
    /\ upg.status = "DOWNLOAD" /\ upg.header = FileSent
    /\ Len(upg.buf) + Len(chip.bulk) = host.sent
    /\ Pending => Len(upg.buf) = Size[upg.header]

\* Packets of a block are read, or will be: its announcement is on its way, or the main loop reads
\* and counts on all of them.  A block announced while the one before it is read lets that one end.
BlockIsRead ==
  /\ ~Latest("block") /\ ~(ctl.setup /\ ctl.req.kind = "block") =>
       IF ReadingBlock THEN upg.block >= host.block + Len(chip.bulk) + upg.new
                       ELSE host.block = 0 /\ chip.bulk = <<>>
  /\ Latest("block") =>
       IF ReadingBlock THEN upg.block >= Len(chip.bulk) + upg.new ELSE chip.bulk = <<>>
  /\ (HasRead \/ ctl.setup) /\ ctl.req.kind = "block" =>
       IF ReadingBlock
         THEN host.block + Len(chip.bulk) + upg.new <= upg.block + ctl.data[1].size
         ELSE host.block + Len(chip.bulk) <= ctl.data[1].size

\* Each end is burnt, or is about to be.
EndsCount ==
  seen.ended = seen.burnt + (IF Pending THEN 1 ELSE 0)
                          + (IF upg.status = "WRITE" /\ main # "burn" THEN 1 ELSE 0)

CalmInv == /\ InOrder => ChunksFollow
           /\ Calm => CalmHost /\ AllTaken /\ BlockIsRead /\ EndsCount

-----------------------------------------------------------------------------
(* The handler does not wait.                                              *)

Punctual == InOrder /\ ~seen.abandoned /\ ~seen.ahead

\* What is left of a block is in the chip, or to be sent, or not yet counted.
PunctualInv ==
  Punctual =>
    /\ host.req.kind = "version" => host.block = 0
    /\ Latest("block") => ~ReadingBlock
    /\ upg.block <= host.block + Len(chip.bulk) + upg.new
    /\ (HasRead \/ ctl.setup) /\ ctl.req.kind = "block" =>
         ~ReadingBlock /\ ctl.data[1].size <= host.block + Len(chip.bulk)

NetInv == NetBase /\ KeptInv /\ CalmInv /\ PunctualInv

-----------------------------------------------------------------------------
\* A packet of the data stage changes neither the download nor what the box has of it.
LEMMA ChunkSent == ASSUME NetSizes, NetInv, SendChunk PROVE NetInv'
<1>1. /\ chip' = [chip EXCEPT !.out = <<host.req>>, !.outIrq = TRUE]
      /\ host' = [host EXCEPT !.chunk = host.chunk + 1]
      /\ UNCHANGED <<isr, ctl, main, upg, seen>>
      /\ host.chunk < Chunks(host.req.kind) /\ chip.open /\ chip.out = <<>>
  BY DEF SendChunk
<1>2. NetTyped
  BY DEF NetInv, NetBase
<1>3. host.req.kind \in WithData /\ ~HostIdle /\ Chunks(host.req.kind) \in {1, 2}
      /\ (Chunks(host.req.kind) = 2 => host.req.kind = "header")
      /\ (Chunks(host.req.kind) = 1 => host.req.kind = "block")
  BY <1>1, <1>2 DEF Chunks, WithData, HostIdle, NoRequest, Req, NetTyped, Hosts, Requests, Kinds
<1>4. /\ chip'.setup = chip.setup /\ chip'.open = chip.open /\ chip'.handshake = chip.handshake
      /\ chip'.out = <<host.req>> /\ chip'.outIrq /\ chip'.bulk = chip.bulk
      /\ host'.req = host.req /\ host'.chunk = host.chunk + 1 /\ host'.file = host.file
      /\ host'.sent = host.sent /\ host'.block = host.block
  BY <1>1, <1>2 DEF NetTyped, Chips, Hosts
<1>5. NetTyped'
  <2>1. <<host.req>> \in Seq(Requests)
    BY <1>2 DEF NetTyped, Hosts
  <2>2. chip' \in Chips
    BY <1>1, <1>2, <2>1 DEF NetTyped, Chips
  <2>3. host' \in Hosts
    BY <1>1, <1>2, <1>3 DEF NetTyped, Hosts
  <2> QED BY <1>1, <1>2, <2>2, <2>3 DEF NetTyped
<1>6. HostFollows' /\ RequestFollows'
  BY <1>1, <1>2, <1>3, <1>4 DEF NetInv, NetBase, NetTyped, Chips, Controls, Upgrades, Hosts, HostFollows,
     RequestFollows, HostIdle
<1>7. HandlerFollows'
  BY <1>1, <1>2, <1>3, <1>4 DEF NetInv, NetBase, NetTyped, Chips, Controls, Upgrades, Hosts, HandlerFollows,
     RequestFollows, HostIdle, WithData, Inside, HasRead
<1>8. KeptInv'
  BY <1>1, <1>2, <1>3, <1>4 DEF NetInv, NetBase, NetTyped, Chips, Controls, Upgrades, Hosts, KeptInv, Kept,
     KeptHost, BlockFollows, DataFollow, HeaderFollows, Held, TakenFollows, Taken, FileSent,
     WholeInBuf, Latest, HandlerFollows, RequestFollows, HostIdle, ReadingBlock, Due,
     HasRead, Inside
<1>9. CalmInv'
  BY <1>1, <1>2, <1>3, <1>4 DEF NetInv, NetBase, NetTyped, Chips, Controls, Upgrades, Hosts, CalmInv, InOrder,
     Calm, ChunksFollow, CalmHost, NotHandled, Pending, AllTaken, BlockIsRead, EndsCount,
     FileSent, Latest, HandlerFollows, RequestFollows, HostIdle, SecondFollows, Inside,
     HasRead, ReadingBlock
<1>10. PunctualInv'
  BY <1>1, <1>4 DEF NetInv, PunctualInv, Punctual, InOrder, Latest, ReadingBlock, HasRead, Inside
<1> QED BY <1>5, <1>6, <1>7, <1>8, <1>9, <1>10 DEF NetInv, NetBase

\* The host has its answer, and nothing of the request is left to the handler.
LEMMA Completes == ASSUME NetSizes, NetInv, Complete PROVE NetInv'
<1>1. /\ chip' = [chip EXCEPT !.in = "none"] /\ host' = [host EXCEPT !.req = NoRequest]
      /\ UNCHANGED <<isr, ctl, main, upg, seen>>
      /\ ~HostIdle /\ ~chip.setup /\ ~chip.handshake /\ host.chunk = Chunks(host.req.kind)
  BY DEF Complete
<1>2. NetTyped
  BY DEF NetInv, NetBase
<1>3. NoRequest \in Requests /\ NoRequest.kind = "none" /\ NoRequest.file = NoFile
  BY DEF NoRequest, Req, Requests, Kinds, Named
<1>4. /\ chip'.setup = chip.setup /\ chip'.open = chip.open /\ chip'.handshake = chip.handshake
      /\ chip'.out = chip.out /\ chip'.outIrq = chip.outIrq /\ chip'.bulk = chip.bulk
      /\ host'.req = NoRequest /\ host'.chunk = host.chunk /\ host'.file = host.file
      /\ host'.sent = host.sent /\ host'.block = host.block
  BY <1>1, <1>2 DEF NetTyped, Chips, Hosts
<1>5. NetTyped'
  <2>1. chip' \in Chips
    BY <1>1, <1>2 DEF NetTyped, Chips, Kinds
  <2>2. host' \in Hosts
    BY <1>1, <1>2, <1>3 DEF NetTyped, Hosts
  <2> QED BY <1>1, <1>2, <2>1, <2>2 DEF NetTyped
<1>6. isr = "idle" /\ ctl.req = host.req
  BY <1>1, <1>2 DEF NetInv, NetBase, NetTyped, RequestFollows
<1>7. host.req.kind = "header" => host.chunk = 2
  BY <1>1 DEF Chunks
<1>8. HostFollows' /\ RequestFollows' /\ HandlerFollows'
  BY <1>1, <1>2, <1>3, <1>4, <1>6 DEF NetInv, NetBase, NetTyped, Hosts, HostFollows, RequestFollows, HandlerFollows,
     HostIdle, Inside, HasRead
<1>9. KeptInv'
  BY <1>1, <1>2, <1>3, <1>4, <1>6, <1>7 DEF NetInv, NetBase, NetTyped, Chips, Controls, Upgrades, Hosts, KeptInv, Kept,
     KeptHost, BlockFollows, DataFollow, HeaderFollows, Held, TakenFollows, Taken, FileSent,
     WholeInBuf, Latest, HandlerFollows, ReadingBlock, Due, HasRead, Inside
<1>10. CalmInv'
  BY <1>1, <1>2, <1>3, <1>4, <1>6, <1>7 DEF NetInv, NetBase, NetTyped, Chips, Controls, Upgrades, Hosts, CalmInv, InOrder,
     Calm, ChunksFollow, CalmHost, NotHandled, Pending, AllTaken, BlockIsRead, EndsCount,
     FileSent, Latest, HandlerFollows, HostIdle, SecondFollows, Inside, HasRead, ReadingBlock
<1>11. PunctualInv'
  BY <1>1, <1>3, <1>4, <1>6 DEF NetInv, PunctualInv, Punctual, InOrder, Latest, ReadingBlock, HasRead, Inside
<1> QED BY <1>5, <1>8, <1>9, <1>10, <1>11 DEF NetInv, NetBase

\* A packet more at the end of what is taken.
LEMMA OneMore ==
  ASSUME NEW S, NEW b \in Seq(S), NEW c \in Seq(S), NEW p \in S
  PROVE  /\ Append(c, p) \in Seq(S) /\ Append(c, p) # <<>> /\ Len(Append(c, p)) = Len(c) + 1
         /\ Len(c) \in Nat /\ Len(b \o c) \in Nat /\ Len(b \o c) = Len(b) + Len(c)
         /\ Len(b \o Append(c, p)) = Len(b \o c) + 1
         /\ \A i \in 1..Len(b \o c) : (b \o Append(c, p))[i] = (b \o c)[i]
         /\ (b \o Append(c, p))[Len(b \o c) + 1] = p
<1>1. /\ Append(c, p) \in Seq(S) /\ Len(Append(c, p)) = Len(c) + 1 /\ Len(c) \in Nat /\ Len(b) \in Nat
      /\ Append(c, p)[Len(c) + 1] = p /\ \A i \in 1..Len(c) : Append(c, p)[i] = c[i]
  OBVIOUS
<1>2. Append(c, p) # <<>>
  BY <1>1
<1> DEFINE d == Append(c, p)
<1> HIDE DEF d
<1>3. \A e \in Seq(S) : /\ Len(b \o e) = Len(b) + Len(e)
                         /\ \A i \in 1..(Len(b) + Len(e)) :
                              (b \o e)[i] = IF i <= Len(b) THEN b[i] ELSE e[i - Len(b)]
  OBVIOUS
<1>4. /\ d \in Seq(S) /\ Len(d) = Len(c) + 1 /\ d[Len(c) + 1] = p /\ \A i \in 1..Len(c) : d[i] = c[i]
  BY <1>1 DEF d
<1>5. /\ Len(b \o c) = Len(b) + Len(c) /\ Len(b \o d) = Len(b) + Len(c) + 1
      /\ \A i \in 1..(Len(b) + Len(c)) : (b \o c)[i] = IF i <= Len(b) THEN b[i] ELSE c[i - Len(b)]
      /\ \A i \in 1..(Len(b) + Len(c) + 1) : (b \o d)[i] = IF i <= Len(b) THEN b[i] ELSE d[i - Len(b)]
  <2>1. /\ Len(b \o c) = Len(b) + Len(c)
        /\ \A i \in 1..(Len(b) + Len(c)) : (b \o c)[i] = IF i <= Len(b) THEN b[i] ELSE c[i - Len(b)]
    BY <1>3
  <2>2. /\ Len(b \o d) = Len(b) + Len(d)
        /\ \A i \in 1..(Len(b) + Len(d)) : (b \o d)[i] = IF i <= Len(b) THEN b[i] ELSE d[i - Len(b)]
    BY <1>3, <1>4, Zenon
  <2> QED BY <1>1, <1>4, <2>1, <2>2
<1>6. ASSUME NEW i \in 1..(Len(b) + Len(c)) PROVE (b \o d)[i] = (b \o c)[i]
  <2>1. CASE i <= Len(b)
    BY <1>1, <1>5, <2>1
  <2>2. CASE i > Len(b)
    <3>1. i - Len(b) \in 1..Len(c)
      BY <1>1, <2>2
    <3> QED BY <1>1, <1>4, <1>5, <2>2, <3>1
  <2>3. i <= Len(b) \/ i > Len(b)
    BY <1>1
  <2> QED BY <2>1, <2>2, <2>3, Zenon
<1>7. (b \o d)[Len(b) + Len(c) + 1] = p
  BY <1>1, <1>4, <1>5
<1> QED BY <1>1, <1>2, <1>5, <1>6, <1>7 DEF d

\* If the end of what was taken is the beginning of a file, it is so with a packet more.
LEMMA EndGrows ==
  ASSUME NEW n \in Nat, NEW k \in Nat, k <= n, NEW t, NEW u, NEW f, NEW d,
         \A i \in 1..n : u[i] = t[i], u[n + 1] = <<f, k + 1>>,
         \A i \in 1..k : t[n - k + i] \in {<<f, i>>, d}
  PROVE  \A i \in 1..(k + 1) : u[n + 1 - (k + 1) + i] \in {<<f, i>>, d}
<1> SUFFICES ASSUME NEW i \in 1..(k + 1) PROVE u[n + 1 - (k + 1) + i] \in {<<f, i>>, d}
  OBVIOUS
<1>1. n + 1 - (k + 1) + i = n - k + i
  OBVIOUS
<1>2. CASE i = k + 1
  <2>1. n - k + i = n + 1
    BY <1>2
  <2> QED BY <1>1, <1>2, <2>1
<1>3. CASE i # k + 1
  <2>1. i \in 1..k /\ n - k + i \in 1..n
    BY <1>3
  <2> QED BY <1>1, <2>1
<1> QED BY <1>2, <1>3

\* A packet of a block goes to the end of what is in the chip.
LEMMA BulkSent == ASSUME NetSizes, NetInv, SendBulk PROVE NetInv'
<1> DEFINE p == <<host.file, host.sent + 1>>
<1>1. /\ chip' = [chip EXCEPT !.bulk = Append(chip.bulk, p)]
      /\ host' = [host EXCEPT !.sent = host.sent + 1, !.block = host.block - 1]
      /\ UNCHANGED <<isr, ctl, main, upg, seen>>
      /\ HostIdle /\ host.block > 0
  BY DEF SendBulk
<1>2. NetTyped
  BY DEF NetInv, NetBase
<1>3. /\ chip'.setup = chip.setup /\ chip'.open = chip.open /\ chip'.handshake = chip.handshake
      /\ chip'.out = chip.out /\ chip'.outIrq = chip.outIrq
      /\ host'.req = host.req /\ host'.chunk = host.chunk /\ host'.file = host.file
      /\ host'.sent = host.sent + 1 /\ host'.block = host.block - 1
  BY <1>1, <1>2 DEF NetTyped, Chips, Hosts
<1> DEFINE grown == Append(chip.bulk, p)
<1>4. chip'.bulk = grown /\ Taken' = upg.buf \o grown
  BY <1>1, <1>2 DEF NetTyped, Chips, Taken
<1>5. /\ p \in Pieces /\ chip.bulk \in Seq(Pieces) /\ upg.buf \in Seq(Pieces)
      /\ host.sent \in Nat /\ host.block \in Nat
  BY <1>2 DEF NetTyped, Chips, Hosts, Upgrades, Pieces
<1> HIDE DEF p
<1>6. /\ grown \in Seq(Pieces) /\ grown # <<>> /\ Len(grown) = Len(chip.bulk) + 1
      /\ Len(chip.bulk) \in Nat /\ Len(upg.buf \o chip.bulk) \in Nat
      /\ Len(upg.buf \o grown) = Len(upg.buf \o chip.bulk) + 1
      /\ \A i \in 1..Len(upg.buf \o chip.bulk) : (upg.buf \o grown)[i] = (upg.buf \o chip.bulk)[i]
      /\ (upg.buf \o grown)[Len(upg.buf \o chip.bulk) + 1] = p
  <2> DEFINE b == upg.buf
             c == chip.bulk
  <2>1. b \in Seq(Pieces) /\ c \in Seq(Pieces) /\ p \in Pieces
    BY <1>5
  <2> HIDE DEF b, c
  <2>2. /\ Append(c, p) \in Seq(Pieces) /\ Append(c, p) # <<>> /\ Len(Append(c, p)) = Len(c) + 1
        /\ Len(c) \in Nat /\ Len(b \o c) \in Nat /\ Len(b \o Append(c, p)) = Len(b \o c) + 1
        /\ \A i \in 1..Len(b \o c) : (b \o Append(c, p))[i] = (b \o c)[i]
        /\ (b \o Append(c, p))[Len(b \o c) + 1] = p
    BY <2>1, OneMore
  <2> QED BY <2>2, Zenon DEF b, c
<1> HIDE DEF grown
<1>7. /\ Len(Taken') = Len(Taken) + 1 /\ Len(Taken) \in Nat
      /\ \A i \in 1..Len(Taken) : Taken'[i] = Taken[i]
      /\ Taken'[Len(Taken) + 1] = p
  <2>1. Taken = upg.buf \o chip.bulk /\ Taken' = upg.buf \o grown
    BY <1>4 DEF Taken
  <2>2. Len(Taken') = Len(Taken) + 1 /\ Len(Taken) \in Nat
    BY <1>6, <2>1
  <2>3. \A i \in 1..Len(Taken) : Taken'[i] = Taken[i]
    BY <1>6, <2>1, Zenon
  <2>4. Taken'[Len(Taken) + 1] = p
    BY <1>6, <2>1, Zenon
  <2> QED BY <2>2, <2>3, <2>4
<1>8. chip'.bulk # <<>> /\ Len(chip'.bulk) = Len(chip.bulk) + 1 /\ Len(chip.bulk) \in Nat
  BY <1>4, <1>6
<1>9. NetTyped'
  <2>1. chip' \in Chips
    BY <1>1, <1>2, <1>6 DEF NetTyped, Chips, grown
  <2>2. host' \in Hosts
    <3> DEFINE k == host.sent + 1
               m == host.block - 1
    <3>1. k \in Nat /\ m \in Nat
      BY <1>1, <1>5
    <3>2. host' = [host EXCEPT !.sent = k, !.block = m]
      BY <1>1
    <3> HIDE DEF k, m
    <3> QED BY <1>2, <3>1, <3>2 DEF NetTyped, Hosts
  <2> QED BY <1>1, <1>2, <2>1, <2>2 DEF NetTyped
<1>10. ~chip.setup /\ isr = "idle" /\ host.req.kind = "none"
  BY <1>1 DEF NetInv, NetBase, RequestFollows, NetTyped, HostIdle, NoRequest, Req
<1>11. HostFollows' /\ RequestFollows' /\ HandlerFollows'
  <2>1. host.file # NoFile => Size[host.file] \in Nat
    BY <1>2 DEF NetSizes, NetTyped, Hosts, Named
  <2>2. HostFollows'
    <3>1. host'.sent + host'.block = host.sent + host.block /\ host'.block \in Nat
      BY <1>1, <1>3, <1>5
    <3> QED BY <1>1, <1>3, <1>10, <3>1 DEF NetInv, NetBase, HostFollows, HostIdle, NoRequest, Req
  <2>3. RequestFollows'
    BY <1>1, <1>3, <1>10 DEF NetInv, NetBase, RequestFollows, HostIdle
  <2>4. HandlerFollows'
    BY <1>1, <1>3, <1>5, <1>10 DEF NetInv, NetBase, HandlerFollows, Inside, HasRead
  <2> QED BY <2>2, <2>3, <2>4
<1> DEFINE k == host.block
           c == Len(chip.bulk)
<1>12. /\ k \in Nat /\ k > 0 /\ c \in Nat /\ host'.block = k - 1 /\ Len(chip'.bulk) = c + 1
       /\ host.sent + 1 > 0 /\ host.sent \in Nat
  BY <1>1, <1>3, <1>5, <1>8
<1>13. upg.block \in Int /\ Len(upg.buf) \in Nat /\ ctl.data[1].size \in Int
  BY <1>2, <1>5 DEF NetTyped, Upgrades, Controls, Requests
<1>14. host'.block + Len(chip'.bulk) = k + c
  <2> HIDE DEF k, c
  <2>1. k - 1 + (c + 1) = k + c
    BY <1>12
  <2> QED BY <1>12, <2>1
<1>15. Kept' => KeptHost' /\ BlockFollows' /\ DataFollow' /\ HeaderFollows' /\ WholeInBuf'
  <2> SUFFICES ASSUME Kept' PROVE KeptHost' /\ BlockFollows' /\ DataFollow' /\ HeaderFollows' /\ WholeInBuf'
    OBVIOUS
  <2>1. KeptHost /\ BlockFollows /\ DataFollow /\ HeaderFollows /\ WholeInBuf
    BY <1>1 DEF NetInv, KeptInv, Kept
  <2>2. host'.block + Len(chip'.bulk) = host.block + Len(chip.bulk) /\ host'.sent > 0 /\ host.block > 0
    BY <1>3, <1>12, <1>14
  <2>3. KeptHost'
    BY <1>1, <1>3, <1>10, <2>1, <2>2 DEF KeptHost, Latest, ReadingBlock, Inside, HasRead
  <2>4. BlockFollows'
    BY <1>1, <1>3, <1>8, <2>1, <2>2 DEF BlockFollows, ReadingBlock, Due
  <2>5. DataFollow'
    BY <1>1, <1>3, <1>8, <2>1, <2>2 DEF DataFollow, ReadingBlock, Due, HasRead
  <2>6. HeaderFollows'
    BY <1>1, <1>3, <1>10, <2>1, <2>2 DEF HeaderFollows
  <2>7. WholeInBuf'
    BY <1>1, <1>3, <1>8, <2>1 DEF WholeInBuf
  <2> QED BY <2>3, <2>4, <2>5, <2>6, <2>7
<1>16. Kept' => TakenFollows'
  <2> SUFFICES ASSUME Kept', upg'.status = "DOWNLOAD" PROVE TakenFollows'
    BY DEF TakenFollows
  <2>1. /\ TakenFollows /\ ~Held /\ FileSent = host.file /\ FileSent' = host.file
    BY <1>1, <1>3, <1>5, <1>10 DEF NetInv, KeptInv, Kept, Held, FileSent, ReadingBlock
  <2> DEFINE n == Len(Taken)
             s == host.sent
  <2>2. /\ FileSent # NoFile /\ s <= n
        /\ \A i \in 1..s : Taken[n - s + i] \in {<<host.file, i>>, Descriptor}
        /\ \/ upg.header \in {FileSent, NoFile} \/ n >= s + Size[upg.header]
    BY <1>1, <1>10, <2>1 DEF TakenFollows
  <2>3. \A i \in 1..(s + 1) : Taken'[n + 1 - (s + 1) + i] \in {<<host.file, i>>, Descriptor}
    <3> HIDE DEF n, s
    <3>1. n \in Nat /\ s \in Nat /\ Taken'[n + 1] = <<host.file, s + 1>> /\ \A i \in 1..n : Taken'[i] = Taken[i]
      BY <1>5, <1>7 DEF p, n, s
    <3> QED BY <2>2, <3>1, EndGrows
  <2>4. upg.header \in {FileSent, NoFile} \/ n + 1 >= s + 1 + Size[upg.header]
    <3>1. upg.header \notin {FileSent, NoFile} => Size[upg.header] \in Nat
      BY <1>2 DEF NetSizes, NetTyped, Upgrades, Named
    <3> QED BY <1>5, <1>7, <2>2, <3>1
  <2>5. /\ s + 1 <= n + 1 /\ Len(Taken') = n + 1 /\ host'.sent = s + 1 /\ upg' = upg
        /\ n \in Nat /\ s \in Nat
    BY <1>1, <1>3, <1>5, <1>7, <2>2
  <2> HIDE DEF n, s
  <2>6. \A i \in 1..host'.sent :
          Taken'[Len(Taken') - host'.sent + i] \in {<<FileSent', i>>, Descriptor}
    <3> SUFFICES ASSUME NEW i \in 1..host'.sent
                 PROVE  Taken'[Len(Taken') - host'.sent + i] \in {<<FileSent', i>>, Descriptor}
      OBVIOUS
    <3>1. i \in 1..(s + 1)
      BY <2>5
    <3>2. Len(Taken') - host'.sent + i = n + 1 - (s + 1) + i
      BY <2>5
    <3> QED BY <2>1, <2>3, <3>1, <3>2, Zenon
  <2>7. FileSent' # NoFile /\ host'.sent <= Len(Taken')
    BY <2>1, <2>2, <2>5
  <2>8. upg'.header \in {FileSent', NoFile} \/ Len(Taken') >= host'.sent + Size[upg'.header]
    BY <2>1, <2>4, <2>5
  <2> QED BY <2>6, <2>7, <2>8 DEF TakenFollows
<1>17. CalmInv'
  <2>1. InOrder' => ChunksFollow'
    BY <1>1, <1>3, <1>10 DEF NetInv, CalmInv, InOrder, ChunksFollow, HostIdle, SecondFollows, Inside, HasRead
  <2>2. Calm' => CalmHost'
    BY <1>1, <1>3, <1>10, <1>12 DEF NetInv, CalmInv, InOrder, Calm, CalmHost, NotHandled, Pending, ReadingBlock,
     Inside, HasRead
  <2>3. Calm' => AllTaken'
    <3>1. ~Pending' /\ ~Pending /\ FileSent = host.file /\ FileSent' = host.file
      BY <1>3, <1>10 DEF Pending, FileSent
    <3>2. NotHandled' <=> NotHandled
      BY <1>1, <1>3 DEF NotHandled, Inside, HasRead
    <3>3. Calm' => CalmHost /\ AllTaken
      BY <1>1 DEF NetInv, CalmInv, InOrder, Calm
    <3>5. CalmHost => host.file # NoFile
      BY <1>1 DEF CalmHost, ReadingBlock
    <3> DEFINE b == Len(upg.buf)
    <3>6. Len(chip.bulk) = c /\ Len(upg.buf) = b /\ c \in Nat /\ b \in Nat
      BY <1>12, <1>13
    <3> HIDE DEF b, c
    <3>4. b + (c + 1) = host.sent + 1 <=> b + c = host.sent
      <4>1. b \in Nat /\ c \in Nat /\ host.sent \in Nat
        BY <1>12, <3>6
      <4> QED BY <4>1
    <3> QED BY <1>1, <1>3, <1>12, <3>1, <3>2, <3>3, <3>4, <3>5, <3>6 DEF AllTaken
  <2>4. Calm' => BlockIsRead'
    <3> SUFFICES ASSUME Calm' PROVE BlockIsRead'
      OBVIOUS
    <3>1. BlockIsRead /\ ~Latest("block") /\ ~Latest("block")'
      BY <1>1, <1>3, <1>10 DEF NetInv, CalmInv, InOrder, Calm, Latest, Inside, HasRead
    <3>2. (ctl.setup /\ ctl.req.kind = "block") \/ (ReadingBlock /\ upg.block >= k + c + upg.new)
      BY <1>12, <3>1 DEF BlockIsRead
    <3>3. (HasRead \/ ctl.setup) /\ ctl.req.kind = "block" =>
            IF ReadingBlock THEN k + c + upg.new <= upg.block + ctl.data[1].size
                            ELSE k + c <= ctl.data[1].size
      BY <3>1 DEF BlockIsRead
    <3> DEFINE z == ctl.data[1].size
               u == upg.block
               v == upg.new
    <3>5. (HasRead \/ ctl.setup) /\ ctl.req.kind = "block" =>
            IF ReadingBlock THEN k + c + v <= u + z ELSE k + c <= z
      BY <3>3
    <3>6. (ctl.setup /\ ctl.req.kind = "block") \/ (ReadingBlock /\ u >= k + c + v)
      BY <3>2
    <3> HIDE DEF k, c
    <3>4. host'.block + Len(chip'.bulk) = k + c
      BY <1>12
    <3>7. /\ ~Latest("block")' /\ (ReadingBlock' <=> ReadingBlock) /\ (HasRead' <=> HasRead)
          /\ ctl' = ctl /\ upg'.block = u /\ upg'.new = v /\ ctl'.data[1].size = z
      BY <1>1, <3>1 DEF ReadingBlock, HasRead
    <3> HIDE DEF u, v, z
    <3>8. ~(ctl'.setup /\ ctl'.req.kind = "block") => ReadingBlock' /\ upg'.block >= (host'.block + Len(chip'.bulk)) + upg'.new
      BY <3>4, <3>6, <3>7
    <3>9. (HasRead' \/ ctl'.setup) /\ ctl'.req.kind = "block" =>
            IF ReadingBlock' THEN (host'.block + Len(chip'.bulk)) + upg'.new <= upg'.block + ctl'.data[1].size
                             ELSE host'.block + Len(chip'.bulk) <= ctl'.data[1].size
      BY <3>4, <3>5, <3>7
    <3> QED BY <3>7, <3>8, <3>9 DEF BlockIsRead
  <2>5. Calm' => EndsCount'
    BY <1>1, <1>3, <1>10 DEF NetInv, CalmInv, InOrder, Calm, EndsCount, Pending
  <2> QED BY <2>1, <2>2, <2>3, <2>4, <2>5 DEF CalmInv
<1>18. PunctualInv'
  BY <1>1, <1>3, <1>10, <1>13, <1>14 DEF NetInv, PunctualInv, Punctual, InOrder, Latest, ReadingBlock,
     HasRead, Inside
<1> QED BY <1>9, <1>11, <1>15, <1>16, <1>17, <1>18 DEF NetInv, NetBase, KeptInv

\* What the handler does at the SETUP of a request.
LEMMA EnteredIs ==
  ASSUME NetTyped, NEW c \in Entered(chip)
  PROVE  /\ c \in Chips /\ ~c.setup /\ c.open /\ ~c.outIrq /\ c.out \in {chip.out, <<>>}
         /\ c.handshake = chip.handshake /\ c.bulk = chip.bulk
<1>1. PICK o \in {chip.out, <<>>} :
        c = [chip EXCEPT !.setup = FALSE, !.open = TRUE, !.outIrq = FALSE, !.out = o]
  BY DEF Entered
<1>2. chip \in Chips /\ chip.out \in Seq(Requests) /\ <<>> \in Seq(Requests)
  BY DEF NetTyped, Chips
<1>3. o \in Seq(Requests)
  BY <1>1, <1>2
<1> QED BY <1>1, <1>2, <1>3 DEF Chips

\* A request without data is carried out at once, or waits for the block; that is the status of
\* the download, the file version, a configuration read, or the end of a download.
LEMMA WithoutDataIs ==
  ASSUME NetInv, SetupWithoutData
  PROVE  /\ isr = "idle" /\ chip.setup /\ host.req.kind \in {"config", "version", "status", "end"}
         /\ chip' \in Chips /\ ~chip'.setup /\ chip'.open /\ ~chip'.outIrq
         /\ chip'.out \in {chip.out, <<>>} /\ chip'.bulk = chip.bulk
         /\ ctl' \in Controls /\ ctl'.req = host.req /\ ctl'.data = ctl.data
         /\ ctl'.outer = ctl.outer
         /\ IF host.req.kind = "status"
              THEN ctl'.setup = ctl.setup /\ ctl'.receive = ctl.receive
              ELSE ~ctl'.setup /\ ~ctl'.receive
         /\ host.req.kind \in {"version", "status"} => upg' = upg
         /\ host.req.kind = "config" => upg' = Clobbered
         /\ host.req.kind = "end" => upg' = Completed
         /\ \/ /\ isr' = "wait" /\ host.req.kind = "version" /\ chip'.handshake
               /\ upg.block > 0 /\ upg.status = "DOWNLOAD"
            \/ /\ isr' = "idle" /\ ~chip'.handshake
               /\ host.req.kind = "version" /\ upg.status = "DOWNLOAD" => upg.block <= 0
         /\ UNCHANGED <<main, host, seen>>
<1>1. NetTyped /\ HostFollows /\ RequestFollows
  BY DEF NetInv, NetBase
<1>2. isr = "idle" /\ chip.setup /\ host.req.kind \notin WithData /\ UNCHANGED <<main, host, seen>>
  BY DEF SetupWithoutData
<1>3. host.req.kind \in {"config", "version", "status", "end"} /\ chip.handshake
  <2>1. host.req.kind \in Kinds /\ host.req.kind # "none"
    BY <1>1, <1>2 DEF NetTyped, Hosts, Requests, HostFollows, RequestFollows, HostIdle
  <2> QED BY <1>1, <1>2, <2>1 DEF Kinds, WithData, RequestFollows
<1> DEFINE k     == host.req.kind
           waits == k = "version" /\ upg.block > 0 /\ upg.status = "DOWNLOAD"
<1>4. /\ ctl' = [ctl EXCEPT !.req = host.req, !.count = 0,
                   !.setup = IF k = "status" THEN ctl.setup ELSE FALSE,
                   !.receive = IF k = "status" THEN ctl.receive ELSE FALSE]
      /\ upg' = CASE k = "end" -> Completed [] k = "config" -> Clobbered [] OTHER -> upg
      /\ isr' = IF waits THEN "wait" ELSE "idle"
  BY DEF SetupWithoutData
<1>5. /\ ctl' \in Controls /\ ctl'.req = host.req /\ ctl'.data = ctl.data
      /\ ctl'.outer = ctl.outer
      /\ ctl'.setup = (IF k = "status" THEN ctl.setup ELSE FALSE)
      /\ ctl'.receive = (IF k = "status" THEN ctl.receive ELSE FALSE)
  <2> DEFINE s == IF k = "status" THEN ctl.setup ELSE FALSE
             r == IF k = "status" THEN ctl.receive ELSE FALSE
             z == 0
  <2>1. ctl' = [ctl EXCEPT !.req = host.req, !.count = z, !.setup = s, !.receive = r]
    BY <1>4
  <2>4. ctl.setup \in BOOLEAN /\ ctl.receive \in BOOLEAN /\ z \in 0..2 /\ host.req \in Requests
    BY <1>1 DEF NetTyped, Controls, Hosts
  <2>2. s \in BOOLEAN /\ r \in BOOLEAN /\ z \in 0..2 /\ host.req \in Requests
    BY <2>4, Zenon
  <2> HIDE DEF s, r, z
  <2>3. /\ ctl' \in Controls /\ ctl'.req = host.req /\ ctl'.data = ctl.data /\ ctl'.setup = s
        /\ ctl'.receive = r /\ ctl'.outer = ctl.outer
    BY <1>1, <2>1, <2>2 DEF NetTyped, Controls
  <2> QED BY <2>3 DEF s, r
<1>6. PICK c \in Entered(chip) :
        LET a == IF ToHost(k) THEN Answered(c, k) ELSE c
        IN chip' = IF waits THEN a ELSE Released(a)
  BY DEF SetupWithoutData
<1>7. /\ c \in Chips /\ ~c.setup /\ c.open /\ ~c.outIrq /\ c.out \in {chip.out, <<>>}
      /\ c.handshake /\ c.bulk = chip.bulk
  BY <1>1, <1>3, EnteredIs
<1> DEFINE a == IF ToHost(k) THEN Answered(c, k) ELSE c
<1>8. /\ a \in Chips /\ ~a.setup /\ a.open /\ ~a.outIrq /\ a.out = c.out
      /\ a.handshake /\ a.bulk = c.bulk
  <2>1. k \in Kinds
    BY <1>1 DEF NetTyped, Hosts, Requests
  <2> HIDE DEF k
  <2> QED BY <1>7, <2>1 DEF Answered, Chips
<1>9. chip' = IF waits THEN a ELSE Released(a)
  BY <1>6
<1> HIDE DEF a
<1>10. /\ chip' \in Chips /\ ~chip'.setup /\ chip'.open /\ ~chip'.outIrq /\ chip'.out = c.out
       /\ (chip'.handshake <=> waits) /\ chip'.bulk = c.bulk
  <2> HIDE DEF waits
  <2>1. CASE waits
    BY <1>8, <1>9, <2>1
  <2>2. CASE ~waits
    <3>1. chip' = [a EXCEPT !.handshake = FALSE]
      BY <1>9, <2>2 DEF Released
    <3> QED BY <1>8, <2>2, <3>1 DEF Chips
  <2> QED BY <2>1, <2>2
<1>11. ~waits => (k = "version" /\ upg.status = "DOWNLOAD" => upg.block <= 0)
  BY <1>1 DEF NetTyped, Upgrades
<1> QED BY <1>2, <1>3, <1>4, <1>5, <1>7, <1>10, <1>11

\* A descriptor over the beginning of the buffer.
LEMMA ClobberedIs ==
  ASSUME NetTyped
  PROVE  /\ Clobbered \in Upgrades /\ Clobbered.status = upg.status /\ Clobbered.block = upg.block
         /\ Clobbered.header = upg.header /\ Clobbered.new = upg.new /\ Len(Clobbered.buf) = Len(upg.buf)
         /\ \A i \in 1..Len(upg.buf) : Clobbered.buf[i] \in {upg.buf[i], Descriptor}
         /\ Clobbered.buf = <<>> \/ Descriptor \in Range(Clobbered.buf)
<1>1. upg \in Upgrades /\ upg.buf \in Seq(Pieces) /\ Len(upg.buf) \in Nat
  BY DEF NetTyped, Upgrades
<1> DEFINE b == IF upg.buf = <<>> THEN upg.buf ELSE [upg.buf EXCEPT ![1] = Descriptor]
<1>2. Descriptor \in Pieces
  BY DEF Descriptor, Pieces, Named
<1>3. /\ b \in Seq(Pieces) /\ Len(b) = Len(upg.buf)
      /\ \A i \in 1..Len(upg.buf) : b[i] \in {upg.buf[i], Descriptor}
      /\ b = <<>> \/ Descriptor \in Range(b)
  <2>1. CASE upg.buf = <<>>
    BY <1>1, <2>1
  <2>2. CASE upg.buf # <<>>
    <3>1. b = [upg.buf EXCEPT ![1] = Descriptor] /\ 1 \in 1..Len(upg.buf)
      BY <1>1, <2>2
    <3>2. b \in Seq(Pieces) /\ Len(b) = Len(upg.buf) /\ DOMAIN b = 1..Len(upg.buf)
      BY <1>1, <1>2, <3>1
    <3>3. b[1] = Descriptor /\ \A i \in 1..Len(upg.buf) : i # 1 => b[i] = upg.buf[i]
      BY <1>1, <3>1
    <3> HIDE DEF b
    <3>4. Descriptor \in Range(b)
      BY <3>1, <3>2, <3>3 DEF Range
    <3> QED BY <3>2, <3>3, <3>4
  <2> QED BY <2>1, <2>2
<1>4. Clobbered = [upg EXCEPT !.buf = b]
  BY DEF Clobbered
<1> HIDE DEF b
<1> QED BY <1>1, <1>3, <1>4 DEF Upgrades

\* The end of a download.
LEMMA CompletedIs ==
  ASSUME NetTyped
  PROVE  /\ Completed \in Upgrades /\ Completed.header = upg.header /\ Completed.buf = upg.buf
         /\ Completed.new = upg.new
         /\ upg.status # "DOWNLOAD" => Completed = upg
         /\ upg.status = "DOWNLOAD" =>
              /\ Completed.block = 0
              /\ Completed.status = IF LengthIsRight THEN "WRITE" ELSE "UNUSED"
<1> DEFINE s == IF upg.status # "DOWNLOAD" THEN upg.status
                ELSE IF LengthIsRight THEN "WRITE" ELSE "UNUSED"
           n == IF upg.status = "DOWNLOAD" THEN 0 ELSE upg.block
<1>1. Completed = [upg EXCEPT !.status = s, !.block = n]
  BY DEF Completed
<1>2. upg \in Upgrades
  BY DEF NetTyped
<1>3. s \in {"UNUSED", "DOWNLOAD", "WRITE"} /\ n \in Int
  BY <1>2 DEF Upgrades
<1>4. /\ upg.status # "DOWNLOAD" => s = upg.status /\ n = upg.block
      /\ upg.status = "DOWNLOAD" => n = 0 /\ s = IF LengthIsRight THEN "WRITE" ELSE "UNUSED"
  OBVIOUS
<1> HIDE DEF s, n
<1>5. /\ Completed \in Upgrades /\ Completed.header = upg.header /\ Completed.buf = upg.buf
      /\ Completed.status = s /\ Completed.block = n /\ Completed.new = upg.new
      /\ s = upg.status /\ n = upg.block => Completed = upg
  BY <1>1, <1>2, <1>3 DEF Upgrades
<1> QED BY <1>4, <1>5

LEMMA Descriptors ==
  ASSUME NEW S, NEW b \in Seq(S), NEW d \in Seq(S), NEW c \in Seq(S), NEW e, Len(d) = Len(b),
         \A i \in 1..Len(b) : d[i] \in {b[i], e}
  PROVE  /\ Len(d \o c) = Len(b \o c) /\ Len(b \o c) \in Nat
         /\ \A i \in 1..Len(b \o c) : (d \o c)[i] \in {(b \o c)[i], e}
<1>1. Len(b) \in Nat /\ Len(c) \in Nat
  OBVIOUS
<1>2. /\ Len(b \o c) = Len(b) + Len(c) /\ Len(d \o c) = Len(b) + Len(c)
      /\ \A i \in 1..(Len(b) + Len(c)) : (b \o c)[i] = IF i <= Len(b) THEN b[i] ELSE c[i - Len(b)]
      /\ \A i \in 1..(Len(b) + Len(c)) : (d \o c)[i] = IF i <= Len(b) THEN d[i] ELSE c[i - Len(b)]
  <2>1. \A a \in Seq(S) : /\ Len(a \o c) = Len(a) + Len(c)
                           /\ \A i \in 1..(Len(a) + Len(c)) :
                                (a \o c)[i] = IF i <= Len(a) THEN a[i] ELSE c[i - Len(a)]
    OBVIOUS
  <2>2. /\ Len(b \o c) = Len(b) + Len(c)
        /\ \A i \in 1..(Len(b) + Len(c)) : (b \o c)[i] = IF i <= Len(b) THEN b[i] ELSE c[i - Len(b)]
    BY <2>1
  <2>3. /\ Len(d \o c) = Len(d) + Len(c)
        /\ \A i \in 1..(Len(d) + Len(c)) : (d \o c)[i] = IF i <= Len(d) THEN d[i] ELSE c[i - Len(d)]
    BY <2>1, Zenon
  <2>4. Len(d) = Len(b)
    OBVIOUS
  <2> QED BY <2>2, <2>3, <2>4, Zenon
<1>3. ASSUME NEW i \in 1..(Len(b) + Len(c)) PROVE (d \o c)[i] \in {(b \o c)[i], e}
  <2>1. i <= Len(b) => i \in 1..Len(b)
    BY <1>1
  <2>2. /\ (b \o c)[i] = IF i <= Len(b) THEN b[i] ELSE c[i - Len(b)]
        /\ (d \o c)[i] = IF i <= Len(b) THEN d[i] ELSE c[i - Len(b)]
    BY <1>2
  <2> QED BY <2>1, <2>2, Zenon
<1> QED BY <1>1, <1>2, <1>3

\* Held stays while the handler is at a SETUP that is neither of a block nor of an end.
LEMMA WithoutData == ASSUME NetSizes, NetInv, SetupWithoutData PROVE NetInv'
<1> DEFINE k == host.req.kind
<1>1. /\ isr = "idle" /\ chip.setup /\ k \in {"config", "version", "status", "end"}
      /\ chip' \in Chips /\ ~chip'.setup /\ chip'.open /\ ~chip'.outIrq
      /\ chip'.out \in {chip.out, <<>>} /\ chip'.bulk = chip.bulk
      /\ ctl' \in Controls /\ ctl'.req = host.req /\ ctl'.data = ctl.data
      /\ ctl'.outer = ctl.outer
      /\ IF k = "status" THEN ctl'.setup = ctl.setup /\ ctl'.receive = ctl.receive
                         ELSE ~ctl'.setup /\ ~ctl'.receive
      /\ k \in {"version", "status"} => upg' = upg
      /\ k = "config" => upg' = Clobbered
      /\ k = "end" => upg' = Completed
      /\ \/ /\ isr' = "wait" /\ k = "version" /\ chip'.handshake
            /\ upg.block > 0 /\ upg.status = "DOWNLOAD"
         \/ /\ isr' = "idle" /\ ~chip'.handshake
            /\ k = "version" /\ upg.status = "DOWNLOAD" => upg.block <= 0
      /\ UNCHANGED <<main, host, seen>>
  BY WithoutDataIs
<1>2. NetTyped /\ HostFollows /\ RequestFollows /\ HandlerFollows
  BY DEF NetInv, NetBase
<1>3. /\ upg' \in Upgrades /\ upg'.header = upg.header /\ upg.block \in Int /\ upg'.block \in Int
      /\ upg'.block = upg.block \/ upg'.block = 0
      /\ k # "end" => upg'.status = upg.status /\ upg'.block = upg.block
      /\ upg.status # "DOWNLOAD" => upg'.status = upg.status
      /\ k = "end" => upg'.status # "DOWNLOAD"
      /\ Len(upg'.buf) = Len(upg.buf) /\ upg'.new = upg.new /\ upg.new \in Nat
  <2>1. upg \in Upgrades
    BY <1>2 DEF NetTyped
  <2>2. upg' \in Upgrades
    BY <1>1, <1>2, <2>1, ClobberedIs, CompletedIs
  <2> HIDE DEF k
  <2>3. CASE k = "config"
    BY <1>1, <1>2, <2>1, <2>3, ClobberedIs DEF Upgrades
  <2>4. CASE k = "end"
    BY <1>1, <1>2, <2>1, <2>4, CompletedIs DEF Upgrades
  <2>5. CASE k \in {"version", "status"}
    BY <1>1, <2>1, <2>5 DEF Upgrades
  <2> QED BY <1>1, <2>2, <2>3, <2>4, <2>5
<1>4. NetTyped'
  BY <1>1, <1>2, <1>3 DEF NetTyped
<1>5. HostFollows' /\ RequestFollows' /\ HandlerFollows'
  <2>1. HostFollows'
    BY <1>1, <1>2 DEF HostFollows, HostIdle
  <2>2. main = "burn" => upg'.status = "WRITE"
    BY <1>2, <1>3 DEF RequestFollows
  <2>3. RequestFollows'
    BY <1>1, <1>2, <2>2 DEF RequestFollows, HostIdle
  <2>4. Len(chip'.out) <= 1
    BY <1>1, <1>2 DEF HandlerFollows, Inside, HasRead
  <2>5. HandlerFollows'
    BY <1>1, <1>2, <1>3, <2>4 DEF HandlerFollows, WithData, Inside, HasRead
  <2> QED BY <2>1, <2>3, <2>5
<1>6. Held => Held'
  BY <1>1, <1>3 DEF Held, ReadingBlock
<1>7. Kept' => KeptHost' /\ BlockFollows' /\ DataFollow' /\ HeaderFollows'
  <2> SUFFICES ASSUME Kept' PROVE KeptHost' /\ BlockFollows' /\ DataFollow' /\ HeaderFollows'
    OBVIOUS
  <2>1. KeptHost /\ BlockFollows /\ DataFollow /\ HeaderFollows
    BY <1>1 DEF NetInv, KeptInv, Kept
  <2>2. KeptHost'
    BY <1>1, <1>3, <2>1 DEF KeptHost, Latest, ReadingBlock, Inside, HasRead
  <2>3. BlockFollows'
    BY <1>1, <1>3, <2>1 DEF BlockFollows, KeptHost, ReadingBlock, Due
  <2>4. DataFollow'
    BY <1>1, <1>3, <2>1 DEF DataFollow, Due, ReadingBlock, HasRead
  <2>5. HeaderFollows'
    BY <1>1, <2>1 DEF HeaderFollows, Due, Inside, HasRead
  <2> QED BY <2>2, <2>3, <2>4, <2>5
<1>8. Kept' => TakenFollows'
  <2> SUFFICES ASSUME Kept', upg'.status = "DOWNLOAD" PROVE TakenFollows'
    BY DEF TakenFollows
  <2>1. TakenFollows /\ upg.status = "DOWNLOAD" /\ k # "end"
    BY <1>1, <1>2, <1>3, CompletedIs DEF NetInv, KeptInv, Kept
  <2>2. FileSent = host.file /\ FileSent' = host.file
    BY <1>1, <2>1 DEF FileSent
  <2>3. CASE upg' = upg
    BY <1>1, <1>6, <2>1, <2>2, <2>3 DEF TakenFollows, Taken
  <2>4. CASE upg' = Clobbered
    <3> DEFINE T == Taken
               n == Len(Taken)
               s == host.sent
    <3>1. upg.buf \in Seq(Pieces) /\ upg'.buf \in Seq(Pieces) /\ chip.bulk \in Seq(Pieces) /\ s \in Nat
      BY <1>2, <1>3 DEF NetTyped, Chips, Upgrades, Hosts
    <3>2. /\ Len(upg'.buf \o chip.bulk) = Len(upg.buf \o chip.bulk) /\ Len(upg.buf \o chip.bulk) \in Nat
          /\ \A i \in 1..Len(upg.buf \o chip.bulk) :
               (upg'.buf \o chip.bulk)[i] \in {(upg.buf \o chip.bulk)[i], Descriptor}
      <4> DEFINE b == upg.buf
                 d == upg'.buf
                 c == chip.bulk
      <4>1. /\ b \in Seq(Pieces) /\ d \in Seq(Pieces) /\ c \in Seq(Pieces) /\ Len(d) = Len(b)
            /\ \A i \in 1..Len(b) : d[i] \in {b[i], Descriptor}
        BY <1>2, <2>4, <3>1, ClobberedIs
      <4> HIDE DEF b, d, c
      <4>2. /\ Len(d \o c) = Len(b \o c) /\ Len(b \o c) \in Nat
            /\ \A i \in 1..Len(b \o c) : (d \o c)[i] \in {(b \o c)[i], Descriptor}
        BY <4>1, Descriptors
      <4> QED BY <4>2 DEF b, d, c
    <3>3. Taken = upg.buf \o chip.bulk /\ Taken' = upg'.buf \o chip.bulk
      BY <1>1 DEF Taken
    <3>4. Len(Taken') = n /\ n \in Nat /\ \A i \in 1..n : Taken'[i] \in {T[i], Descriptor}
      BY <3>2, <3>3, Zenon
    <3>5. /\ FileSent # NoFile /\ s <= n
          /\ \A i \in 1..s : T[n - s + i] \in {<<host.file, i>>, Descriptor}
          /\ upg.header \in {FileSent, NoFile} \/ n >= s + Size[upg.header] \/ Held
      BY <1>1, <2>1, <2>2 DEF TakenFollows
    <3> HIDE DEF T, n, s
    <3>6. ASSUME NEW i \in 1..s PROVE Taken'[n - s + i] \in {<<host.file, i>>, Descriptor}
      <4>1. n - s + i \in 1..n
        BY <3>1, <3>4, <3>5
      <4> QED BY <3>4, <3>5, <4>1
    <3>7. host'.sent = s
      BY <1>1 DEF s
    <3>8. \A i \in 1..host'.sent : Taken'[Len(Taken') - host'.sent + i] \in {<<FileSent', i>>, Descriptor}
      BY <2>2, <3>4, <3>6, <3>7, Zenon
    <3> QED BY <1>3, <1>6, <2>2, <3>4, <3>5, <3>7, <3>8 DEF TakenFollows
  <2> QED BY <1>1, <2>1, <2>3, <2>4
<1>9. Kept' => WholeInBuf'
  <2> SUFFICES ASSUME Kept', upg'.status = "WRITE"
               PROVE  /\ host.file # NoFile /\ host.sent > 0 => chip.bulk # <<>>
                      /\ Descriptor \notin Range(upg'.buf) => seen.file # NoFile /\ upg'.buf = Whole(seen.file)
    BY <1>1 DEF WholeInBuf
  <2>1. WholeInBuf /\ TakenFollows /\ KeptHost /\ ~seen.abandoned
    BY <1>1 DEF NetInv, KeptInv, Kept
  <2>2. CASE upg' = upg
    BY <2>1, <2>2 DEF WholeInBuf
  <2>3. CASE upg' = Clobbered
    <3>1. upg.status = "WRITE" /\ (Descriptor \notin Range(upg'.buf) => upg'.buf = <<>> /\ Len(upg.buf) = 0)
      BY <1>2, <1>3, <2>3, ClobberedIs
    <3>2. Descriptor \notin Range(upg'.buf) => upg.buf = <<>> /\ upg'.buf = <<>>
      BY <1>2, <3>1 DEF NetTyped, Upgrades
    <3> QED BY <2>1, <3>1, <3>2 DEF WholeInBuf
  <2>4. CASE upg' = Completed /\ k = "end" /\ upg.status = "DOWNLOAD"
    <3> SUFFICES ASSUME Descriptor \notin Range(upg'.buf) PROVE seen.file # NoFile /\ upg'.buf = Whole(seen.file)
      BY <1>2, <2>4 DEF HostFollows
    <3> DEFINE f == host.req.file
               b == upg.buf
    <3>1. /\ upg'.header = upg.header /\ upg'.buf = b /\ LengthIsRight
          /\ upg.header # NoFile /\ Len(b) = Size[upg.header]
      <4>1. upg.new = 0 /\ Len(b) \in Nat
        BY <1>1, <1>2, <2>1, <2>4 DEF KeptHost, ReadingBlock, HandlerFollows, NetTyped, Upgrades
      <4>2. upg'.buf = b /\ LengthIsRight
        BY <1>2, <2>4, CompletedIs
      <4> QED BY <1>3, <4>1, <4>2 DEF LengthIsRight, Counted
    <3>2. /\ chip.bulk = <<>> /\ host.sent = Size[f] /\ FileSent = f /\ f # NoFile
      BY <1>1, <2>1, <2>4 DEF KeptHost, FileSent, TakenFollows, ReadingBlock
    <3>3. b \in Seq(Pieces) /\ Taken = b
      BY <1>2, <3>2 DEF NetTyped, Upgrades, Taken
    <3>4. f \in Files /\ upg.header \in Files /\ Size[f] \in Nat \ {0} /\ Size[upg.header] \in Nat \ {0}
      BY <1>2, <3>1, <3>2 DEF NetTyped, Hosts, Upgrades, Requests, Named, NetSizes
    <3>5. ~Held
      BY <3>2 DEF Held, ReadingBlock
    <3>6. /\ Size[f] <= Len(b)
          /\ \A i \in 1..Size[f] : b[Len(b) - Size[f] + i] \in {<<f, i>>, Descriptor}
          /\ upg.header = f \/ Len(b) >= Size[f] + Size[upg.header]
      <4>1. isr # "wait"
        BY <1>1
      <4> QED BY <2>1, <2>4, <3>1, <3>2, <3>3, <3>5, <4>1, Zenon DEF TakenFollows
    <3>11. upg'.buf = b /\ seen.file = f
      BY <1>2, <2>4, <3>1 DEF HostFollows
    <3> HIDE DEF f, b
    <3>7. upg.header = f
      BY <3>1, <3>4, <3>6
    <3>8. Len(b) = Size[f] /\ DOMAIN b = 1..Size[f]
      BY <3>1, <3>3, <3>7
    <3>9. ASSUME NEW i \in 1..Size[f] PROVE b[i] = <<f, i>>
      <4>1. Len(b) - Size[f] + i = i
        BY <3>4, <3>8
      <4>2. b[i] # Descriptor
        BY <3>1, <3>8 DEF Range
      <4> QED BY <3>6, <4>1, <4>2
    <3>10. b = Whole(f)
      <4>1. b = [i \in 1..Size[f] |-> b[i]]
        BY <3>3, <3>8
      <4> QED BY <3>9, <4>1, Zenon DEF Whole
    <3> QED BY <3>2, <3>10, <3>11
  <2> QED BY <1>1, <1>2, <2>2, <2>3, <2>4, CompletedIs
<1>10. KeptInv'
  BY <1>7, <1>8, <1>9 DEF KeptInv
<1>11. InOrder' => ChunksFollow'
  <2> SUFFICES ASSUME InOrder' PROVE ChunksFollow'
    OBVIOUS
  <2>1. ~ctl.setup /\ ~ctl.receive /\ chip.out = <<>> /\ ctl.outer = 0
    BY <1>1 DEF NetInv, CalmInv, InOrder, ChunksFollow, SecondFollows, Inside, HasRead
  <2>2. /\ ~ctl'.setup /\ ~ctl'.receive /\ chip'.out = <<>> /\ isr' \in {"wait", "idle"}
        /\ ctl'.outer = 0
    BY <1>1, <2>1
  <2> QED BY <1>1, <2>2 DEF ChunksFollow, SecondFollows, Inside, HasRead
<1>12. Calm' => CalmHost' /\ AllTaken' /\ BlockIsRead' /\ EndsCount'
  <2> SUFFICES ASSUME Calm' PROVE CalmHost' /\ AllTaken' /\ BlockIsRead' /\ EndsCount'
    OBVIOUS
  <2>1. /\ CalmHost /\ AllTaken /\ BlockIsRead /\ EndsCount
        /\ ~ctl.setup /\ ~ctl.receive /\ ~ctl'.setup /\ ~ctl'.receive
    BY <1>1 DEF NetInv, CalmInv, Calm, InOrder, ChunksFollow, SecondFollows, Inside, HasRead
  <2>2. /\ ~NotHandled /\ ~NotHandled' /\ ~Pending' /\ (Pending <=> k = "end")
        /\ FileSent = (IF k = "end" THEN host.req.file ELSE host.file) /\ FileSent' = host.file
        /\ ~Latest("block") /\ ~Latest("block")'
    BY <1>1, <2>1 DEF NotHandled, Pending, FileSent, Latest, Inside, HasRead
  <2>3. k = "end" => host.file = NoFile /\ host.block = 0 /\ chip.bulk = <<>> /\ ~ReadingBlock /\ host.req.file # NoFile
    BY <1>2, <2>1 DEF HostFollows, CalmHost, ReadingBlock
  <2>4. k = "end" => LengthIsRight /\ upg.status = "DOWNLOAD" /\ main # "burn" /\ upg'.status = "WRITE"
    <3>1. k = "end" => /\ upg.status = "DOWNLOAD" /\ upg.header = FileSent /\ FileSent # NoFile
                       /\ Len(upg.buf) = Size[upg.header]
      BY <2>1, <2>2, <2>3 DEF AllTaken
    <3>2. k = "end" => LengthIsRight /\ upg.status = "DOWNLOAD"
      BY <1>2, <2>3, <3>1 DEF LengthIsRight, Counted, HandlerFollows, ReadingBlock, NetTyped, Upgrades
    <3> QED BY <1>1, <1>2, <3>2, CompletedIs DEF RequestFollows
  <2>5. CalmHost'
    BY <1>1, <1>3, <2>1, <2>2, <2>3 DEF CalmHost, ReadingBlock
  <2>6. AllTaken'
    BY <1>1, <1>3, <2>1, <2>2, <2>3 DEF AllTaken
  <2>7. BlockIsRead'
    BY <1>1, <1>3, <2>1, <2>2, <2>3 DEF BlockIsRead, ReadingBlock, HasRead
  <2>8. EndsCount'
    BY <1>1, <1>2, <1>3, <2>1, <2>2, <2>4 DEF EndsCount, NetTyped, Histories
  <2> QED BY <2>5, <2>6, <2>7, <2>8
<1>13. PunctualInv'
  <2> SUFFICES ASSUME Punctual' PROVE PunctualInv'
    BY DEF PunctualInv, ReadingBlock, HasRead
  <2>1. Punctual /\ PunctualInv /\ ~ctl'.setup /\ isr' \in {"wait", "idle"}
    BY <1>1 DEF NetInv, CalmInv, InOrder, ChunksFollow, Punctual, SecondFollows, Inside, HasRead
  <2>2. host.block \in Nat /\ Len(chip.bulk) \in Nat
    BY <1>2 DEF NetTyped, Hosts, Chips
  <2> QED BY <1>1, <1>3, <2>1, <2>2 DEF PunctualInv, Latest, ReadingBlock, HasRead, Inside
<1> QED BY <1>4, <1>5, <1>10, <1>11, <1>12, <1>13 DEF NetInv, NetBase, CalmInv

\* A request with data: its packets are let in, and read as soon as the SETUP is handled.
LEMMA WithDataEntered == ASSUME NetSizes, NetInv, SetupWithData PROVE NetInv'
<1> DEFINE k == host.req.kind
<1>1. /\ isr = "idle" /\ chip.setup /\ k \in WithData /\ chip' \in Entered(chip) /\ isr' = "read"
      /\ ctl' = [ctl EXCEPT !.req = host.req, !.count = 0, !.receive = TRUE]
      /\ UNCHANGED <<main, upg, host, seen>>
  BY DEF SetupWithData
<1>2. NetTyped /\ HostFollows /\ RequestFollows /\ HandlerFollows
  BY DEF NetInv, NetBase
<1>3. /\ chip' \in Chips /\ ~chip'.setup /\ chip'.open /\ ~chip'.outIrq
      /\ chip'.out \in {chip.out, <<>>} /\ chip'.handshake = chip.handshake /\ chip'.bulk = chip.bulk
  BY <1>1, <1>2, EnteredIs
<1>4. /\ ctl' \in Controls /\ ctl'.req = host.req /\ ctl'.data = ctl.data /\ ctl'.setup = ctl.setup
      /\ ctl'.count = 0 /\ ctl'.receive /\ ctl'.outer = ctl.outer
  <2> DEFINE z == 0
  <2>1. ctl' = [ctl EXCEPT !.req = host.req, !.count = z, !.receive = TRUE]
    BY <1>1
  <2>2. z \in 0..2 /\ host.req \in Requests
    BY <1>2 DEF NetTyped, Hosts
  <2>3. z = 0
    OBVIOUS
  <2> HIDE DEF z
  <2> QED BY <1>2, <2>1, <2>2, <2>3 DEF NetTyped, Controls
<1>5. k \in {"header", "block"}
  BY <1>1 DEF WithData
<1>6. NetTyped'
  BY <1>1, <1>2, <1>3, <1>4 DEF NetTyped
<1>7. HostFollows' /\ RequestFollows' /\ HandlerFollows'
  <2>1. HostFollows'
    BY <1>1, <1>2 DEF HostFollows, HostIdle
  <2>2. RequestFollows'
    BY <1>1, <1>2, <1>3, <1>4 DEF RequestFollows, HostIdle
  <2>3. Len(chip'.out) <= 1
    BY <1>2, <1>3 DEF HandlerFollows, Inside, HasRead
  <2>4. host.chunk = 0 /\ ~HostIdle
    BY <1>1, <1>2 DEF RequestFollows
  <2>5. k = "block" => host.block > 0
    BY <1>2 DEF HostFollows
  <2>6. HandlerFollows'
    BY <1>1, <1>2, <1>3, <1>4, <2>3, <2>4, <2>5 DEF HandlerFollows, WithData, Inside, HasRead
  <2> QED BY <2>1, <2>2, <2>6
<1>8. Held => Held'
  BY <1>1, <1>3, <1>4 DEF Held, ReadingBlock
<1>9. Kept' => KeptHost' /\ BlockFollows' /\ DataFollow' /\ HeaderFollows' /\ TakenFollows' /\ WholeInBuf'
  <2> SUFFICES ASSUME Kept'
               PROVE  KeptHost' /\ BlockFollows' /\ DataFollow' /\ HeaderFollows' /\ TakenFollows' /\ WholeInBuf'
    OBVIOUS
  <2>1. KeptHost /\ BlockFollows /\ DataFollow /\ HeaderFollows /\ TakenFollows /\ WholeInBuf
    BY <1>1 DEF NetInv, KeptInv, Kept
  <2>2. KeptHost'
    BY <1>1, <1>3, <2>1 DEF KeptHost, Latest, ReadingBlock, Inside, HasRead
  <2>3. BlockFollows'
    BY <1>1, <1>3, <1>4, <2>1 DEF BlockFollows, ReadingBlock, Due
  <2>4. DataFollow'
    BY <1>1, <1>3, <1>4, <2>1 DEF DataFollow, Due, ReadingBlock, HasRead
  <2>5. HeaderFollows'
    <3>1. k = "header" => host.file = host.req.file /\ host.file # NoFile /\ host.sent = 0 /\ host.block = 0
      BY <1>2 DEF HostFollows
    <3>2. k = "header" /\ Due => Held
      BY <1>1, <2>1 DEF HeaderFollows, Due, Inside, HasRead
    <3> HIDE DEF k
    <3> QED BY <1>1, <1>3, <1>4, <1>8, <3>1, <3>2 DEF HeaderFollows, k, Due, Inside, HasRead
  <2>6. TakenFollows'
    BY <1>1, <1>3, <1>5, <1>8, <2>1 DEF TakenFollows, FileSent, Taken
  <2>7. WholeInBuf'
    BY <1>1, <1>3, <2>1 DEF WholeInBuf
  <2> QED BY <2>2, <2>3, <2>4, <2>5, <2>6, <2>7
<1>10. InOrder' => ChunksFollow'
  <2> SUFFICES ASSUME InOrder' PROVE ChunksFollow'
    OBVIOUS
  <2>1. ~ctl.setup /\ ~ctl.receive /\ chip.out = <<>> /\ ctl.outer = 0
    BY <1>1 DEF NetInv, CalmInv, InOrder, ChunksFollow, SecondFollows, Inside, HasRead
  <2>2. ~ctl'.setup /\ ctl'.receive /\ chip'.out = <<>> /\ ctl'.outer = 0 /\ host.chunk = 0 /\ host.file # NoFile
    BY <1>1, <1>2, <1>3, <1>4, <1>5, <2>1 DEF RequestFollows, HostFollows
  <2> QED BY <1>1, <1>3, <1>4, <2>2 DEF ChunksFollow, SecondFollows, Inside, HasRead
<1>11. Calm' => CalmHost' /\ AllTaken' /\ BlockIsRead' /\ EndsCount'
  <2> SUFFICES ASSUME Calm' PROVE CalmHost' /\ AllTaken' /\ BlockIsRead' /\ EndsCount'
    OBVIOUS
  <2>1. /\ CalmHost /\ AllTaken /\ BlockIsRead /\ EndsCount
        /\ ~ctl.setup /\ ~ctl.receive /\ ~ctl'.setup
    BY <1>1, <1>4 DEF NetInv, CalmInv, Calm, InOrder, ChunksFollow, SecondFollows, Inside, HasRead
  <2>2. /\ (NotHandled <=> k = "header") /\ (NotHandled' <=> k = "header") /\ ~Pending' /\ ~Pending
        /\ FileSent = host.file /\ FileSent' = host.file
        /\ (Latest("block") <=> k = "block") /\ (Latest("block")' <=> k = "block")
    BY <1>1, <1>3, <1>4, <1>5, <2>1 DEF NotHandled, Pending, FileSent, Latest, Inside, HasRead
  <2>3. CalmHost'
    BY <1>1, <1>3, <2>1, <2>2 DEF CalmHost, ReadingBlock
  <2>4. AllTaken'
    BY <1>1, <1>3, <2>1, <2>2 DEF AllTaken
  <2>5. BlockIsRead'
    BY <1>1, <1>3, <2>1, <2>2 DEF BlockIsRead, ReadingBlock, HasRead
  <2>6. EndsCount'
    BY <1>1, <2>1, <2>2 DEF EndsCount
  <2> QED BY <2>3, <2>4, <2>5, <2>6
<1>12. PunctualInv'
  <2> SUFFICES ASSUME Punctual' PROVE PunctualInv'
    BY DEF PunctualInv, ReadingBlock, HasRead
  <2>1. Punctual /\ PunctualInv /\ ~ctl'.setup
    BY <1>1, <1>4 DEF NetInv, CalmInv, InOrder, ChunksFollow, Punctual, SecondFollows, Inside, HasRead
  <2> QED BY <1>1, <1>3, <2>1 DEF PunctualInv, Latest, ReadingBlock, HasRead, Inside
<1> QED BY <1>6, <1>7, <1>9, <1>10, <1>11, <1>12 DEF NetInv, NetBase, KeptInv, CalmInv

\* What is read of the data of a request.
LEMMA ReceivedIs ==
  ASSUME NetTyped
  PROVE  /\ Received \in [1..2 -> Requests]
         /\ \A i \in 1..2 : Received[i] = IF i = ctl.count + 1 /\ chip.out # <<>>
                                            THEN chip.out[1] ELSE ctl.data[i]
<1>1. ctl \in Controls /\ chip.out \in Seq(Requests)
  BY DEF NetTyped, Chips
<1>2. chip.out # <<>> => chip.out[1] \in Requests
  BY <1>1
<1>3. \A i \in 1..2 : ctl.data[i] \in Requests
  BY <1>1 DEF Controls
<1> QED BY <1>2, <1>3 DEF Received

\* The first packet of the data, or nothing of it, is read with the SETUP.
LEMMA FirstRead == ASSUME NetSizes, NetInv, ReadFirst PROVE NetInv'
<1>1. /\ isr = "read" /\ ctl' = [ctl EXCEPT !.data = Received]
      /\ chip' = [chip EXCEPT !.out = <<>>, !.outIrq = FALSE]
      /\ isr' = CASE chip.out = <<>> -> "none"
                  [] ctl.req.kind = "header" /\ host.chunk = 1 -> "full"
                  [] OTHER -> "short"
      /\ seen' = [seen EXCEPT !.late = seen.late \/ host.chunk = 0]
      /\ UNCHANGED <<main, upg, host>>
  BY DEF ReadFirst
<1>2. NetTyped /\ HostFollows /\ RequestFollows /\ HandlerFollows
  BY DEF NetInv, NetBase
<1>3. /\ chip' \in Chips /\ chip'.setup = chip.setup /\ chip'.open = chip.open /\ ~chip'.outIrq
      /\ chip'.out = <<>> /\ chip'.handshake = chip.handshake /\ chip'.bulk = chip.bulk
  <2> DEFINE o == <<>>
  <2>1. o \in Seq(Requests) /\ chip \in Chips
    BY <1>2 DEF NetTyped
  <2>2. o = <<>> /\ chip' = [chip EXCEPT !.out = o, !.outIrq = FALSE]
    BY <1>1
  <2> HIDE DEF o
  <2> QED BY <2>1, <2>2 DEF Chips
<1>4. /\ seen' \in Histories /\ (seen'.late <=> seen.late \/ host.chunk = 0)
      /\ seen'.overtaken = seen.overtaken /\ seen'.abandoned = seen.abandoned
      /\ seen'.early = seen.early /\ seen'.ahead = seen.ahead
      /\ seen'.refused = seen.refused /\ seen'.file = seen.file
      /\ seen'.ended = seen.ended /\ seen'.burnt = seen.burnt
  <2> DEFINE l == seen.late \/ host.chunk = 0
  <2>1. l \in BOOLEAN /\ seen' = [seen EXCEPT !.late = l] /\ seen \in Histories
    BY <1>1, <1>2 DEF NetTyped
  <2> HIDE DEF l
  <2>2. /\ seen' \in Histories /\ seen'.late = l
        /\ seen'.overtaken = seen.overtaken /\ seen'.abandoned = seen.abandoned
        /\ seen'.early = seen.early /\ seen'.ahead = seen.ahead
        /\ seen'.refused = seen.refused /\ seen'.file = seen.file
        /\ seen'.ended = seen.ended /\ seen'.burnt = seen.burnt
    BY <2>1 DEF Histories
  <2> QED BY <2>2 DEF l
<1>5. /\ ~chip.setup /\ ~HostIdle /\ ctl.req = host.req /\ ctl.req.kind \in {"header", "block"}
      /\ ctl.count = 0 /\ ctl.receive /\ host.chunk \in {0, 1}
      /\ (host.chunk > 0 => chip.out = <<host.req>>)
  <2>1. host.chunk \in 0..2
    BY <1>2 DEF NetTyped, Hosts
  <2> QED BY <1>1, <1>2, <2>1 DEF RequestFollows, HandlerFollows, WithData, Inside, HasRead
<1>6. /\ ctl' \in Controls /\ ctl'.req = ctl.req /\ ctl'.count = ctl.count /\ ctl'.setup = ctl.setup
      /\ ctl'.receive = ctl.receive /\ ctl'.outer = ctl.outer
      /\ chip.out # <<>> => ctl'.data[1] = chip.out[1]
  <2>1. /\ Received \in [1..2 -> Requests]
        /\ \A i \in 1..2 : Received[i] = IF i = ctl.count + 1 /\ chip.out # <<>>
                                           THEN chip.out[1] ELSE ctl.data[i]
    BY <1>2, ReceivedIs
  <2>2. chip.out # <<>> => Received[1] = chip.out[1]
    BY <1>5, <2>1
  <2> QED BY <1>1, <1>2, <2>1, <2>2 DEF NetTyped, Controls
<1>7. isr' \in {"none", "short", "full"} /\ isr' \notin {"idle", "read", "wait"}
  BY <1>1
<1>8. /\ NetTyped' /\ Due' = Due /\ Inside /\ Inside' /\ HasRead' /\ ~HasRead
      /\ ReadingBlock' = ReadingBlock
  BY <1>1, <1>2, <1>3, <1>4, <1>6, <1>7 DEF NetTyped, Due, Inside, HasRead, ReadingBlock
<1>9. HostFollows' /\ RequestFollows' /\ HandlerFollows'
  <2>1. HostFollows'
    BY <1>1, <1>2, <1>4 DEF HostFollows, HostIdle
  <2>2. RequestFollows'
    BY <1>1, <1>2, <1>3, <1>5, <1>6, <1>7 DEF RequestFollows, HostIdle
  <2>3. Len(chip'.out) <= 1
    BY <1>3
  <2>4. HandlerFollows'
    BY <1>1, <1>2, <1>3, <1>5, <1>6, <1>7, <1>8, <2>3 DEF HandlerFollows, WithData
  <2> QED BY <2>1, <2>2, <2>4
<1>10. Held => Held'
  BY <1>1, <1>3, <1>5, <1>6, <1>7 DEF Held, ReadingBlock
<1>11. Latest("block")' = Latest("block") /\ FileSent' = FileSent /\ Taken' = Taken
  BY <1>1, <1>3, <1>8 DEF Latest, FileSent, Taken
<1>12. seen'.late \/ (/\ host.chunk = 1 /\ chip.out = <<host.req>> /\ ctl'.data[1] = ctl.req
                      /\ isr' = IF ctl.req.kind = "header" THEN "full" ELSE "short")
  BY <1>1, <1>4, <1>5, <1>6
<1>13. Kept' => KeptHost' /\ BlockFollows' /\ DataFollow' /\ HeaderFollows' /\ TakenFollows' /\ WholeInBuf'
  <2> SUFFICES ASSUME Kept'
               PROVE  KeptHost' /\ BlockFollows' /\ DataFollow' /\ HeaderFollows' /\ TakenFollows' /\ WholeInBuf'
    OBVIOUS
  <2>1. /\ KeptHost /\ BlockFollows /\ DataFollow /\ HeaderFollows /\ TakenFollows /\ WholeInBuf
        /\ ctl'.data[1] = ctl.req /\ isr' = IF ctl.req.kind = "header" THEN "full" ELSE "short"
    BY <1>4, <1>12 DEF NetInv, KeptInv, Kept
  <2>2. KeptHost'
    BY <1>1, <1>3, <1>5, <1>8, <1>11, <2>1 DEF KeptHost
  <2>3. BlockFollows'
    BY <1>1, <1>3, <1>5, <1>7, <1>8, <2>1 DEF BlockFollows
  <2>4. DataFollow'
    <3>1. /\ host.block \in Nat /\ (ctl.req.kind = "block" => host.block = ctl.req.size /\ chip.bulk = <<>>)
      BY <1>1, <1>2, <1>5, <1>8, <2>1 DEF HostFollows, KeptHost, Latest, NetTyped, Hosts
    <3>2. ctl.req.kind = "block" =>
            ctl'.data[1].kind = "block" /\ host.block + Len(chip.bulk) <= ctl'.data[1].size
      BY <2>1, <3>1
    <3> QED BY <1>1, <1>3, <1>5, <1>6, <1>7, <1>8, <2>1, <3>2 DEF DataFollow
  <2>5. HeaderFollows'
    BY <1>1, <1>3, <1>5, <1>6, <1>7, <1>8, <1>10, <2>1 DEF HeaderFollows
  <2>6. TakenFollows'
    BY <1>1, <1>7, <1>10, <1>11, <2>1 DEF TakenFollows
  <2>7. WholeInBuf'
    BY <1>1, <1>3, <1>4, <2>1 DEF WholeInBuf
  <2> QED BY <2>2, <2>3, <2>4, <2>5, <2>6, <2>7
<1>14. InOrder' => /\ InOrder /\ ChunksFollow /\ ~ctl.setup /\ ctl.outer = 0 /\ host.chunk = 1
                   /\ ctl'.data[1] = ctl.req
                   /\ isr' = IF ctl.req.kind = "header" THEN "full" ELSE "short"
  BY <1>4, <1>8, <1>12 DEF NetInv, CalmInv, InOrder, ChunksFollow
<1>15. InOrder' => ChunksFollow'
  BY <1>1, <1>3, <1>5, <1>6, <1>7, <1>8, <1>14 DEF ChunksFollow
<1>16. Calm' => CalmHost' /\ AllTaken' /\ BlockIsRead' /\ EndsCount'
  <2> SUFFICES ASSUME Calm' PROVE CalmHost' /\ AllTaken' /\ BlockIsRead' /\ EndsCount'
    OBVIOUS
  <2>1. /\ CalmHost /\ AllTaken /\ BlockIsRead /\ EndsCount /\ ~ctl.setup /\ ctl'.data[1] = ctl.req
    BY <1>4, <1>14 DEF NetInv, CalmInv, Calm, InOrder
  <2>2. /\ NotHandled' = NotHandled /\ ~Pending' /\ ~Pending
    BY <1>1, <1>3, <1>5, <1>6, <1>8 DEF NotHandled, Pending
  <2>3. CalmHost'
    BY <1>1, <1>3, <1>8, <2>1, <2>2 DEF CalmHost
  <2>4. AllTaken'
    BY <1>1, <1>3, <1>11, <2>1, <2>2 DEF AllTaken
  <2>5. BlockIsRead'
    <3>1. /\ Latest("block") <=> ctl.req.kind = "block"
          /\ ctl.req.kind = "block" => host.block = ctl'.data[1].size /\ host.block \in Nat
      BY <1>2, <1>5, <1>8, <2>1 DEF Latest, HostFollows, NetTyped, Hosts
    <3>2. upg.block \in Int /\ upg.new \in Nat /\ Len(chip.bulk) \in Nat
      BY <1>2 DEF NetTyped, Upgrades, Chips
    <3>3. ctl.req.kind = "block" =>
            IF ReadingBlock
              THEN host.block + Len(chip.bulk) + upg.new <= upg.block + ctl'.data[1].size
              ELSE host.block + Len(chip.bulk) <= ctl'.data[1].size
      <4>1. ctl.req.kind = "block" =>
              IF ReadingBlock THEN upg.block >= Len(chip.bulk) + upg.new ELSE chip.bulk = <<>>
        BY <2>1, <3>1 DEF BlockIsRead
      <4>2. chip.bulk = <<>> => Len(chip.bulk) = 0
        OBVIOUS
      <4> QED BY <3>1, <3>2, <4>1, <4>2
    <3> QED BY <1>1, <1>3, <1>6, <1>8, <1>11, <2>1, <3>1, <3>3 DEF BlockIsRead
  <2>6. EndsCount'
    BY <1>1, <1>4, <2>1, <2>2 DEF EndsCount
  <2> QED BY <2>3, <2>4, <2>5, <2>6
<1>17. PunctualInv'
  <2> SUFFICES ASSUME Punctual' PROVE PunctualInv'
    BY DEF PunctualInv
  <2>1. Punctual /\ PunctualInv /\ InOrder'
    BY <1>4 DEF NetInv, InOrder, Punctual
  <2>2. ctl.req.kind = "block" => ~ReadingBlock /\ ctl'.data[1].size = host.block
    BY <1>2, <1>5, <1>8, <1>14, <2>1 DEF PunctualInv, Latest, HostFollows
  <2>3. host.block \in Nat /\ Len(chip.bulk) \in Nat
    BY <1>2 DEF NetTyped, Hosts, Chips
  <2>4. host.block <= host.block + Len(chip.bulk)
    BY <2>3
  <2> QED BY <1>1, <1>3, <1>6, <1>8, <1>11, <1>14, <2>1, <2>2, <2>4 DEF PunctualInv
<1> QED BY <1>8, <1>9, <1>13, <1>15, <1>16, <1>17 DEF NetInv, NetBase, KeptInv, CalmInv

\* It is counted: a block is left to the main loop, and of a header the second packet is awaited.
LEMMA FirstCounted == ASSUME NetSizes, NetInv, CountFirst PROVE NetInv'
<1>1. /\ isr \in {"none", "short", "full"} /\ isr' = "idle" /\ UNCHANGED <<main, upg, host, seen>>
      /\ ctl' = [ctl EXCEPT !.count = IF isr = "none" THEN ctl.count ELSE ctl.count + 1,
                            !.setup = IF isr = "full" THEN ctl.setup ELSE TRUE,
                            !.receive = isr = "full"]
      /\ chip' = Released([chip EXCEPT !.outIrq = FALSE])
  BY DEF CountFirst
<1>2. NetTyped /\ HostFollows /\ RequestFollows /\ HandlerFollows
  BY DEF NetInv, NetBase
<1>3. /\ chip' \in Chips /\ chip'.setup = chip.setup /\ chip'.open = chip.open /\ ~chip'.outIrq
      /\ chip'.out = chip.out /\ ~chip'.handshake /\ chip'.bulk = chip.bulk
  BY <1>1, <1>2 DEF NetTyped, Chips, Released
<1>4. HasRead /\ Inside /\ ~HasRead' /\ ~Inside'
  BY <1>1 DEF HasRead, Inside
<1>5. /\ ~chip.setup /\ ~HostIdle /\ ctl.req = host.req /\ ctl.req.kind \in {"header", "block"}
      /\ ctl.count = 0 /\ chip.out \in {<<>>, <<ctl.req>>}
      /\ isr = "full" => ctl.req.kind = "header" /\ host.chunk > 0
  BY <1>1, <1>2, <1>4 DEF RequestFollows, HandlerFollows, WithData
<1>6. /\ ctl' \in Controls /\ ctl'.req = ctl.req /\ ctl'.data = ctl.data /\ ctl'.outer = ctl.outer
      /\ isr = "full" => ctl'.count = 1 /\ ctl'.setup = ctl.setup /\ ctl'.receive
      /\ isr # "full" => ctl'.setup /\ ~ctl'.receive
  <2> DEFINE z == IF isr = "none" THEN ctl.count ELSE ctl.count + 1
             u == IF isr = "full" THEN ctl.setup ELSE TRUE
             r == isr = "full"
  <2>1. ctl' = [ctl EXCEPT !.count = z, !.setup = u, !.receive = r] /\ ctl \in Controls
    BY <1>1, <1>2 DEF NetTyped
  <2>2. /\ z \in 0..2 /\ u \in BOOLEAN /\ r \in BOOLEAN
        /\ isr = "full" => z = 1 /\ u = ctl.setup /\ r
        /\ isr # "full" => u /\ ~r
    <3>1. ctl.count = 0 /\ ctl.setup \in BOOLEAN
      BY <1>5, <2>1 DEF Controls
    <3>2. z \in 0..2 /\ (isr = "full" => z = 1)
      BY <3>1
    <3>3. u \in BOOLEAN /\ (isr = "full" => u = ctl.setup) /\ (isr # "full" => u)
      BY <3>1
    <3>4. r \in BOOLEAN /\ (isr = "full" => r) /\ (isr # "full" => ~r)
      OBVIOUS
    <3> HIDE DEF z, u, r
    <3> QED BY <3>2, <3>3, <3>4
  <2> HIDE DEF z, u, r
  <2>3. /\ ctl' \in Controls /\ ctl'.req = ctl.req /\ ctl'.data = ctl.data /\ ctl'.outer = ctl.outer
        /\ ctl'.count = z /\ ctl'.setup = u /\ ctl'.receive = r
    BY <2>1, <2>2 DEF Controls
  <2> QED BY <2>2, <2>3
<1>7. NetTyped' /\ ReadingBlock' = ReadingBlock /\ (Due => Due')
  BY <1>1, <1>2, <1>3, <1>6 DEF NetTyped, ReadingBlock, Due
<1>8. HostFollows' /\ RequestFollows' /\ HandlerFollows'
  <2>1. HostFollows'
    BY <1>1, <1>2 DEF HostFollows, HostIdle
  <2>2. RequestFollows'
    BY <1>1, <1>2, <1>3, <1>5, <1>6 DEF RequestFollows, HostIdle
  <2>3. Len(chip'.out) <= 1
    BY <1>2, <1>3 DEF HandlerFollows
  <2>4. HandlerFollows'
    BY <1>1, <1>2, <1>3, <1>4, <1>5, <1>6, <2>3 DEF HandlerFollows
  <2> QED BY <2>1, <2>2, <2>4
<1>9. Held => Held'
  BY <1>1, <1>3, <1>5, <1>6 DEF Held, ReadingBlock
<1>10. /\ FileSent' = FileSent /\ Taken' = Taken /\ ~Latest("block")'
       /\ (Latest("block") <=> ctl.req.kind = "block")
  BY <1>1, <1>3, <1>4, <1>5 DEF Latest, FileSent, Taken
<1>11. Kept' => KeptHost' /\ BlockFollows' /\ DataFollow' /\ HeaderFollows' /\ TakenFollows' /\ WholeInBuf'
  <2> SUFFICES ASSUME Kept'
               PROVE  KeptHost' /\ BlockFollows' /\ DataFollow' /\ HeaderFollows' /\ TakenFollows' /\ WholeInBuf'
    OBVIOUS
  <2>1. KeptHost /\ BlockFollows /\ DataFollow /\ HeaderFollows /\ TakenFollows /\ WholeInBuf
    BY <1>1 DEF NetInv, KeptInv, Kept
  <2>2. /\ ctl.req.kind = "header" => isr = "full"
        /\ ctl.req.kind = "block" => /\ host.file # NoFile /\ host.block > 0
                                     /\ ~ReadingBlock /\ upg.block <= 0
    BY <1>2, <1>4, <1>5, <1>10, <2>1 DEF HostFollows, KeptHost, HeaderFollows
  <2>3. host.block \in Nat
    BY <1>2 DEF NetTyped, Hosts
  <2>4. Due' <=> Due \/ ctl.req.kind = "block"
    BY <1>1, <1>5, <1>6, <2>2 DEF Due
  <2>5. KeptHost'
    BY <1>1, <1>3, <1>5, <1>7, <1>10, <2>1 DEF KeptHost
  <2>6. BlockFollows'
    BY <1>1, <1>3, <1>5, <1>7, <2>1, <2>2, <2>4 DEF BlockFollows
  <2>7. DataFollow'
    BY <1>1, <1>3, <1>4, <1>5, <1>6, <1>7, <2>1, <2>2, <2>3, <2>4 DEF DataFollow
  <2>8. HeaderFollows'
    BY <1>1, <1>3, <1>4, <1>5, <1>6, <1>9, <2>1, <2>2, <2>4 DEF HeaderFollows, Due
  <2>9. TakenFollows'
    BY <1>1, <1>9, <1>10, <2>1 DEF TakenFollows
  <2>10. WholeInBuf'
    BY <1>1, <1>3, <2>1 DEF WholeInBuf
  <2> QED BY <2>5, <2>6, <2>7, <2>8, <2>9, <2>10
<1>12. InOrder' =>
         /\ InOrder /\ ChunksFollow /\ ~ctl.setup /\ ctl.outer = 0 /\ host.chunk > 0
         /\ chip.out = IF host.chunk < 2 THEN <<>> ELSE <<ctl.req>>
         /\ ctl.req.kind = "header" => isr = "full"
         /\ ctl.req.kind = "block" => isr # "full" /\ ctl.data[1].kind = "block" /\ host.chunk = 1
  <2> SUFFICES ASSUME InOrder'
               PROVE  /\ InOrder /\ ChunksFollow /\ ~ctl.setup /\ ctl.outer = 0 /\ host.chunk > 0
                      /\ chip.out = IF host.chunk < 2 THEN <<>> ELSE <<ctl.req>>
                      /\ ctl.req.kind = "header" => isr = "full"
                      /\ ctl.req.kind = "block" => /\ isr # "full" /\ ctl.data[1].kind = "block"
                                                   /\ host.chunk = 1
    OBVIOUS
  <2>1. InOrder /\ ChunksFollow
    BY <1>1 DEF NetInv, CalmInv, InOrder
  <2>2. host.chunk \in 0..2 /\ (ctl.req.kind = "block" => host.chunk <= 1)
    BY <1>2, <1>5 DEF NetTyped, Hosts, HostFollows, Chunks
  <2> QED BY <1>4, <1>5, <2>1, <2>2 DEF ChunksFollow
<1>13. InOrder' => ChunksFollow'
  <2> SUFFICES ASSUME InOrder' PROVE ChunksFollow'
    OBVIOUS
  <2>1. host.file # NoFile /\ (ctl.req.kind = "header" => host.file = ctl.req.file)
    BY <1>2, <1>5 DEF HostFollows
  <2>2. host' = host /\ HostIdle' = HostIdle
    BY <1>1 DEF HostIdle
  <2>3. CASE ctl.req.kind = "header"
    <3>1. SecondFollows'
      BY <1>3, <1>5, <1>6, <1>12, <2>1, <2>2, <2>3 DEF SecondFollows
    <3> QED BY <1>1, <1>3, <1>4, <1>5, <1>6, <1>12, <2>1, <2>2, <2>3, <3>1 DEF ChunksFollow, WithData
  <2>4. CASE ctl.req.kind = "block"
    BY <1>1, <1>3, <1>4, <1>5, <1>6, <1>12, <2>1, <2>2, <2>4 DEF ChunksFollow, WithData
  <2> QED BY <1>5, <2>3, <2>4
<1>14. Calm' => CalmHost' /\ AllTaken' /\ BlockIsRead' /\ EndsCount'
  <2> SUFFICES ASSUME Calm' PROVE CalmHost' /\ AllTaken' /\ BlockIsRead' /\ EndsCount'
    OBVIOUS
  <2>1. CalmHost /\ AllTaken /\ BlockIsRead /\ EndsCount /\ InOrder'
    BY <1>1 DEF NetInv, CalmInv, Calm, InOrder
  <2>2. NotHandled' = NotHandled /\ ~Pending' /\ ~Pending
    BY <1>1, <1>3, <1>4, <1>5, <1>6, <1>12, <2>1 DEF NotHandled, Pending
  <2>3. CalmHost'
    BY <1>1, <1>3, <1>7, <2>1, <2>2 DEF CalmHost
  <2>4. AllTaken'
    BY <1>1, <1>3, <1>10, <2>1, <2>2 DEF AllTaken
  <2>5. BlockIsRead'
    <3>1. CASE ctl.req.kind = "block"
      BY <1>1, <1>3, <1>4, <1>6, <1>7, <1>10, <1>12, <2>1, <3>1 DEF BlockIsRead
    <3>2. CASE ctl.req.kind = "header"
      BY <1>1, <1>3, <1>4, <1>6, <1>7, <1>10, <1>12, <2>1, <3>2 DEF BlockIsRead
    <3> QED BY <1>5, <3>1, <3>2
  <2>6. EndsCount'
    BY <1>1, <2>1, <2>2 DEF EndsCount
  <2> QED BY <2>3, <2>4, <2>5, <2>6
<1>15. PunctualInv'
  <2> SUFFICES ASSUME Punctual' PROVE PunctualInv'
    BY DEF PunctualInv
  <2>1. Punctual /\ PunctualInv /\ InOrder'
    BY <1>1 DEF NetInv, InOrder, Punctual
  <2> QED BY <1>1, <1>3, <1>4, <1>5, <1>6, <1>7, <1>10, <1>12, <2>1 DEF PunctualInv
<1> QED BY <1>7, <1>8, <1>11, <1>13, <1>14, <1>15 DEF NetInv, NetBase, KeptInv, CalmInv

\* The last packet of a header is read, or one that nobody waits for is left where it is.
LEMMA LaterRead == ASSUME NetSizes, NetInv, Ep0Received PROVE NetInv'
<1>1. /\ isr = "idle" /\ ~chip.setup /\ chip.outIrq /\ UNCHANGED <<isr, main, upg, host, seen>>
      /\ IF ctl.receive
           THEN /\ ctl' = [ctl EXCEPT !.data = Received, !.outer = ctl.outer + 1]
                /\ chip' = [chip EXCEPT !.outIrq = FALSE, !.out = <<>>]
           ELSE ctl' = ctl /\ chip' = [chip EXCEPT !.outIrq = FALSE]
  BY DEF Ep0Received
<1>2. NetTyped /\ HostFollows /\ RequestFollows /\ HandlerFollows
  BY DEF NetInv, NetBase
<1>3. /\ chip' \in Chips /\ chip'.setup = chip.setup /\ chip'.open = chip.open /\ ~chip'.outIrq
      /\ chip'.out = (IF ctl.receive THEN <<>> ELSE chip.out)
      /\ chip'.handshake = chip.handshake /\ chip'.bulk = chip.bulk
  <2> DEFINE o == <<>>
  <2>1. o \in Seq(Requests) /\ chip \in Chips /\ o = <<>>
    BY <1>2 DEF NetTyped
  <2> HIDE DEF o
  <2>2. CASE ctl.receive
    <3>1. chip' = [chip EXCEPT !.outIrq = FALSE, !.out = o]
      BY <1>1, <2>1, <2>2
    <3> QED BY <2>1, <2>2, <3>1 DEF Chips
  <2>3. CASE ~ctl.receive
    <3>1. chip' = [chip EXCEPT !.outIrq = FALSE]
      BY <1>1, <2>3
    <3> QED BY <2>1, <2>3, <3>1 DEF Chips
  <2> QED BY <2>2, <2>3
<1>4. ~Inside /\ ~HasRead /\ ~Inside' /\ ~HasRead' /\ ReadingBlock' = ReadingBlock
  BY <1>1 DEF Inside, HasRead, ReadingBlock
<1>5. ctl.receive => /\ ctl.req.kind = "header" /\ ctl.count = 1 /\ chip.out # <<>>
                     /\ ctl' \in Controls /\ ctl'.outer = ctl.outer + 1 /\ ctl'.outer > 0
                     /\ ctl'.data[2] = chip.out[1]
                     /\ ctl'.count = ctl.count /\ ctl'.setup = ctl.setup
  <2> SUFFICES ASSUME ctl.receive
               PROVE  /\ ctl.req.kind = "header" /\ ctl.count = 1 /\ chip.out # <<>>
                      /\ ctl' \in Controls /\ ctl'.outer = ctl.outer + 1 /\ ctl'.outer > 0
                      /\ ctl'.data[2] = chip.out[1]
                      /\ ctl'.count = ctl.count /\ ctl'.setup = ctl.setup
    OBVIOUS
  <2>1. ctl.req.kind = "header" /\ ctl.count = 1 /\ chip.out # <<>>
    BY <1>1, <1>2, <1>4 DEF HandlerFollows, WithData
  <2>2. /\ Received \in [1..2 -> Requests]
        /\ \A i \in 1..2 : Received[i] = IF i = ctl.count + 1 /\ chip.out # <<>>
                                           THEN chip.out[1] ELSE ctl.data[i]
    BY <1>2, ReceivedIs
  <2>3. Received[2] = chip.out[1]
    BY <2>1, <2>2
  <2> DEFINE u == ctl.outer + 1
             r == Received
  <2>4. ctl \in Controls /\ ctl.outer \in Nat
    BY <1>2 DEF NetTyped, Controls
  <2>5. u \in Nat /\ u > 0 /\ u = ctl.outer + 1
    BY <2>4
  <2>6. ctl' = [ctl EXCEPT !.data = r, !.outer = u] /\ r \in [1..2 -> Requests] /\ r[2] = chip.out[1]
    BY <1>1, <2>2, <2>3
  <2> HIDE DEF u, r
  <2>7. /\ ctl' \in Controls /\ ctl'.outer = u /\ ctl'.data = r
        /\ ctl'.count = ctl.count /\ ctl'.setup = ctl.setup
    BY <2>4, <2>5, <2>6 DEF Controls
  <2> QED BY <2>1, <2>5, <2>6, <2>7
<1>6. /\ ctl' \in Controls /\ ctl'.req = ctl.req /\ ctl'.receive = ctl.receive
      /\ (~ctl.receive => ctl' = ctl) /\ ctl'.count = ctl.count /\ ctl'.setup = ctl.setup
  BY <1>1, <1>2, <1>5 DEF NetTyped, Controls
<1>7. NetTyped'
  BY <1>1, <1>2, <1>3, <1>6 DEF NetTyped
<1>8. HostFollows' /\ RequestFollows' /\ HandlerFollows'
  <2>1. HostFollows'
    BY <1>1, <1>2 DEF HostFollows, HostIdle
  <2>2. RequestFollows'
    BY <1>1, <1>2, <1>3, <1>6 DEF RequestFollows, HostIdle
  <2>3. Len(chip'.out) <= 1
    BY <1>2, <1>3 DEF HandlerFollows
  <2>4. HandlerFollows'
    BY <1>1, <1>2, <1>3, <1>4, <1>5, <1>6, <2>3 DEF HandlerFollows
  <2> QED BY <2>1, <2>2, <2>4
<1>9. Held => Held'
  BY <1>1, <1>3, <1>6 DEF Held, ReadingBlock
<1>10. FileSent' = FileSent /\ Taken' = Taken /\ ~Latest("block")' /\ ~Latest("block")
  BY <1>1, <1>3, <1>4 DEF Latest, FileSent, Taken
<1>11. Kept' => KeptHost' /\ BlockFollows' /\ DataFollow' /\ HeaderFollows' /\ TakenFollows' /\ WholeInBuf'
  <2> SUFFICES ASSUME Kept'
               PROVE  KeptHost' /\ BlockFollows' /\ DataFollow' /\ HeaderFollows' /\ TakenFollows' /\ WholeInBuf'
    OBVIOUS
  <2>1. KeptHost /\ BlockFollows /\ DataFollow /\ HeaderFollows /\ TakenFollows /\ WholeInBuf
    BY <1>1 DEF NetInv, KeptInv, Kept
  <2>2. host.sent \in Nat /\ host.block \in Nat
    BY <1>2 DEF NetTyped, Hosts
  <2>3. ctl.receive => /\ host.file = ctl.req.file /\ host.file # NoFile /\ host.sent = 0 /\ host.block = 0
                       /\ ctl'.data[2].file = ctl.req.file /\ Due'
    <3>1. ctl.receive => /\ host.file = ctl.req.file /\ host.file # NoFile /\ host.sent = 0
                         /\ chip.out = <<ctl.req>> /\ ~(host.block > 0)
      BY <1>1, <1>5, <2>1 DEF HeaderFollows
    <3> QED BY <1>5, <2>2, <3>1 DEF Due
  <2>4. ~ctl.receive => Due' = Due
    BY <1>6 DEF Due
  <2>5. KeptHost'
    BY <1>1, <1>3, <1>4, <1>10, <2>1 DEF KeptHost
  <2>6. BlockFollows'
    BY <1>1, <1>3, <1>4, <2>1, <2>3, <2>4 DEF BlockFollows
  <2>7. DataFollow'
    <3>1. CASE ctl.receive
      BY <1>1, <1>3, <1>4, <1>5, <1>6, <2>3, <3>1 DEF DataFollow
    <3>2. CASE ~ctl.receive
      BY <1>1, <1>3, <1>4, <1>6, <2>1, <2>4, <3>2 DEF DataFollow
    <3> QED BY <3>1, <3>2
  <2>8. HeaderFollows'
    <3>1. CASE ctl.receive
      BY <1>1, <1>3, <1>4, <1>5, <1>6, <1>9, <2>1, <2>2, <2>3, <3>1 DEF HeaderFollows
    <3>2. CASE ~ctl.receive
      BY <1>1, <1>3, <1>4, <1>6, <1>9, <2>1, <2>4, <3>2 DEF HeaderFollows
    <3> QED BY <3>1, <3>2
  <2>9. TakenFollows'
    BY <1>1, <1>9, <1>10, <2>1 DEF TakenFollows
  <2>10. WholeInBuf'
    BY <1>1, <1>3, <2>1 DEF WholeInBuf
  <2> QED BY <2>5, <2>6, <2>7, <2>8, <2>9, <2>10
<1>12. InOrder' => ChunksFollow' /\ InOrder
  <2> SUFFICES ASSUME InOrder' PROVE ChunksFollow' /\ InOrder
    OBVIOUS
  <2>1. InOrder /\ ChunksFollow
    BY <1>1 DEF NetInv, CalmInv, InOrder
  <2>2. CASE ctl.receive
    <3>1. /\ SecondFollows /\ chip.out = <<ctl.req>> /\ ctl.outer = 0
          /\ ~(~HostIdle /\ host.chunk < 2)
      BY <1>1, <1>5, <2>1, <2>2 DEF ChunksFollow, SecondFollows
    <3>2. ~HostIdle => host.chunk = 2
      <4>1. host.chunk \in 0..2
        BY <1>2 DEF NetTyped, Hosts
      <4> QED BY <3>1, <4>1
    <3>3. ctl'.data[2] = ctl.req /\ ctl'.outer = 1 /\ host' = host /\ HostIdle' = HostIdle
      BY <1>1, <1>5, <2>2, <3>1 DEF HostIdle
    <3>4. SecondFollows'
      BY <1>3, <1>5, <1>6, <2>2, <3>1, <3>2, <3>3 DEF SecondFollows
    <3> QED BY <1>1, <1>3, <1>4, <1>5, <1>6, <2>1, <2>2, <3>3, <3>4 DEF ChunksFollow
  <2>3. CASE ~ctl.receive
    BY <1>1, <1>3, <1>4, <1>6, <2>1, <2>3 DEF ChunksFollow, SecondFollows
  <2> QED BY <2>1, <2>2, <2>3
<1>13. Calm' => CalmHost' /\ AllTaken' /\ BlockIsRead' /\ EndsCount'
  <2> SUFFICES ASSUME Calm' PROVE CalmHost' /\ AllTaken' /\ BlockIsRead' /\ EndsCount'
    OBVIOUS
  <2>1. CalmHost /\ AllTaken /\ BlockIsRead /\ EndsCount
    BY <1>1 DEF NetInv, CalmInv, Calm, InOrder
  <2>2. NotHandled' = NotHandled /\ ~Pending' /\ ~Pending
    BY <1>1, <1>3, <1>4, <1>6 DEF NotHandled, Pending
  <2>3. CalmHost'
    BY <1>1, <1>3, <1>4, <2>1, <2>2 DEF CalmHost
  <2>4. AllTaken'
    BY <1>1, <1>3, <1>10, <2>1, <2>2 DEF AllTaken
  <2>5. ctl.req.kind = "block" => ctl' = ctl
    BY <1>5, <1>6
  <2>6. BlockIsRead'
    BY <1>1, <1>3, <1>4, <1>6, <1>10, <2>1, <2>5 DEF BlockIsRead
  <2>7. EndsCount'
    BY <1>1, <2>1, <2>2 DEF EndsCount
  <2> QED BY <2>3, <2>4, <2>6, <2>7
<1>14. PunctualInv'
  <2>1. Punctual' => Punctual /\ PunctualInv
    BY <1>1 DEF NetInv, InOrder, Punctual
  <2>2. ctl.req.kind = "block" => ctl' = ctl
    BY <1>5, <1>6
  <2> QED BY <1>1, <1>3, <1>4, <1>6, <1>10, <2>1, <2>2 DEF PunctualInv
<1> QED BY <1>7, <1>8, <1>11, <1>12, <1>13, <1>14 DEF NetInv, NetBase, KeptInv, CalmInv

\* A packet read behind a header is counted, and the header left to the main loop.
LEMMA LaterCounted == ASSUME NetSizes, NetInv, Ep0Counts PROVE NetInv'
<1>1. /\ isr = "idle" /\ ~chip.setup /\ ctl.outer > 0 /\ UNCHANGED <<chip, isr, main, upg, host, seen>>
      /\ ctl' = [ctl EXCEPT !.count = Least(2, ctl.count + 1), !.setup = TRUE, !.receive = FALSE,
                            !.outer = ctl.outer - 1]
  BY DEF Ep0Counts
<1>2. NetTyped /\ HostFollows /\ RequestFollows /\ HandlerFollows
  BY DEF NetInv, NetBase
<1>3. /\ ctl' \in Controls /\ ctl'.req = ctl.req /\ ctl'.data = ctl.data
      /\ ctl'.setup /\ ~ctl'.receive /\ ctl'.outer = ctl.outer - 1
      /\ ctl.count \in {1, 2} => ctl'.count = 2
  <2> DEFINE z == Least(2, ctl.count + 1)
             u == ctl.outer - 1
  <2>1. ctl \in Controls /\ ctl.count \in 0..2 /\ ctl.outer \in Nat
    BY <1>2 DEF NetTyped, Controls
  <2>2. z \in 0..2 /\ (ctl.count \in {1, 2} => z = 2) /\ u \in Nat
    BY <1>1, <2>1 DEF Least
  <2>3. ctl' = [ctl EXCEPT !.count = z, !.setup = TRUE, !.receive = FALSE, !.outer = u] /\ u = ctl.outer - 1
    BY <1>1
  <2> HIDE DEF z, u
  <2> QED BY <2>1, <2>2, <2>3 DEF Controls
<1>4. ~Inside /\ ~HasRead /\ ~Inside' /\ ~HasRead' /\ ReadingBlock' = ReadingBlock /\ Due /\ Due'
  BY <1>1, <1>3 DEF Inside, HasRead, ReadingBlock, Due
<1>5. NetTyped'
  BY <1>1, <1>2, <1>3 DEF NetTyped
<1>6. HostFollows' /\ RequestFollows' /\ HandlerFollows'
  <2>1. HostFollows'
    BY <1>1, <1>2 DEF HostFollows, HostIdle
  <2>2. RequestFollows'
    BY <1>1, <1>2, <1>3 DEF RequestFollows, HostIdle
  <2>3. HandlerFollows'
    BY <1>1, <1>2, <1>3, <1>4 DEF HandlerFollows
  <2> QED BY <2>1, <2>2, <2>3
<1>7. /\ Held => Held'
      /\ FileSent' = FileSent /\ Taken' = Taken /\ ~Latest("block")' /\ ~Latest("block")
  BY <1>1, <1>3, <1>4 DEF Held, Latest, FileSent, Taken
<1>8. Kept' => KeptHost' /\ BlockFollows' /\ DataFollow' /\ HeaderFollows' /\ TakenFollows' /\ WholeInBuf'
  <2> SUFFICES ASSUME Kept'
               PROVE  KeptHost' /\ BlockFollows' /\ DataFollow' /\ HeaderFollows' /\ TakenFollows' /\ WholeInBuf'
    OBVIOUS
  <2>1. KeptHost /\ BlockFollows /\ DataFollow /\ HeaderFollows /\ TakenFollows /\ WholeInBuf
    BY <1>1 DEF NetInv, KeptInv, Kept
  <2>2. KeptHost'
    BY <1>1, <1>4, <1>7, <2>1 DEF KeptHost
  <2>3. BlockFollows'
    BY <1>1, <1>4, <2>1 DEF BlockFollows
  <2>4. DataFollow'
    BY <1>1, <1>3, <1>4, <2>1 DEF DataFollow
  <2>5. HeaderFollows'
    BY <1>1, <1>3, <1>4, <1>7, <2>1 DEF HeaderFollows
  <2>6. TakenFollows'
    BY <1>1, <1>7, <2>1 DEF TakenFollows
  <2>7. WholeInBuf'
    BY <1>1, <2>1 DEF WholeInBuf
  <2> QED BY <2>2, <2>3, <2>4, <2>5, <2>6, <2>7
<1>9. InOrder' => /\ InOrder /\ ChunksFollow /\ ctl.outer = 1 /\ ctl'.outer = 0 /\ SecondFollows
                  /\ chip.out = <<>> /\ ctl.data[2] = ctl.req /\ (~HostIdle => host.chunk = 2)
  <2> SUFFICES ASSUME InOrder'
               PROVE  /\ InOrder /\ ChunksFollow /\ ctl.outer = 1 /\ ctl'.outer = 0 /\ SecondFollows
                      /\ chip.out = <<>> /\ ctl.data[2] = ctl.req /\ (~HostIdle => host.chunk = 2)
    OBVIOUS
  <2>1. InOrder /\ ChunksFollow
    BY <1>1 DEF NetInv, CalmInv, InOrder
  <2>2. SecondFollows
    BY <1>1, <2>1 DEF ChunksFollow
  <2> QED BY <1>1, <1>3, <2>1, <2>2 DEF SecondFollows
<1>10. InOrder' => ChunksFollow'
  <2> SUFFICES ASSUME InOrder' PROVE ChunksFollow'
    OBVIOUS
  <2>1. /\ ctl.req.kind = "header" /\ host.file = ctl.req.file /\ host.file # NoFile
        /\ ctl'.data[2] = ctl'.req /\ HostIdle' = HostIdle
        /\ host.req.kind = "header" => host.chunk = 2
        /\ host.req.kind = "block" => host.chunk = 1
    <3>1. host.req.kind = "header" => ~HostIdle
      BY DEF HostIdle, NoRequest, Req
    <3> QED BY <1>1, <1>3, <1>9, <3>1 DEF ChunksFollow, SecondFollows, HostIdle
  <2> QED BY <1>1, <1>3, <1>4, <1>9, <2>1 DEF ChunksFollow, WithData
<1>11. Calm' => CalmHost' /\ AllTaken' /\ BlockIsRead' /\ EndsCount'
  <2> SUFFICES ASSUME Calm' PROVE CalmHost' /\ AllTaken' /\ BlockIsRead' /\ EndsCount'
    OBVIOUS
  <2>1. CalmHost /\ AllTaken /\ BlockIsRead /\ EndsCount /\ ctl.req.kind = "header" /\ ctl.receive
    BY <1>1, <1>9 DEF NetInv, CalmInv, Calm, InOrder, SecondFollows
  <2>2. NotHandled' = NotHandled /\ ~Pending' /\ ~Pending
    BY <1>1, <1>3, <1>4, <2>1 DEF NotHandled, Pending
  <2>3. CalmHost'
    BY <1>1, <1>4, <2>1, <2>2 DEF CalmHost
  <2>4. AllTaken'
    BY <1>1, <1>7, <2>1, <2>2 DEF AllTaken
  <2>5. BlockIsRead'
    BY <1>1, <1>3, <1>4, <1>7, <2>1 DEF BlockIsRead
  <2>6. EndsCount'
    BY <1>1, <2>1, <2>2 DEF EndsCount
  <2> QED BY <2>3, <2>4, <2>5, <2>6
<1>12. PunctualInv'
  <2> SUFFICES ASSUME Punctual' PROVE PunctualInv'
    BY DEF PunctualInv
  <2>1. Punctual /\ PunctualInv /\ ctl.req.kind = "header"
    BY <1>1, <1>9 DEF NetInv, InOrder, Punctual, SecondFollows
  <2> QED BY <1>1, <1>3, <1>7, <2>1 DEF PunctualInv
<1> QED BY <1>5, <1>6, <1>8, <1>10, <1>11, <1>12 DEF NetInv, NetBase, KeptInv, CalmInv

\* What a handler reads is laid behind what is counted: at the end of the buffer, if the main
\* loop has counted all it has read.
LEMMA LaidIs ==
  ASSUME NetTyped
  PROVE  /\ Laid \in Seq(Pieces) /\ Len(Laid) = Len(upg.buf) + Len(chip.bulk)
         /\ upg.new = 0 => Laid = upg.buf \o chip.bulk
<1> DEFINE b == upg.buf
           c == chip.bulk
           m == Len(upg.buf)
           n == Len(chip.bulk)
           k == upg.new
<1>1. /\ b \in Seq(Pieces) /\ c \in Seq(Pieces) /\ m \in Nat /\ n \in Nat /\ k \in Nat
      /\ m = Len(b) /\ n = Len(c) /\ Old \in Pieces
  BY DEF NetTyped, Upgrades, Chips, Old, Pieces, Named
<1>2. Laid = [i \in 1..(m + n) |-> CASE i \in (m - k) + 1 .. (m - k) + n -> c[i - (m - k)]
                                     [] i > (m - k) + n /\ i > m -> Old
                                     [] OTHER -> b[i]]
  BY DEF Laid, Counted
<1>3. upg.new = k /\ upg.buf = b /\ chip.bulk = c
  OBVIOUS
<1> HIDE DEF b, c, m, n, k
<1>4. ASSUME NEW i \in 1..(m + n)
      PROVE  /\ Laid[i] \in Pieces
             /\ k = 0 => Laid[i] = IF i <= m THEN b[i] ELSE c[i - m]
  <2>1. CASE i \in (m - k) + 1 .. (m - k) + n
    <3>1. i - (m - k) \in 1..n
      BY <1>1, <2>1
    <3>2. Laid[i] = c[i - (m - k)]
      <4>1. Laid[i] = CASE i \in (m - k) + 1 .. (m - k) + n -> c[i - (m - k)]
                        [] i > (m - k) + n /\ i > m -> Old
                        [] OTHER -> b[i]
        BY <1>2
      <4>2. ~(i > (m - k) + n /\ i > m)
        BY <1>1, <2>1
      <4> QED BY <2>1, <4>1, <4>2
    <3>3. c[i - (m - k)] \in Pieces
      BY <1>1, <3>1
    <3>4. k = 0 => m - k = m /\ ~(i <= m)
      BY <1>1, <2>1
    <3> QED BY <3>2, <3>3, <3>4
  <2>2. CASE i \notin (m - k) + 1 .. (m - k) + n /\ i > (m - k) + n /\ i > m
    <3>1. Laid[i] = Old
      BY <1>2, <2>2
    <3>2. k # 0
      BY <1>1, <2>2
    <3> QED BY <1>1, <3>1, <3>2
  <2>3. CASE i \notin (m - k) + 1 .. (m - k) + n /\ ~(i > (m - k) + n /\ i > m)
    <3>1. Laid[i] = b[i]
      BY <1>2, <2>3
    <3>2. i \in 1..m
      BY <1>1, <2>3
    <3>3. b[i] \in Pieces
      BY <1>1, <3>2
    <3> QED BY <1>1, <3>1, <3>2, <3>3
  <2> QED BY <2>1, <2>2, <2>3
<1>5. Laid \in Seq(Pieces) /\ Len(Laid) = m + n
  <2>1. m + n \in Nat
    BY <1>1
  <2>2. DOMAIN Laid = 1..(m + n) /\ Laid \in [1..(m + n) -> Pieces]
    BY <1>2, <1>4
  <2> QED BY <2>1, <2>2
<1>6. ASSUME k = 0 PROVE Laid = b \o c
  <2>1. b \o c \in Seq(Pieces) /\ Len(b \o c) = m + n
    BY <1>1
  <2>2. \A i \in 1..(m + n) : (b \o c)[i] = IF i <= m THEN b[i] ELSE c[i - m]
    BY <1>1
  <2>3. \A i \in 1..(m + n) : Laid[i] = (b \o c)[i]
    BY <1>4, <1>6, <2>2
  <2>4. \A s, t \in Seq(Pieces) : Len(s) = Len(t) /\ (\A i \in 1..Len(s) : s[i] = t[i]) => s = t
    OBVIOUS
  <2> DEFINE v == b \o c
  <2>5. v \in Seq(Pieces) /\ Len(Laid) = Len(v) /\ \A i \in 1..Len(Laid) : Laid[i] = v[i]
    BY <1>5, <2>1, <2>3
  <2> HIDE DEF v
  <2>6. Laid = v
    BY <1>5, <2>4, <2>5
  <2> QED BY <2>6 DEF v
<1> QED BY <1>3, <1>5, <1>6 DEF m, n

\* What is read of a block is joined to the buffer: nothing of what was taken changes.
LEMMA Joined ==
  ASSUME NetTyped
  PROVE  /\ upg.buf \o chip.bulk \in Seq(Pieces) /\ (upg.buf \o chip.bulk) \o <<>> = upg.buf \o chip.bulk
         /\ Len(upg.buf \o chip.bulk) = Len(upg.buf) + Len(chip.bulk)
         /\ Len(upg.buf) \in Nat /\ Len(chip.bulk) \in Nat
         /\ Len(chip.bulk) > 0 <=> chip.bulk # <<>>
<1> DEFINE b == upg.buf
           c == chip.bulk
           d == upg.buf \o chip.bulk
<1>1. b \in Seq(Pieces) /\ c \in Seq(Pieces) /\ d = b \o c
  BY DEF NetTyped, Upgrades, Chips
<1> HIDE DEF b, c, d
<1>2. d \in Seq(Pieces) /\ Len(c) \in Nat /\ Len(b) \in Nat /\ Len(d) = Len(b) + Len(c)
  BY <1>1
<1>3. \A s \in Seq(Pieces) : s \o <<>> = s
  OBVIOUS
<1>4. Len(c) > 0 <=> c # <<>>
  BY <1>1
<1> QED BY <1>2, <1>3, <1>4 DEF b, c, d

\* The handler reads a block, before it answers the request for the version.
LEMMA HandlerReads == ASSUME NetSizes, NetInv, IsrReads PROVE NetInv'
<1> DEFINE c == [chip EXCEPT !.bulk = <<>>]
           n == upg.block - Len(chip.bulk)
<1>1. /\ isr = "wait" /\ upg.status = "DOWNLOAD" /\ UNCHANGED <<ctl, main, host, seen>>
      /\ upg' = [upg EXCEPT !.buf = Laid, !.block = n]
      /\ IF n > 0 THEN isr' = "wait" /\ chip' = c ELSE isr' = "idle" /\ chip' = Released(c)
  BY DEF IsrReads, CanRead, Rest
<1>2. NetTyped /\ HostFollows /\ RequestFollows /\ HandlerFollows
  BY DEF NetInv, NetBase
<1>3. /\ upg' \in Upgrades /\ upg'.status = "DOWNLOAD" /\ upg'.header = upg.header /\ upg'.new = upg.new
      /\ upg'.buf = Laid /\ upg'.block = n /\ n \in Int
  <2>1. upg \in Upgrades /\ n \in Int /\ Laid \in Seq(Pieces)
    BY <1>2, LaidIs, Joined DEF NetTyped, Upgrades
  <2> HIDE DEF n
  <2> QED BY <1>1, <2>1 DEF Upgrades
<1>4. /\ chip' \in Chips /\ chip'.setup = chip.setup /\ chip'.open = chip.open
      /\ chip'.outIrq = chip.outIrq /\ chip'.out = chip.out /\ chip'.bulk = <<>>
      /\ isr' = "wait" => upg'.block > 0 /\ chip'.handshake = chip.handshake
      /\ isr' # "wait" => isr' = "idle" /\ ~(upg'.block > 0) /\ ~chip'.handshake
  <2> DEFINE o == <<>>
  <2>1. o \in Seq(Pieces) /\ chip \in Chips /\ o = <<>>
    BY <1>2 DEF NetTyped
  <2>2. c = [chip EXCEPT !.bulk = o]
    OBVIOUS
  <2> HIDE DEF o, c, n
  <2>3. /\ c \in Chips /\ c.setup = chip.setup /\ c.open = chip.open
        /\ c.outIrq = chip.outIrq /\ c.out = chip.out /\ c.bulk = o /\ c.handshake = chip.handshake
    BY <2>1, <2>2 DEF Chips
  <2>4. CASE n > 0
    BY <1>1, <1>3, <2>1, <2>3, <2>4
  <2>5. CASE ~(n > 0)
    <3>1. chip' = [c EXCEPT !.handshake = FALSE] /\ isr' = "idle"
      BY <1>1, <2>5 DEF Released
    <3> QED BY <1>3, <2>1, <2>3, <2>5, <3>1 DEF Chips
  <2> QED BY <2>4, <2>5
<1> HIDE DEF c, n
<1>5. /\ ctl.req.kind = "version" /\ ctl.req = host.req /\ ~ctl.setup /\ ~ctl.receive /\ ~HostIdle
      /\ ~chip.setup /\ chip.handshake /\ isr' \in {"idle", "wait"} /\ main # "burn"
      /\ ~Inside /\ ~HasRead /\ ~Inside' /\ ~HasRead' /\ ReadingBlock' = ReadingBlock
  BY <1>1, <1>2, <1>3, <1>4 DEF RequestFollows, HandlerFollows, Inside, HasRead, ReadingBlock
<1>6. NetTyped'
  BY <1>1, <1>2, <1>3, <1>4, <1>5 DEF NetTyped
<1>7. HostFollows' /\ RequestFollows' /\ HandlerFollows'
  <2>1. HostFollows'
    BY <1>1, <1>2 DEF HostFollows, HostIdle
  <2>2. RequestFollows'
    BY <1>1, <1>2, <1>4, <1>5 DEF RequestFollows, HostIdle
  <2>3. upg'.block <= 0 \/ upg'.block > 0
    BY <1>3
  <2>4. HandlerFollows'
    BY <1>1, <1>2, <1>3, <1>4, <1>5, <2>3 DEF HandlerFollows
  <2> QED BY <2>1, <2>2, <2>4
<1>8. /\ FileSent' = FileSent /\ ~Held /\ ~Latest("block") /\ ~Latest("block")'
      /\ ~NotHandled /\ ~NotHandled' /\ ~Pending /\ ~Pending' /\ Due' = Due
  BY <1>1, <1>4, <1>5 DEF FileSent, Held, Latest, NotHandled, Pending, Due
<1>9. upg.new \in Nat /\ upg.block \in Int /\ upg.block > 0 /\ host.block \in Nat
  BY <1>1, <1>2 DEF NetTyped, Upgrades, Hosts, HandlerFollows
<1> DEFINE l == Len(chip.bulk)
<1>10. /\ l \in Nat /\ l = Len(chip.bulk) /\ upg'.block = upg.block - l /\ Len(chip'.bulk) = 0
       /\ Len(upg'.buf) = Len(upg.buf) + l /\ Len(upg.buf) \in Nat /\ Len(<<>>) = 0
       /\ upg.new = 0 => Taken' = Taken
  <2>1. l \in Nat /\ l = Len(chip.bulk) /\ Len(upg.buf) \in Nat
    BY <1>2, Joined
  <2>2. Len(upg'.buf) = Len(upg.buf) + l
    BY <1>2, <1>3, LaidIs
  <2>3. upg.new = 0 => Taken' = Taken
    BY <1>2, <1>3, <1>4, LaidIs, Joined DEF Taken
  <2> QED BY <1>3, <1>4, <2>1, <2>2, <2>3 DEF n
<1> HIDE DEF l
<1>11. /\ upg.block >= host.block + l + upg.new => upg'.block >= host.block + Len(chip'.bulk) + upg.new
       /\ upg.block <= host.block + l + upg.new => upg'.block <= host.block + Len(chip'.bulk) + upg.new
  <2> DEFINE u == upg.block
             h == host.block
             v == upg.new
             o == Len(chip'.bulk)
  <2>1. u \in Int /\ h \in Nat /\ v \in Nat /\ l \in Nat /\ o = 0 /\ upg'.block = u - l
    BY <1>9, <1>10
  <2> HIDE DEF u, h, v, o
  <2>2. /\ u >= h + l + v => upg'.block >= h + o + v
        /\ u <= h + l + v => upg'.block <= h + o + v
    BY <2>1
  <2> QED BY <2>2 DEF u, h, v, o
<1>12. Kept' => KeptHost' /\ BlockFollows' /\ DataFollow' /\ HeaderFollows' /\ TakenFollows' /\ WholeInBuf'
  <2> SUFFICES ASSUME Kept'
               PROVE  KeptHost' /\ BlockFollows' /\ DataFollow' /\ HeaderFollows' /\ TakenFollows' /\ WholeInBuf'
    OBVIOUS
  <2>1. KeptHost /\ BlockFollows /\ DataFollow /\ TakenFollows
    BY <1>1 DEF NetInv, KeptInv, Kept
  <2>2. KeptHost'
    BY <1>1, <1>4, <1>5, <1>8, <2>1 DEF KeptHost
  <2>3. ReadingBlock => upg'.block >= host.block + Len(chip'.bulk) + upg.new
    <3>1. ReadingBlock => upg.block >= host.block + l + upg.new
      BY <1>10, <2>1 DEF BlockFollows
    <3> QED BY <1>11, <3>1
  <2>4. main = "counting" => upg.new > 0
    BY <1>9, <2>1 DEF BlockFollows
  <2>5. BlockFollows'
    <3>1. upg'.block > 0 => isr' = "wait"
      BY <1>4
    <3> QED BY <1>1, <1>3, <1>4, <1>5, <1>8, <2>1, <2>3, <2>4, <3>1 DEF BlockFollows
  <2>6. DataFollow'
    <3>1. Due /\ (host.sent > 0 \/ host.block > 0) => FALSE
      BY <1>1, <2>1 DEF DataFollow
    <3> QED BY <1>1, <1>5, <1>8, <2>1, <3>1 DEF DataFollow
  <2>7. HeaderFollows'
    BY <1>1, <1>4, <1>5 DEF HeaderFollows
  <2>8. TakenFollows'
    <3>1. CASE main = "counting"
      <4>1. upg'.block > 0
        <5>1. ReadingBlock /\ Len(chip'.bulk) = 0
          BY <1>10, <3>1 DEF ReadingBlock
        <5> QED BY <1>3, <1>9, <2>3, <2>4, <3>1, <5>1
      <4>2. isr' = "wait"
        BY <1>4, <4>1
      <4> QED BY <1>1, <3>1, <4>2 DEF TakenFollows
    <3>2. CASE main # "counting"
      <4>1. upg.new = 0
        BY <1>2, <3>2 DEF HandlerFollows
      <4> QED BY <1>1, <1>3, <1>8, <1>10, <2>1, <3>2, <4>1 DEF TakenFollows
    <3> QED BY <3>1, <3>2
  <2>9. WholeInBuf'
    BY <1>3 DEF WholeInBuf
  <2> QED BY <2>2, <2>5, <2>6, <2>7, <2>8, <2>9
<1>13. InOrder' => ChunksFollow'
  <2>1. InOrder' => ChunksFollow
    BY <1>1 DEF NetInv, CalmInv, InOrder
  <2> QED BY <1>1, <1>4, <1>5, <2>1 DEF ChunksFollow
<1>14. Calm' => CalmHost' /\ AllTaken' /\ BlockIsRead' /\ EndsCount'
  <2> SUFFICES ASSUME Calm' PROVE CalmHost' /\ AllTaken' /\ BlockIsRead' /\ EndsCount'
    OBVIOUS
  <2>1. CalmHost /\ AllTaken /\ BlockIsRead /\ EndsCount
    BY <1>1 DEF NetInv, CalmInv, Calm, InOrder
  <2>2. CalmHost'
    BY <1>1, <1>3, <1>4, <1>5, <1>8, <2>1 DEF CalmHost
  <2>3. AllTaken'
    <3>1. Len(upg'.buf) + Len(chip'.bulk) = Len(upg.buf) + Len(chip.bulk)
      BY <1>10
    <3> QED BY <1>1, <1>3, <1>8, <2>1, <3>1 DEF AllTaken
  <2>4. BlockIsRead'
    <3>1. host.block = 0
      BY <1>5, <2>1 DEF CalmHost
    <3>2. ReadingBlock => upg.block >= host.block + l + upg.new
      BY <1>5, <1>8, <1>10, <2>1 DEF BlockIsRead
    <3>3. ReadingBlock => upg'.block >= host.block + Len(chip'.bulk) + upg.new
      BY <1>11, <3>2
    <3> QED BY <1>1, <1>3, <1>4, <1>5, <1>8, <3>1, <3>3 DEF BlockIsRead
  <2>5. EndsCount'
    BY <1>1, <1>3, <1>8, <2>1 DEF EndsCount
  <2> QED BY <2>2, <2>3, <2>4, <2>5
<1>15. PunctualInv'
  <2> SUFFICES ASSUME Punctual' PROVE PunctualInv'
    BY DEF PunctualInv
  <2>1. Punctual /\ PunctualInv
    BY <1>1 DEF NetInv, InOrder, Punctual
  <2>2. upg.block <= host.block + l + upg.new
    BY <1>10, <2>1 DEF PunctualInv
  <2>3. upg'.block <= host.block + Len(chip'.bulk) + upg.new
    BY <1>11, <2>2
  <2> QED BY <1>1, <1>3, <1>5, <1>8, <2>1, <2>3 DEF PunctualInv
<1> QED BY <1>6, <1>7, <1>12, <1>13, <1>14, <1>15 DEF NetInv, NetBase, KeptInv, CalmInv

\* The main loop reads of a block what the chip holds.
LEMMA LoopReads == ASSUME NetSizes, NetInv, MainReads PROVE NetInv'
<1> DEFINE d == upg.buf \o chip.bulk
           l == Len(chip.bulk)
<1>1. /\ main = "reading" /\ main' = "counting" /\ isr = "idle" /\ ~chip.setup
      /\ upg.status = "DOWNLOAD" /\ (chip.bulk # <<>> \/ upg.block <= 0)
      /\ upg' = [upg EXCEPT !.buf = d, !.new = l] /\ chip' = [chip EXCEPT !.bulk = <<>>]
      /\ UNCHANGED <<isr, ctl, host, seen>>
  BY DEF MainReads, InterruptDue, CanRead
<1>2. NetTyped /\ HostFollows /\ RequestFollows /\ HandlerFollows
  BY DEF NetInv, NetBase
<1>3. /\ d \in Seq(Pieces) /\ d \o <<>> = d /\ Len(d) = Len(upg.buf) + l /\ Len(upg.buf) \in Nat
      /\ l \in Nat /\ (l > 0 <=> chip.bulk # <<>>) /\ l = Len(chip.bulk) /\ d = upg.buf \o chip.bulk
  BY <1>2, Joined
<1> HIDE DEF d, l
<1>4. /\ upg' \in Upgrades /\ upg'.status = upg.status /\ upg'.header = upg.header /\ upg'.new = l
      /\ upg'.buf = d /\ upg'.block = upg.block
  BY <1>1, <1>2, <1>3 DEF NetTyped, Upgrades
<1>5. /\ chip' \in Chips /\ chip'.setup = chip.setup /\ chip'.open = chip.open
      /\ chip'.outIrq = chip.outIrq /\ chip'.out = chip.out /\ chip'.bulk = <<>>
      /\ chip'.handshake = chip.handshake
  <2> DEFINE o == <<>>
  <2>1. o \in Seq(Pieces) /\ chip \in Chips /\ o = <<>>
    BY <1>2 DEF NetTyped
  <2> HIDE DEF o
  <2> QED BY <1>1, <2>1 DEF Chips
<1>6. /\ ReadingBlock /\ ReadingBlock' /\ ~Inside /\ ~HasRead /\ ~Inside' /\ ~HasRead' /\ Due' = Due
      /\ upg.new = 0
  BY <1>1, <1>2 DEF ReadingBlock, Inside, HasRead, Due, HandlerFollows
<1>7. NetTyped'
  BY <1>1, <1>2, <1>4, <1>5 DEF NetTyped
<1>8. HostFollows' /\ RequestFollows' /\ HandlerFollows'
  <2>1. HostFollows'
    BY <1>1, <1>2 DEF HostFollows, HostIdle
  <2>2. RequestFollows'
    BY <1>1, <1>2, <1>5 DEF RequestFollows, HostIdle
  <2>3. HandlerFollows'
    BY <1>1, <1>2, <1>4, <1>5, <1>6 DEF HandlerFollows
  <2> QED BY <2>1, <2>2, <2>3
<1>9. /\ Taken' = Taken /\ FileSent' = FileSent /\ ~Held /\ NotHandled' = NotHandled
      /\ ~Latest("block") /\ ~Latest("block")' /\ ~Pending /\ ~Pending'
  BY <1>1, <1>3, <1>4, <1>5, <1>6 DEF Taken, FileSent, Held, Latest, NotHandled, Pending
<1>10. /\ upg.block \in Int /\ host.block \in Nat /\ host.sent \in Nat
       /\ Len(chip'.bulk) = 0 /\ Len(<<>>) = 0
  BY <1>2, <1>5 DEF NetTyped, Upgrades, Hosts
<1>11. Kept' => KeptHost' /\ BlockFollows' /\ DataFollow' /\ HeaderFollows' /\ TakenFollows' /\ WholeInBuf'
  <2> SUFFICES ASSUME Kept'
               PROVE  KeptHost' /\ BlockFollows' /\ DataFollow' /\ HeaderFollows' /\ TakenFollows' /\ WholeInBuf'
    OBVIOUS
  <2>1. KeptHost /\ BlockFollows /\ DataFollow /\ HeaderFollows /\ TakenFollows
    BY <1>1 DEF NetInv, KeptInv, Kept
  <2>2. KeptHost'
    BY <1>1, <1>5, <1>9, <2>1 DEF KeptHost
  <2>3. BlockFollows'
    <3>1. upg.block >= host.block + l + upg.new
      BY <1>3, <1>6, <2>1 DEF BlockFollows
    <3>2. upg'.block >= host'.block + Len(chip'.bulk) + upg'.new
      BY <1>1, <1>3, <1>4, <1>6, <1>10, <3>1
    <3>3. upg'.new > 0 \/ upg'.block <= 0
      BY <1>1, <1>3, <1>4
    <3> QED BY <1>1, <1>4, <1>6, <2>1, <3>2, <3>3 DEF BlockFollows
  <2>4. DataFollow'
    <3>1. Due => host.sent = 0 /\ host.block = 0
      BY <1>6, <2>1 DEF BlockFollows
    <3>2. ctl.req.kind = "block" => host.sent > 0 \/ host.block > 0
      BY <1>1, <1>2 DEF HandlerFollows
    <3> QED BY <1>1, <1>6, <1>10, <2>1, <3>1, <3>2 DEF DataFollow
  <2>5. HeaderFollows'
    BY <1>1, <1>5, <1>6, <1>9, <2>1 DEF HeaderFollows
  <2>6. TakenFollows'
    BY <1>1, <1>4, <1>9, <2>1 DEF TakenFollows
  <2>7. WholeInBuf'
    BY <1>1, <1>4 DEF WholeInBuf
  <2> QED BY <2>2, <2>3, <2>4, <2>5, <2>6, <2>7
<1>12. InOrder' => ChunksFollow'
  <2>1. InOrder' => ChunksFollow
    BY <1>1 DEF NetInv, CalmInv, InOrder
  <2> QED BY <1>1, <1>5, <1>6, <2>1 DEF ChunksFollow, HostIdle, SecondFollows
<1>13. Calm' => CalmHost' /\ AllTaken' /\ BlockIsRead' /\ EndsCount'
  <2> SUFFICES ASSUME Calm' PROVE CalmHost' /\ AllTaken' /\ BlockIsRead' /\ EndsCount'
    OBVIOUS
  <2>1. CalmHost /\ AllTaken /\ BlockIsRead /\ EndsCount
    BY <1>1 DEF NetInv, CalmInv, Calm, InOrder
  <2>2. CalmHost'
    BY <1>1, <1>4, <1>5, <1>6, <1>9, <2>1 DEF CalmHost
  <2>3. AllTaken'
    <3>1. Len(upg'.buf) + Len(chip'.bulk) = Len(upg.buf) + Len(chip.bulk)
      BY <1>3, <1>4, <1>10
    <3> QED BY <1>1, <1>4, <1>9, <2>1, <3>1 DEF AllTaken
  <2>4. BlockIsRead'
    <3> DEFINE z == ctl.data[1].size
    <3>1. /\ ~(ctl.setup /\ ctl.req.kind = "block") => upg.block >= host.block + l + upg.new
          /\ ctl.setup /\ ctl.req.kind = "block" => host.block + l + upg.new <= upg.block + z
      BY <1>3, <1>6, <1>9, <2>1 DEF BlockIsRead
    <3>2. z \in Int
      BY <1>2 DEF NetTyped, Controls, Requests
    <3> HIDE DEF z
    <3>3. /\ ~(ctl.setup /\ ctl.req.kind = "block") => upg.block >= host.block + Len(chip'.bulk) + l
          /\ ctl.setup /\ ctl.req.kind = "block" => host.block + Len(chip'.bulk) + l <= upg.block + z
      BY <1>3, <1>6, <1>10, <3>1, <3>2
    <3> QED BY <1>1, <1>4, <1>6, <1>9, <3>3 DEF BlockIsRead, z
  <2>5. EndsCount'
    BY <1>1, <1>4, <1>9, <2>1 DEF EndsCount
  <2> QED BY <2>2, <2>3, <2>4, <2>5
<1>14. PunctualInv'
  <2> SUFFICES ASSUME Punctual' PROVE PunctualInv'
    BY DEF PunctualInv
  <2>1. Punctual /\ PunctualInv
    BY <1>1 DEF NetInv, InOrder, Punctual
  <2>2. upg.block <= host.block + l + upg.new
    BY <1>3, <2>1 DEF PunctualInv
  <2>3. upg.block <= host.block + Len(chip'.bulk) + l
    BY <1>3, <1>6, <1>10, <2>2
  <2>4. ~(ctl.setup /\ ctl.req.kind = "block")
    BY <1>6, <2>1 DEF PunctualInv
  <2> QED BY <1>1, <1>4, <1>6, <1>9, <2>1, <2>3, <2>4 DEF PunctualInv
<1> QED BY <1>7, <1>8, <1>11, <1>12, <1>13, <1>14 DEF NetInv, NetBase, KeptInv, CalmInv

\* The main loop counts what it has read, and goes on until the block is there.
LEMMA LoopCounts == ASSUME NetSizes, NetInv, MainCounts PROVE NetInv'
<1> DEFINE n == upg.block - upg.new
           z == 0
<1>1. /\ main = "counting" /\ main' = (IF n > 0 THEN "reading" ELSE "loop") /\ isr = "idle"
      /\ ~chip.setup /\ upg' = [upg EXCEPT !.new = z, !.block = n]
      /\ UNCHANGED <<chip, isr, ctl, host, seen>>
  BY DEF MainCounts, InterruptDue, Rest
<1>2. NetTyped /\ HostFollows /\ RequestFollows /\ HandlerFollows
  BY DEF NetInv, NetBase
<1>3. upg.block \in Int /\ upg.new \in Nat /\ n = upg.block - upg.new /\ n \in Int /\ z = 0 /\ z \in Nat
  BY <1>2 DEF NetTyped, Upgrades
<1> HIDE DEF n, z
<1>4. /\ upg' \in Upgrades /\ upg'.status = upg.status /\ upg'.header = upg.header /\ upg'.new = 0
      /\ upg'.buf = upg.buf /\ upg'.block = n
  BY <1>1, <1>2, <1>3 DEF NetTyped, Upgrades
<1>5. /\ main' \in {"reading", "loop"} /\ (n > 0 => main' = "reading") /\ (main' = "reading" => n > 0)
      /\ ReadingBlock /\ (ReadingBlock' <=> n > 0)
      /\ ~Inside /\ ~HasRead /\ ~Inside' /\ ~HasRead' /\ Due' = Due
  BY <1>1 DEF ReadingBlock, Inside, HasRead, Due
<1>6. NetTyped'
  BY <1>1, <1>2, <1>4, <1>5 DEF NetTyped
<1>7. HostFollows' /\ RequestFollows' /\ HandlerFollows'
  <2>1. HostFollows'
    BY <1>1, <1>2 DEF HostFollows, HostIdle
  <2>2. RequestFollows'
    BY <1>1, <1>2, <1>5 DEF RequestFollows, HostIdle
  <2>3. upg.block <= 0 => n <= 0
    BY <1>3
  <2>4. HandlerFollows'
    BY <1>1, <1>2, <1>4, <1>5, <2>3 DEF HandlerFollows
  <2> QED BY <2>1, <2>2, <2>4
<1>8. /\ Taken' = Taken /\ FileSent' = FileSent /\ ~Held /\ NotHandled' = NotHandled
      /\ ~Latest("block") /\ ~Latest("block")' /\ ~Pending /\ ~Pending'
  BY <1>1, <1>4, <1>5 DEF Taken, FileSent, Held, Latest, NotHandled, Pending
<1> DEFINE l == Len(chip.bulk)
<1>9. /\ l \in Nat /\ l = Len(chip.bulk) /\ (l > 0 <=> chip.bulk # <<>>)
      /\ host.block \in Nat /\ host.sent \in Nat
  BY <1>2, Joined DEF NetTyped, Hosts
<1> HIDE DEF l
<1>10. /\ upg.block >= host.block + l + upg.new => n >= host.block + l
       /\ upg.block <= host.block + l + upg.new => n <= host.block + l + 0
       /\ \A w \in Int : host.block + l + upg.new <= upg.block + w => host.block + l + 0 <= n + w
       /\ n > 0 \/ n <= 0
  <2> DEFINE u == upg.block
             h == host.block
             v == upg.new
  <2>1. u \in Int /\ h \in Nat /\ v \in Nat /\ l \in Nat /\ n = u - v
    BY <1>3, <1>9
  <2> HIDE DEF u, h, v
  <2>2. /\ u >= h + l + v => n >= h + l
        /\ u <= h + l + v => n <= h + l + 0
        /\ \A w \in Int : h + l + v <= u + w => h + l + 0 <= n + w
        /\ n > 0 \/ n <= 0
    BY <2>1
  <2> QED BY <2>2 DEF u, h, v
<1>11. Kept' => KeptHost' /\ BlockFollows' /\ DataFollow' /\ HeaderFollows' /\ TakenFollows' /\ WholeInBuf'
  <2> SUFFICES ASSUME Kept'
               PROVE  KeptHost' /\ BlockFollows' /\ DataFollow' /\ HeaderFollows' /\ TakenFollows' /\ WholeInBuf'
    OBVIOUS
  <2>1. KeptHost /\ BlockFollows /\ DataFollow /\ HeaderFollows /\ TakenFollows /\ upg.status = "DOWNLOAD"
    BY <1>1, <1>5 DEF NetInv, KeptInv, Kept, BlockFollows
  <2>2. KeptHost'
    BY <1>1, <1>8, <2>1 DEF KeptHost
  <2>3. BlockFollows'
    <3>1. upg.block >= host.block + l + upg.new
      BY <1>5, <1>9, <2>1 DEF BlockFollows
    <3>2. n >= host.block + l
      BY <1>10, <3>1
    <3> QED BY <1>1, <1>4, <1>5, <1>9, <2>1, <3>2 DEF BlockFollows
  <2>4. DataFollow'
    <3>1. Due => host.sent = 0 /\ host.block = 0
      BY <1>5, <2>1 DEF BlockFollows
    <3>2. ctl.req.kind = "block" => host.sent > 0 \/ host.block > 0
      BY <1>1, <1>2 DEF HandlerFollows
    <3> QED BY <1>1, <1>5, <1>9, <2>1, <3>1, <3>2 DEF DataFollow
  <2>5. HeaderFollows'
    BY <1>1, <1>5, <1>8, <2>1 DEF HeaderFollows
  <2>6. TakenFollows'
    BY <1>1, <1>4, <1>8, <2>1 DEF TakenFollows
  <2>7. WholeInBuf'
    BY <1>4, <2>1 DEF WholeInBuf
  <2> QED BY <2>2, <2>3, <2>4, <2>5, <2>6, <2>7
<1>12. InOrder' => ChunksFollow'
  <2>1. InOrder' => ChunksFollow
    BY <1>1 DEF NetInv, CalmInv, InOrder
  <2> QED BY <1>1, <1>5, <2>1 DEF ChunksFollow, HostIdle, SecondFollows
<1>13. Calm' => CalmHost' /\ AllTaken' /\ BlockIsRead' /\ EndsCount'
  <2> SUFFICES ASSUME Calm' PROVE CalmHost' /\ AllTaken' /\ BlockIsRead' /\ EndsCount'
    OBVIOUS
  <2>1. CalmHost /\ AllTaken /\ BlockIsRead /\ EndsCount /\ upg.status = "DOWNLOAD"
    BY <1>1, <1>5 DEF NetInv, CalmInv, Calm, InOrder, CalmHost
  <2>2. ~(ctl.setup /\ ctl.req.kind = "block") => n >= host.block + l
    <3>1. ~(ctl.setup /\ ctl.req.kind = "block") => upg.block >= host.block + l + upg.new
      BY <1>5, <1>8, <1>9, <2>1 DEF BlockIsRead
    <3> QED BY <1>10, <3>1
  <2>3. CalmHost'
    <3>1. NotHandled /\ ~(n > 0) => chip.bulk = <<>>
      <4>1. NotHandled => host.block = 0 /\ ~(ctl.setup /\ ctl.req.kind = "block")
        BY <1>1, <2>1 DEF CalmHost, NotHandled
      <4> QED BY <1>3, <1>9, <2>2, <4>1
    <3> QED BY <1>1, <1>4, <1>5, <1>8, <2>1, <3>1 DEF CalmHost
  <2>4. AllTaken'
    BY <1>1, <1>4, <1>8, <2>1 DEF AllTaken
  <2>5. BlockIsRead'
    <3> DEFINE w == ctl.data[1].size
    <3>1. ctl.setup /\ ctl.req.kind = "block" => host.block + l + upg.new <= upg.block + w
      BY <1>5, <1>8, <1>9, <2>1 DEF BlockIsRead
    <3>2. w \in Int
      BY <1>2 DEF NetTyped, Controls, Requests
    <3> HIDE DEF w
    <3>3. ctl.setup /\ ctl.req.kind = "block" => /\ host.block + l + 0 <= n + w
                                                 /\ ~(n > 0) => host.block + l <= w
      <4>1. ctl.setup /\ ctl.req.kind = "block" => host.block + l + 0 <= n + w
        BY <1>10, <3>1, <3>2
      <4> DEFINE h == host.block
      <4>2. h \in Nat /\ l \in Nat /\ n \in Int
        BY <1>3, <1>9
      <4> HIDE DEF h
      <4>3. h + l + 0 <= n + w /\ ~(n > 0) => h + l <= w
        BY <3>2, <4>2
      <4> QED BY <4>1, <4>3 DEF h
    <3>4. ~(ctl.setup /\ ctl.req.kind = "block") /\ ~(n > 0) => host.block = 0 /\ chip.bulk = <<>>
      BY <1>3, <1>9, <2>2
    <3> QED BY <1>1, <1>4, <1>5, <1>8, <1>9, <2>2, <3>3, <3>4 DEF BlockIsRead, w
  <2>6. EndsCount'
    BY <1>1, <1>4, <1>5, <1>8, <2>1 DEF EndsCount
  <2> QED BY <2>3, <2>4, <2>5, <2>6
<1>14. PunctualInv'
  <2> SUFFICES ASSUME Punctual' PROVE PunctualInv'
    BY DEF PunctualInv
  <2>1. Punctual /\ PunctualInv
    BY <1>1 DEF NetInv, InOrder, Punctual
  <2>2. upg.block <= host.block + l + upg.new
    BY <1>9, <2>1 DEF PunctualInv
  <2>3. n <= host.block + l + 0
    BY <1>10, <2>2
  <2>4. ~(ctl.setup /\ ctl.req.kind = "block")
    BY <1>5, <2>1 DEF PunctualInv
  <2> QED BY <1>1, <1>4, <1>5, <1>8, <1>9, <2>1, <2>3, <2>4 DEF PunctualInv
<1> QED BY <1>6, <1>7, <1>11, <1>12, <1>13, <1>14 DEF NetInv, NetBase, KeptInv, CalmInv

\* The main loop finds the download ended.
LEMMA LoopStops == ASSUME NetSizes, NetInv, MainStopsReading PROVE NetInv'
<1>1. /\ main = "reading" /\ isr = "idle" /\ main' = "loop" /\ upg.status # "DOWNLOAD"
      /\ UNCHANGED <<chip, isr, ctl, upg, host, seen>>
  BY DEF MainStopsReading, InterruptDue
<1>2. NetTyped' /\ HostFollows' /\ RequestFollows' /\ HandlerFollows'
  BY <1>1 DEF NetInv, NetBase, NetTyped, HostFollows, RequestFollows, HandlerFollows, HostIdle,
     Inside, HasRead
<1>3. KeptInv'
  BY <1>1 DEF NetInv, KeptInv, Kept, BlockFollows, ReadingBlock, Due
<1>4. CalmInv'
  BY <1>1 DEF NetInv, CalmInv, InOrder, Calm, CalmHost, ChunksFollow, HostIdle, ReadingBlock,
     SecondFollows, Inside, HasRead
<1>5. PunctualInv'
  BY <1>1 DEF NetInv, PunctualInv, Punctual, InOrder, Latest, ReadingBlock, HasRead, Inside
<1> QED BY <1>2, <1>3, <1>4, <1>5 DEF NetInv, NetBase

\* The main loop handles a header: a download begins, or is refused.
LEMMA HeaderHandled == ASSUME NetSizes, NetInv, Handle, ctl.req.kind = "header" PROVE NetInv'
<1> DEFINE f == ctl.data[2].file
<1>1. /\ main = "loop" /\ main' = "loop" /\ isr = "idle" /\ ~chip.setup /\ ~chip.outIrq /\ ctl.setup
      /\ ctl.outer \in Nat => ctl.outer = 0
      /\ ctl' = [ctl EXCEPT !.setup = FALSE] /\ upg' = HeaderTaken(f) /\ chip' = chip
      /\ seen' = [seen EXCEPT !.refused = seen.refused \/ TooBig(f)]
      /\ UNCHANGED <<isr, host>>
  BY DEF Handle, InterruptDue
<1>2. NetTyped /\ HostFollows /\ RequestFollows /\ HandlerFollows
  BY DEF NetInv, NetBase
<1>3. /\ ctl' \in Controls /\ ctl'.req = ctl.req /\ ctl'.data = ctl.data /\ ~ctl'.setup
      /\ ctl'.receive = ctl.receive /\ ctl'.count = ctl.count /\ ctl'.outer = 0 /\ ctl.outer = 0
  BY <1>1, <1>2 DEF NetTyped, Controls
<1>4. /\ upg' \in Upgrades /\ upg'.header = ctl.data[2].file
      /\ upg'.block = upg.block /\ upg'.new = upg.new
      /\ TooBig(f) => upg'.status = upg.status /\ upg'.buf = upg.buf
      /\ ~TooBig(f) => upg'.status = "DOWNLOAD" /\ upg'.buf = <<>>
  <2> DEFINE e == <<>>
  <2>1. e \in Seq(Pieces) /\ f \in Named /\ upg \in Upgrades /\ e = <<>> /\ f = ctl.data[2].file
    BY <1>2 DEF NetTyped, Controls, Requests
  <2>2. /\ TooBig(f) => upg' = [upg EXCEPT !.header = f]
        /\ ~TooBig(f) => upg' = [upg EXCEPT !.status = "DOWNLOAD", !.buf = e, !.header = f]
    BY <1>1 DEF HeaderTaken
  <2> HIDE DEF e, f
  <2>3. CASE TooBig(f)
    BY <2>1, <2>2, <2>3 DEF Upgrades
  <2>4. CASE ~TooBig(f)
    <3>1. /\ upg' \in Upgrades /\ upg'.status = "DOWNLOAD" /\ upg'.buf = e /\ upg'.header = f
          /\ upg'.block = upg.block /\ upg'.new = upg.new
      BY <2>1, <2>2, <2>4 DEF Upgrades
    <3> QED BY <2>1, <2>4, <3>1
  <2> QED BY <2>3, <2>4
<1>5. /\ seen' \in Histories /\ (seen'.refused <=> seen.refused \/ TooBig(f))
      /\ seen'.late = seen.late /\ seen'.overtaken = seen.overtaken /\ seen'.abandoned = seen.abandoned
      /\ seen'.early = seen.early /\ seen'.ahead = seen.ahead /\ seen'.file = seen.file
      /\ seen'.ended = seen.ended /\ seen'.burnt = seen.burnt
  <2> DEFINE u == seen.refused \/ TooBig(f)
  <2>1. u \in BOOLEAN /\ seen' = [seen EXCEPT !.refused = u] /\ seen \in Histories
    BY <1>1, <1>2 DEF NetTyped
  <2> HIDE DEF u
  <2>2. /\ seen' \in Histories /\ seen'.refused = u
        /\ seen'.late = seen.late /\ seen'.overtaken = seen.overtaken /\ seen'.abandoned = seen.abandoned
        /\ seen'.early = seen.early /\ seen'.ahead = seen.ahead /\ seen'.file = seen.file
        /\ seen'.ended = seen.ended /\ seen'.burnt = seen.burnt
    BY <2>1 DEF Histories
  <2> QED BY <2>2 DEF u
<1> HIDE DEF f
<1>6. NetTyped' /\ ReadingBlock' = ReadingBlock /\ ~ReadingBlock /\ Due /\ ~Due'
      /\ ~Inside /\ ~HasRead /\ ~Inside' /\ ~HasRead'
  BY <1>1, <1>2, <1>3, <1>4, <1>5 DEF NetTyped, ReadingBlock, Due, Inside, HasRead
<1>7. HostFollows' /\ RequestFollows' /\ HandlerFollows'
  <2>1. HostFollows'
    BY <1>1, <1>2, <1>5 DEF HostFollows, HostIdle
  <2>2. RequestFollows'
    BY <1>1, <1>2, <1>3 DEF RequestFollows, HostIdle
  <2>3. HandlerFollows'
    BY <1>1, <1>2, <1>3, <1>4, <1>6 DEF HandlerFollows
  <2> QED BY <2>1, <2>2, <2>3
<1>8. /\ FileSent' = host.file /\ FileSent = host.file /\ (Held => Held')
      /\ ~Latest("block") /\ ~Latest("block")' /\ ~Pending /\ ~Pending' /\ NotHandled
  BY <1>1, <1>3, <1>4, <1>6 DEF FileSent, Held, Latest, NotHandled, Pending
<1>9. Kept' => KeptHost' /\ BlockFollows' /\ DataFollow' /\ HeaderFollows' /\ TakenFollows' /\ WholeInBuf'
  <2> SUFFICES ASSUME Kept'
               PROVE  KeptHost' /\ BlockFollows' /\ DataFollow' /\ HeaderFollows' /\ TakenFollows' /\ WholeInBuf'
    OBVIOUS
  <2>1. KeptHost /\ BlockFollows /\ DataFollow /\ HeaderFollows /\ TakenFollows /\ WholeInBuf
    BY <1>5 DEF NetInv, KeptInv, Kept
  <2>2. KeptHost'
    BY <1>1, <1>6, <1>8, <2>1 DEF KeptHost
  <2>3. BlockFollows' /\ DataFollow'
    BY <1>1, <1>3, <1>4, <1>6, <2>1 DEF BlockFollows, DataFollow
  <2>4. HeaderFollows'
    BY <1>1, <1>3, <1>6, <1>8, <2>1 DEF HeaderFollows
  <2>5. TakenFollows'
    <3>1. /\ host.file # NoFile /\ host.sent = 0 /\ host.file = ctl.req.file
          /\ ctl.data[2].file = host.file \/ Held
      BY <1>1, <1>3, <1>6, <2>1 DEF HeaderFollows
    <3>2. Len(Taken') \in Nat
      <4>1. \A s, t \in Seq(Pieces) : Len(s \o t) \in Nat
        OBVIOUS
      <4>2. upg'.buf \in Seq(Pieces) /\ chip'.bulk \in Seq(Pieces)
        BY <1>1, <1>2, <1>4 DEF NetTyped, Upgrades, Chips
      <4> QED BY <4>1, <4>2, Zenon DEF Taken
    <3>3. host.sent <= Len(Taken') /\ \A i \in 1..host.sent : FALSE
      BY <3>1, <3>2
    <3> QED BY <1>1, <1>4, <1>8, <3>1, <3>3 DEF TakenFollows
  <2>6. WholeInBuf'
    BY <1>1, <1>4, <1>5, <2>1 DEF WholeInBuf
  <2> QED BY <2>2, <2>3, <2>4, <2>5, <2>6
<1>10. InOrder' => ChunksFollow'
  <2>1. InOrder' => ChunksFollow
    BY <1>5 DEF NetInv, CalmInv, InOrder
  <2> QED BY <1>1, <1>3, <1>6, <2>1 DEF ChunksFollow, HostIdle, SecondFollows
<1>11. Calm' => CalmHost' /\ AllTaken' /\ BlockIsRead' /\ EndsCount'
  <2> SUFFICES ASSUME Calm' PROVE CalmHost' /\ AllTaken' /\ BlockIsRead' /\ EndsCount'
    OBVIOUS
  <2>1. CalmHost /\ AllTaken /\ BlockIsRead /\ EndsCount /\ ChunksFollow /\ ~TooBig(f)
    BY <1>5 DEF NetInv, CalmInv, Calm, InOrder
  <2>2. /\ ctl.data[2] = ctl.req /\ host.file = ctl.req.file /\ ~ctl.receive /\ ~NotHandled'
    BY <1>1, <1>3, <1>6, <2>1 DEF ChunksFollow, NotHandled, SecondFollows
  <2>3. host.file # NoFile /\ host.sent = 0 /\ host.block = 0 /\ chip.bulk = <<>> /\ upg.status # "WRITE"
    BY <1>1, <1>6, <1>8, <2>1 DEF CalmHost
  <2>4. CalmHost'
    BY <1>1, <1>4, <1>6, <1>8, <2>1, <2>2, <2>3 DEF CalmHost
  <2>5. AllTaken'
    <3>1. Len(<<>>) = 0
      OBVIOUS
    <3>2. Len(upg'.buf) + Len(chip'.bulk) = host'.sent
      BY <1>1, <1>4, <2>1, <2>3, <3>1
    <3> QED BY <1>1, <1>4, <1>8, <2>1, <2>2, <2>3, <3>2 DEF AllTaken
  <2>6. BlockIsRead'
    BY <1>1, <1>3, <1>6, <1>8, <2>3 DEF BlockIsRead
  <2>7. EndsCount'
    BY <1>1, <1>4, <1>5, <1>8, <2>1, <2>3 DEF EndsCount
  <2> QED BY <2>4, <2>5, <2>6, <2>7
<1>12. PunctualInv'
  <2> SUFFICES ASSUME Punctual' PROVE PunctualInv'
    BY DEF PunctualInv
  <2>1. Punctual /\ PunctualInv
    BY <1>5 DEF NetInv, InOrder, Punctual
  <2> QED BY <1>1, <1>3, <1>4, <1>6, <1>8, <2>1 DEF PunctualInv
<1> QED BY <1>6, <1>7, <1>9, <1>10, <1>11, <1>12 DEF NetInv, NetBase, KeptInv, CalmInv

\* The main loop handles the announcement of a block.
LEMMA BlockHandled == ASSUME NetSizes, NetInv, Handle, ctl.req.kind = "block" PROVE NetInv'
<1> DEFINE n == SizeInFront
<1>1. /\ main = "loop" /\ isr = "idle" /\ ~chip.setup /\ ~chip.outIrq /\ ctl.setup
      /\ ctl.outer \in Nat => ctl.outer = 0
      /\ ctl' = [ctl EXCEPT !.setup = FALSE] /\ upg' = [upg EXCEPT !.block = n]
      /\ main' = (IF upg.status = "DOWNLOAD" THEN "reading" ELSE "loop")
      /\ seen' = [seen EXCEPT !.refused = seen.refused \/ FALSE]
      /\ UNCHANGED <<chip, isr, host>>
  BY DEF Handle, InterruptDue
<1>2. NetTyped /\ HostFollows /\ RequestFollows /\ HandlerFollows
  BY DEF NetInv, NetBase
<1>3. ctl' \in Controls /\ ctl'.req = ctl.req /\ ctl'.data = ctl.data /\ ~ctl'.setup
      /\ ctl'.receive = ctl.receive /\ ctl'.count = ctl.count /\ ctl'.outer = 0 /\ ctl.outer = 0
  BY <1>1, <1>2 DEF NetTyped, Controls
<1>4. /\ n \in Int /\ (ctl.data[1].kind = "block" => n = ctl.data[1].size)
  BY <1>2 DEF NetTyped, Controls, Requests, SizeInFront, Junk, NetSizes
<1> HIDE DEF n
<1>5. /\ upg' \in Upgrades /\ upg'.status = upg.status /\ upg'.buf = upg.buf /\ upg'.header = upg.header
      /\ upg'.block = n /\ upg'.new = 0 /\ upg.new = 0 /\ seen' = seen
  <2>1. seen' = seen
    BY <1>1, <1>2 DEF NetTyped, Histories
  <2>2. upg.new = 0
    BY <1>1, <1>2 DEF HandlerFollows
  <2> QED BY <1>1, <1>2, <1>4, <2>1, <2>2 DEF NetTyped, Upgrades
<1>6. /\ main' \in {"loop", "reading"} /\ (ReadingBlock' <=> upg.status = "DOWNLOAD") /\ ~ReadingBlock
      /\ ~Inside /\ ~HasRead /\ ~Inside' /\ ~HasRead' /\ Due /\ ~Due'
  BY <1>1, <1>3 DEF ReadingBlock, Inside, HasRead, Due
<1>7. NetTyped'
  BY <1>1, <1>2, <1>3, <1>5, <1>6 DEF NetTyped
<1>8. HostFollows' /\ RequestFollows' /\ HandlerFollows'
  <2>1. HostFollows'
    BY <1>1, <1>2, <1>5 DEF HostFollows, HostIdle
  <2>2. RequestFollows'
    BY <1>1, <1>2, <1>3, <1>6 DEF RequestFollows, HostIdle
  <2>3. HandlerFollows'
    BY <1>1, <1>2, <1>3, <1>5, <1>6 DEF HandlerFollows
  <2> QED BY <2>1, <2>2, <2>3
<1>9. /\ FileSent' = host.file /\ FileSent = host.file /\ ~Held /\ Taken' = Taken
      /\ ~Latest("block") /\ ~Latest("block")' /\ ~Pending /\ ~Pending' /\ ~NotHandled /\ ~NotHandled'
  BY <1>1, <1>3, <1>5, <1>6 DEF FileSent, Held, Taken, Latest, NotHandled, Pending
<1>10. host.block \in Nat /\ Len(chip.bulk) \in Nat
  BY <1>2, Joined DEF NetTyped, Hosts
<1>11. Kept' => KeptHost' /\ BlockFollows' /\ DataFollow' /\ HeaderFollows' /\ TakenFollows' /\ WholeInBuf'
  <2> SUFFICES ASSUME Kept'
               PROVE  KeptHost' /\ BlockFollows' /\ DataFollow' /\ HeaderFollows' /\ TakenFollows' /\ WholeInBuf'
    OBVIOUS
  <2>1. KeptHost /\ BlockFollows /\ DataFollow /\ TakenFollows /\ WholeInBuf
    BY <1>5 DEF NetInv, KeptInv, Kept
  <2>2. KeptHost'
    BY <1>1, <1>9, <2>1 DEF KeptHost
  <2>3. BlockFollows'
    <3>1. host.block > 0 \/ chip.bulk # <<>>
      <4>1. host.sent > 0 \/ host.block > 0
        BY <1>1, <1>2 DEF HandlerFollows
      <4> QED BY <1>6, <1>10, <2>1, <4>1 DEF DataFollow
    <3>2. host.block + Len(chip.bulk) <= n
      BY <1>1, <1>4, <1>6, <2>1 DEF DataFollow
    <3> DEFINE v == host.block + Len(chip.bulk)
    <3>3. v \in Nat /\ v <= n
      BY <1>10, <3>2
    <3> HIDE DEF v
    <3>4. n >= v + 0
      BY <1>4, <3>3
    <3> QED BY <1>1, <1>5, <1>6, <3>1, <3>4 DEF BlockFollows, v
  <2>4. DataFollow' /\ HeaderFollows'
    BY <1>1, <1>3, <1>6 DEF DataFollow, HeaderFollows
  <2>5. TakenFollows'
    BY <1>1, <1>5, <1>9, <2>1 DEF TakenFollows
  <2>6. WholeInBuf'
    BY <1>1, <1>5, <2>1 DEF WholeInBuf
  <2> QED BY <2>2, <2>3, <2>4, <2>5, <2>6
<1>12. InOrder' => ChunksFollow' /\ ChunksFollow /\ n = ctl.data[1].size /\ host.file # NoFile
  <2>1. InOrder' => ChunksFollow
    BY <1>5 DEF NetInv, CalmInv, InOrder
  <2> QED BY <1>1, <1>3, <1>4, <1>6, <2>1 DEF ChunksFollow, HostIdle, SecondFollows
<1>13. Calm' => CalmHost' /\ AllTaken' /\ BlockIsRead' /\ EndsCount'
  <2> SUFFICES ASSUME Calm' PROVE CalmHost' /\ AllTaken' /\ BlockIsRead' /\ EndsCount'
    OBVIOUS
  <2>1. /\ CalmHost /\ AllTaken /\ BlockIsRead /\ EndsCount
        /\ n = ctl.data[1].size /\ host.file # NoFile
    BY <1>5, <1>12 DEF NetInv, CalmInv, Calm, InOrder
  <2>2. upg.status = "DOWNLOAD" /\ main' = "reading"
    BY <1>1, <1>9, <2>1 DEF AllTaken
  <2>3. host.block + Len(chip.bulk) <= n
    BY <1>1, <1>6, <2>1 DEF BlockIsRead
  <2>4. CalmHost'
    BY <1>1, <1>5, <1>6, <1>9, <2>1, <2>2 DEF CalmHost
  <2>5. AllTaken'
    BY <1>1, <1>5, <1>9, <2>1 DEF AllTaken
  <2>6. BlockIsRead'
    <3> DEFINE v == host.block + Len(chip.bulk)
    <3>1. v \in Nat /\ v <= n
      BY <1>10, <2>3
    <3> HIDE DEF v
    <3>2. n >= v + 0
      BY <1>4, <3>1
    <3> QED BY <1>1, <1>3, <1>5, <1>6, <1>9, <2>2, <3>2 DEF BlockIsRead, v
  <2>7. EndsCount'
    BY <1>1, <1>5, <1>6, <1>9, <2>1 DEF EndsCount
  <2> QED BY <2>4, <2>5, <2>6, <2>7
<1>14. PunctualInv'
  <2> SUFFICES ASSUME Punctual' PROVE PunctualInv'
    BY DEF PunctualInv
  <2>1. Punctual /\ PunctualInv /\ n = ctl.data[1].size
    BY <1>5, <1>12 DEF NetInv, InOrder, Punctual
  <2>2. n <= host.block + Len(chip.bulk)
    BY <1>1, <2>1 DEF PunctualInv
  <2> DEFINE v == host.block + Len(chip.bulk)
  <2>3. v \in Nat /\ n <= v
    BY <1>10, <2>2
  <2> HIDE DEF v
  <2>4. n <= v + 0
    BY <1>4, <2>3
  <2> QED BY <1>1, <1>3, <1>5, <1>6, <1>9, <2>1, <2>4 DEF PunctualInv, v
<1> QED BY <1>7, <1>8, <1>11, <1>12, <1>13, <1>14 DEF NetInv, NetBase, KeptInv, CalmInv

\* The main loop is left the flag of another request, and has nothing to do but answer: a download
\* that is ended is not ended again, and the version waits for no block.
LEMMA OtherHandled == ASSUME NetSizes, NetInv, Handle, ctl.req.kind \notin WithData PROVE NetInv'
<1> DEFINE k == ctl.req.kind
<1>1. NetTyped /\ HostFollows /\ RequestFollows /\ HandlerFollows
  BY DEF NetInv, NetBase
<1>2. /\ main = "loop" /\ isr = "idle" /\ ~chip.setup /\ ~chip.outIrq /\ ctl.setup
      /\ ctl.outer \in Nat => ctl.outer = 0
      /\ ctl' = [ctl EXCEPT !.setup = FALSE] /\ k \notin {"header", "block"}
      /\ chip' = (IF k \in {"version", "status"} THEN Answered(chip, k) ELSE chip)
      /\ seen' = [seen EXCEPT !.refused = seen.refused \/ FALSE]
      /\ UNCHANGED <<isr, host>>
  BY DEF Handle, InterruptDue, WithData
<1>3. upg' = upg /\ main' = main
  <2>1. upg' = IF k = "end" THEN Completed ELSE upg
    BY <1>2 DEF Handle
  <2>2. k = "end" => Completed = upg
    <3>1. k = "end" => upg.status # "DOWNLOAD"
      BY <1>1 DEF HandlerFollows
    <3>2. [upg EXCEPT !.status = upg.status, !.block = upg.block] = upg
      BY <1>1 DEF NetTyped, Upgrades
    <3> QED BY <3>1, <3>2 DEF Completed
  <2>3. main' = IF upg.status = "DOWNLOAD" /\ k = "version" /\ upg.block > 0 THEN "reading" ELSE "loop"
    BY <1>2 DEF Handle
  <2>4. upg.status = "DOWNLOAD" /\ k = "version" => ~(upg.block > 0)
    <3>1. upg.block \in Int
      BY <1>1 DEF NetTyped, Upgrades
    <3> QED BY <1>1, <1>2, <3>1 DEF HandlerFollows
  <2> QED BY <1>2, <2>1, <2>2, <2>3, <2>4
<1>4. /\ ctl' \in Controls /\ ctl'.req = ctl.req /\ ctl'.data = ctl.data /\ ~ctl'.setup
      /\ ctl'.receive = ctl.receive /\ ctl'.count = ctl.count /\ ctl'.outer = 0 /\ seen' = seen
  BY <1>1, <1>2 DEF NetTyped, Controls, Histories
<1>5. /\ chip' \in Chips /\ chip'.setup = chip.setup /\ chip'.open = chip.open
      /\ chip'.outIrq = chip.outIrq /\ chip'.out = chip.out /\ chip'.bulk = chip.bulk
      /\ chip'.handshake = chip.handshake
  <2>1. k \in Kinds /\ chip \in Chips
    BY <1>1 DEF NetTyped, Controls, Requests
  <2> HIDE DEF k
  <2>2. CASE k \in {"version", "status"}
    <3> DEFINE a == IF chip.in = "none" THEN k ELSE chip.in
    <3>1. a \in Kinds /\ chip' = [chip EXCEPT !.in = a]
      BY <1>2, <2>1, <2>2 DEF Answered, Chips
    <3> HIDE DEF a
    <3> QED BY <2>1, <3>1 DEF Chips
  <2>3. CASE k \notin {"version", "status"}
    BY <1>2, <2>1, <2>3
  <2> QED BY <2>2, <2>3
<1>6. /\ NetTyped' /\ ReadingBlock' = ReadingBlock /\ ~ReadingBlock /\ ~Due'
      /\ ~Inside /\ ~HasRead /\ ~Inside' /\ ~HasRead'
  BY <1>1, <1>2, <1>3, <1>4, <1>5 DEF NetTyped, ReadingBlock, Due, Inside, HasRead
<1>7. HostFollows' /\ RequestFollows' /\ HandlerFollows'
  <2>1. HostFollows'
    BY <1>1, <1>2, <1>4 DEF HostFollows, HostIdle
  <2>2. RequestFollows'
    BY <1>1, <1>2, <1>3, <1>4, <1>5 DEF RequestFollows, HostIdle
  <2>3. HandlerFollows'
    BY <1>1, <1>2, <1>3, <1>4, <1>5, <1>6 DEF HandlerFollows
  <2> QED BY <2>1, <2>2, <2>3
<1>8. ~InOrder
  BY <1>2 DEF NetInv, CalmInv, ChunksFollow, WithData
<1>9. CalmInv' /\ PunctualInv'
  BY <1>4, <1>8 DEF CalmInv, PunctualInv, Calm, Punctual, InOrder
<1>10. Kept' => KeptHost' /\ BlockFollows' /\ DataFollow' /\ HeaderFollows' /\ TakenFollows' /\ WholeInBuf'
  <2> SUFFICES ASSUME Kept'
               PROVE  KeptHost' /\ BlockFollows' /\ DataFollow' /\ HeaderFollows' /\ TakenFollows' /\ WholeInBuf'
    OBVIOUS
  <2>1. KeptHost /\ BlockFollows /\ TakenFollows /\ WholeInBuf
    BY <1>4 DEF NetInv, KeptInv, Kept
  <2>2. KeptHost' /\ BlockFollows' /\ WholeInBuf'
    BY <1>2, <1>3, <1>4, <1>5, <1>6, <2>1 DEF KeptHost, BlockFollows, WholeInBuf, Latest
  <2>3. DataFollow' /\ HeaderFollows'
    BY <1>2, <1>4, <1>5, <1>6 DEF DataFollow, HeaderFollows
  <2>4. TakenFollows'
    BY <1>2, <1>3, <1>4, <1>5, <2>1 DEF TakenFollows, Taken, FileSent, Held, ReadingBlock
  <2> QED BY <2>2, <2>3, <2>4
<1> QED BY <1>6, <1>7, <1>9, <1>10 DEF NetInv, NetBase, KeptInv

\* The file is burnt.
LEMMA BurnStarts == ASSUME NetSizes, NetInv, Burn PROVE NetInv'
<1>1. /\ main = "loop" /\ main' = "burn" /\ ~ctl.setup /\ upg.status = "WRITE"
      /\ seen' = [seen EXCEPT !.burnt = seen.burnt + 1] /\ UNCHANGED <<chip, isr, ctl, upg, host>>
  BY DEF Burn, ToBurn
<1>2. NetTyped
  BY DEF NetInv, NetBase
<1>3. /\ seen' \in Histories /\ seen'.late = seen.late
      /\ seen'.overtaken = seen.overtaken /\ seen'.abandoned = seen.abandoned
      /\ seen'.early = seen.early /\ seen'.ahead = seen.ahead
      /\ seen'.refused = seen.refused /\ seen'.file = seen.file
      /\ seen'.ended = seen.ended /\ seen'.burnt = seen.burnt + 1
      /\ seen.ended \in Nat /\ seen.burnt \in Nat
  BY <1>1, <1>2 DEF NetTyped, Histories
<1>4. NetTyped' /\ HostFollows' /\ RequestFollows' /\ HandlerFollows'
  BY <1>1, <1>3 DEF NetInv, NetBase, NetTyped, HostFollows, RequestFollows, HandlerFollows, HostIdle,
     Inside, HasRead
<1>5. KeptInv'
  BY <1>1, <1>3 DEF NetInv, KeptInv, Kept, KeptHost, BlockFollows, DataFollow, HeaderFollows, Held,
     TakenFollows, Taken, FileSent, WholeInBuf, Latest, ReadingBlock, Due, HasRead, Inside
<1>6. CalmInv'
  <2>1. InOrder' => ChunksFollow'
    BY <1>1, <1>3 DEF NetInv, CalmInv, InOrder, ChunksFollow, HostIdle, SecondFollows, Inside, HasRead
  <2>2. Calm' => CalmHost' /\ AllTaken' /\ BlockIsRead'
    BY <1>1, <1>3 DEF NetInv, CalmInv, Calm, InOrder, CalmHost, AllTaken, BlockIsRead, NotHandled,
     Pending, FileSent, Latest, ReadingBlock, HasRead, Inside
  <2>3. Calm' => EndsCount'
    <3>1. Calm' => EndsCount /\ ~Pending
      BY <1>1, <1>3 DEF NetInv, CalmInv, Calm, InOrder, CalmHost, ReadingBlock
    <3>2. Pending' <=> Pending
      BY <1>1 DEF Pending
    <3> QED BY <1>1, <1>3, <3>1, <3>2 DEF EndsCount
  <2> QED BY <2>1, <2>2, <2>3 DEF CalmInv
<1>7. PunctualInv'
  BY <1>1, <1>3 DEF NetInv, PunctualInv, Punctual, InOrder, Latest, ReadingBlock, HasRead, Inside
<1> QED BY <1>4, <1>5, <1>6, <1>7 DEF NetInv, NetBase

\* It is burnt, or could not be.
LEMMA BurnEnds == ASSUME NetSizes, NetInv, BurnReturns PROVE NetInv'
<1>1. /\ main = "burn" /\ main' = "loop" /\ isr = "idle"
      /\ upg' = [upg EXCEPT !.status = "UNUSED"] /\ UNCHANGED <<chip, isr, ctl, host, seen>>
  BY DEF BurnReturns, InterruptDue
<1>2. NetTyped /\ upg.status = "WRITE"
  BY <1>1 DEF NetInv, NetBase, RequestFollows
<1>3. /\ upg' \in Upgrades /\ upg'.status = "UNUSED" /\ upg'.buf = upg.buf /\ upg'.header = upg.header
      /\ upg'.block = upg.block
  BY <1>1, <1>2 DEF NetTyped, Upgrades
<1>4. NetTyped' /\ HostFollows' /\ RequestFollows' /\ HandlerFollows'
  BY <1>1, <1>2, <1>3 DEF NetInv, NetBase, NetTyped, HostFollows, RequestFollows, HandlerFollows, HostIdle,
     Inside, HasRead
<1>5. KeptInv'
  BY <1>1, <1>3 DEF NetInv, KeptInv, Kept, KeptHost, BlockFollows, DataFollow, HeaderFollows, Held,
     TakenFollows, WholeInBuf, Latest, ReadingBlock, Due, HasRead, Inside
<1>6. CalmInv'
  <2>1. InOrder' => ChunksFollow'
    BY <1>1 DEF NetInv, CalmInv, InOrder, ChunksFollow, HostIdle, SecondFollows, Inside, HasRead
  <2>2. Calm' => CalmHost' /\ AllTaken' /\ BlockIsRead' /\ EndsCount'
    BY <1>1, <1>2, <1>3 DEF NetInv, CalmInv, Calm, InOrder, CalmHost, AllTaken, BlockIsRead, EndsCount,
     NotHandled, Pending, Latest, ReadingBlock, HasRead, Inside
  <2> QED BY <2>1, <2>2 DEF CalmInv
<1>7. PunctualInv'
  BY <1>1, <1>3 DEF NetInv, PunctualInv, Punctual, InOrder, Latest, ReadingBlock, HasRead, Inside
<1> QED BY <1>4, <1>5, <1>6, <1>7 DEF NetInv, NetBase

\* What a request of the host changes.
AskedFor(k, f) ==
  /\ HostIdle /\ ~chip.setup
  /\ CASE k = "header" -> f \in Files
       [] k = "block"  -> f = host.file /\ f # NoFile /\ host.block = 0 /\ host.sent < Size[f]
       [] k = "end"    -> f = host.file /\ f # NoFile
       [] k = "config" -> f = NoFile /\ host.file = NoFile
       [] OTHER        -> f = NoFile
  /\ chip' \in Chips /\ chip'.setup /\ ~chip'.open /\ chip'.handshake
  /\ chip'.out = chip.out /\ chip'.outIrq = chip.outIrq /\ chip'.bulk = chip.bulk
  /\ host' \in Hosts /\ host'.req.kind = k /\ host'.req.file = f /\ host'.chunk = 0
  /\ k = "header" => host'.file = f /\ host'.sent = 0 /\ host'.block = 0
  /\ k = "block" => /\ host'.file = host.file /\ host'.sent = host.sent
                    /\ host'.block = NextBlock /\ host'.req.size = NextBlock
  /\ k = "end" => host'.file = NoFile /\ host'.sent = host.sent /\ host'.block = host.block
  /\ k \notin {"header", "block", "end"} =>
       host'.file = host.file /\ host'.sent = host.sent /\ host'.block = host.block
  /\ seen' \in Histories /\ seen'.late = seen.late /\ seen'.burnt = seen.burnt
  /\ seen'.abandoned <=> seen.abandoned \/ BreaksOff(k)
  /\ seen'.overtaken <=> \/ seen.overtaken \/ ctl.setup \/ ctl.receive
                         \/ k = "header" /\ upg.status = "WRITE"
  /\ seen'.early <=> seen.early \/ (k = "end" /\ (chip.bulk # <<>> \/ ReadingBlock))
  /\ seen'.ahead <=> seen.ahead \/ (k = "block" /\ (chip.bulk # <<>> \/ ReadingBlock))
  /\ seen'.ended = IF k = "end" THEN seen.ended + 1 ELSE seen.ended
  /\ seen'.refused = seen.refused /\ seen'.file = IF k = "end" THEN f ELSE seen.file
  /\ UNCHANGED <<isr, ctl, main, upg>>

\* The next block is not empty, and within the file.
LEMMA NextBlockIs ==
  ASSUME NetSizes, NetTyped, host.file # NoFile, host.sent < Size[host.file]
  PROVE  NextBlock \in Nat /\ NextBlock > 0 /\ host.sent + NextBlock <= Size[host.file]
<1> DEFINE z == Size[host.file]
<1>1. z \in Nat /\ host.sent \in Nat /\ BlockSize \in Nat /\ BlockSize > 0 /\ host.sent < z
  BY DEF NetTyped, Hosts, Named, NetSizes
<1>2. NextBlock = Least(BlockSize, z - host.sent)
  BY DEF NextBlock
<1> HIDE DEF z
<1>3. NextBlock \in Nat /\ NextBlock > 0 /\ host.sent + NextBlock <= z
  BY <1>1, <1>2 DEF Least
<1> QED BY <1>3 DEF z

LEMMA AskIs ==
  ASSUME NetSizes, NetTyped, NEW k \in Kinds \ {"none"}, NEW f \in Named, Ask(k, f)
  PROVE  AskedFor(k, f)
<1> DEFINE n == IF k = "block" THEN NextBlock ELSE 0
           q == Req(k, f, n)
           g == CASE k = "header" -> f [] k = "end" -> NoFile [] OTHER -> host.file
           s == IF k = "header" THEN 0 ELSE host.sent
           b == CASE k = "block" -> NextBlock [] k = "header" -> 0 [] OTHER -> host.block
           m == host.n + 1
           z == 0
           sa == seen.abandoned \/ BreaksOff(k)
           so == seen.overtaken \/ ctl.setup \/ ctl.receive \/ (k = "header" /\ upg.status = "WRITE")
           sy == seen.early \/ (k = "end" /\ (chip.bulk # <<>> \/ ReadingBlock))
           sh == seen.ahead \/ (k = "block" /\ (chip.bulk # <<>> \/ ReadingBlock))
           sf == IF k = "end" THEN f ELSE seen.file
           se == IF k = "end" THEN seen.ended + 1 ELSE seen.ended
<1>1. /\ HostIdle /\ ~chip.setup
      /\ CASE k = "header" -> f \in Files
           [] k = "block"  -> /\ f = host.file /\ f # NoFile
                              /\ host.block = 0 /\ host.sent < Size[f]
           [] k = "end"    -> f = host.file /\ f # NoFile
           [] k = "config" -> f = NoFile /\ host.file = NoFile
           [] OTHER        -> f = NoFile
      /\ host' = [host EXCEPT !.chunk = z, !.n = m, !.req = q, !.file = g, !.sent = s, !.block = b]
      /\ chip' = [chip EXCEPT !.setup = TRUE, !.open = FALSE, !.handshake = TRUE]
      /\ seen' = [seen EXCEPT !.abandoned = sa, !.overtaken = so, !.early = sy, !.ahead = sh,
                            !.file = sf, !.ended = se]
      /\ UNCHANGED <<isr, ctl, main, upg>>
  BY DEF Ask
<1>2. chip \in Chips /\ host \in Hosts /\ seen \in Histories
  BY DEF NetTyped
<1>3. /\ chip' \in Chips /\ chip'.setup /\ ~chip'.open /\ chip'.handshake
      /\ chip'.out = chip.out /\ chip'.outIrq = chip.outIrq /\ chip'.bulk = chip.bulk
  BY <1>1, <1>2 DEF Chips
<1>4. sa \in BOOLEAN /\ so \in BOOLEAN /\ sy \in BOOLEAN /\ sh \in BOOLEAN
  <2>1. seen.abandoned \in BOOLEAN /\ seen.overtaken \in BOOLEAN /\ seen.early \in BOOLEAN /\ seen.ahead \in BOOLEAN
        /\ ctl.setup \in BOOLEAN /\ ctl.receive \in BOOLEAN
    BY <1>2 DEF Histories, NetTyped, Controls
  <2>2. BreaksOff(k) \in BOOLEAN
    BY DEF BreaksOff
  <2> QED BY <2>1, <2>2, Zenon
<1>5. se \in Nat /\ sf \in Named
  BY <1>2 DEF Histories
<1>6. k = "block" => NextBlock \in Nat
  BY <1>1, NextBlockIs
<1>7. m \in Nat /\ s \in Nat /\ b \in Nat /\ n \in Int /\ z \in 0..2
  BY <1>2, <1>6 DEF Hosts
<1>8. g \in Named
  BY <1>2 DEF Hosts, Named
<1>9. q \in Requests /\ q.kind = k /\ q.file = f /\ q.size = n
  <2> HIDE DEF n
  <2> QED BY <1>7 DEF Requests, Req
<1>10. /\ k = "header" => g = f /\ s = 0 /\ b = 0
       /\ k = "block" => g = host.file /\ s = host.sent /\ b = NextBlock /\ n = NextBlock
       /\ k = "end" => g = NoFile /\ s = host.sent /\ b = host.block
       /\ k \notin {"header", "block", "end"} => g = host.file /\ s = host.sent /\ b = host.block
       /\ z = 0
  OBVIOUS
<1>11. /\ (k = "end" => se = seen.ended + 1) /\ (k # "end" => se = seen.ended)
       /\ (k = "end" => sf = f) /\ (k # "end" => sf = seen.file)
  OBVIOUS
<1>12. /\ host' \in Hosts /\ host'.req = q /\ host'.chunk = z /\ host'.file = g
       /\ host'.sent = s /\ host'.block = b
  <2> HIDE DEF n, q, g, s, b, m, z
  <2> QED BY <1>1, <1>2, <1>7, <1>8, <1>9 DEF Hosts
<1>13. /\ seen' \in Histories /\ seen'.late = seen.late /\ seen'.burnt = seen.burnt
       /\ seen'.abandoned = sa /\ seen'.overtaken = so /\ seen'.early = sy /\ seen'.ahead = sh
       /\ seen'.ended = se /\ seen'.file = sf /\ seen'.refused = seen.refused
  <2> HIDE DEF sa, so, sy, sh, sf, se
  <2> QED BY <1>1, <1>2, <1>4, <1>5 DEF Histories
<1>14. /\ seen'.abandoned <=> seen.abandoned \/ BreaksOff(k)
       /\ seen'.overtaken <=> \/ seen.overtaken \/ ctl.setup \/ ctl.receive
                              \/ k = "header" /\ upg.status = "WRITE"
       /\ seen'.early <=> seen.early \/ (k = "end" /\ (chip.bulk # <<>> \/ ReadingBlock))
       /\ seen'.ahead <=> seen.ahead \/ (k = "block" /\ (chip.bulk # <<>> \/ ReadingBlock))
  BY <1>13, Zenon
<1> HIDE DEF n, q, g, s, b, m, z, sa, so, sy, sh, sf, se
<1>15. /\ host' \in Hosts /\ host'.req.kind = k /\ host'.req.file = f /\ host'.chunk = 0
       /\ k = "header" => host'.file = f /\ host'.sent = 0 /\ host'.block = 0
       /\ k = "block" => /\ host'.file = host.file /\ host'.sent = host.sent
                         /\ host'.block = NextBlock /\ host'.req.size = NextBlock
       /\ k = "end" => host'.file = NoFile /\ host'.sent = host.sent /\ host'.block = host.block
       /\ k \notin {"header", "block", "end"} =>
            host'.file = host.file /\ host'.sent = host.sent /\ host'.block = host.block
  BY <1>9, <1>10, <1>12
<1>16. /\ seen'.ended = IF k = "end" THEN seen.ended + 1 ELSE seen.ended
       /\ seen'.refused = seen.refused /\ seen'.file = IF k = "end" THEN f ELSE seen.file
  BY <1>11, <1>13
<1> QED BY <1>1, <1>3, <1>13, <1>14, <1>15, <1>16 DEF AskedFor

\* A download that is not broken off, before the host asks for something.
LEMMA NotBrokenOff ==
  ASSUME NetSizes, NetTyped, HostFollows, NEW k \in Kinds \ {"none"}, NEW f \in Named,
         AskedFor(k, f), ~BreaksOff(k)
  PROVE  /\ host.sent \in Nat /\ host.block \in Nat
         /\ k \in {"header", "version", "end", "block"} => host.block = 0
         /\ k \in {"header", "end"} /\ host.file # NoFile => host.sent = Size[host.file] /\ host.sent > 0
         /\ k \in {"header", "block", "end"} => f # NoFile
         /\ k = "config" => host.file = NoFile
         /\ host.block > 0 => host'.block > 0
         /\ k = "block" => host'.block > 0
         /\ (host.sent = 0 => host'.sent = 0) /\ host'.block \in Nat /\ host'.sent \in Nat
<1>1. host \in Hosts /\ host' \in Hosts
  BY DEF NetTyped, AskedFor
<1>2. /\ host.sent \in Nat /\ host.block \in Nat /\ host'.block \in Nat /\ host'.sent \in Nat
  BY <1>1 DEF Hosts
<1>3. k \in {"header", "version", "end", "block"} => host.block = 0
  BY <1>2 DEF AskedFor, BreaksOff
<1>4. k \in {"header", "end"} /\ host.file # NoFile => host.sent = Size[host.file] /\ host.sent > 0
  <2> SUFFICES ASSUME k \in {"header", "end"}, host.file # NoFile
               PROVE  host.sent = Size[host.file] /\ host.sent > 0
    OBVIOUS
  <2>1. Size[host.file] \in Nat \ {0}
    BY <1>1 DEF Hosts, Named, NetSizes
  <2>2. ~(host.sent < Size[host.file])
    BY DEF BreaksOff
  <2>3. host.sent + host.block <= Size[host.file]
    BY DEF HostFollows
  <2> QED BY <1>2, <2>1, <2>2, <2>3
<1>5. k \in {"header", "block", "end"} => f # NoFile
  BY DEF AskedFor, NetSizes, NoFile
<1>6. k = "config" => host.file = NoFile
  BY DEF AskedFor
<1>7. k = "block" => host'.block > 0
  BY NextBlockIs DEF AskedFor
<1>8. host.sent = 0 => host'.sent = 0
  BY DEF AskedFor
<1>9. host.block > 0 => host'.block > 0
  <2>1. k \notin {"header", "block", "end"} => host'.block = host.block
    BY DEF AskedFor
  <2> QED BY <1>2, <1>3, <1>7, <2>1
<1> QED BY <1>2, <1>3, <1>4, <1>5, <1>6, <1>7, <1>8, <1>9

LEMMA AskedBase ==
  ASSUME NetSizes, NetBase, NEW k \in Kinds \ {"none"}, NEW f \in Named, AskedFor(k, f)
  PROVE  NetBase'
<1>1. NetTyped /\ HostFollows /\ RequestFollows /\ HandlerFollows
  BY DEF NetBase
<1>2. NetTyped'
  BY <1>1 DEF NetTyped, AskedFor
<1>3. k # "none" /\ isr = "idle" /\ (~HostIdle)'
  BY <1>1 DEF AskedFor, HostIdle, NoRequest, Req, RequestFollows
<1>4. HostFollows'
  <2>1. /\ k = "header" => f \in Files /\ f # NoFile
        /\ k = "block" => host.file # NoFile /\ NextBlock > 0 /\ host.sent + NextBlock <= Size[host.file]
    BY <1>1, NextBlockIs DEF AskedFor, NetSizes, NoFile
  <2>2. \A g \in Files : 0 <= Size[g]
    BY DEF NetSizes
  <2>3. host'.file # NoFile => host'.sent + host'.block <= Size[host'.file]
    <3>1. CASE k = "header"
      BY <2>1, <2>2, <3>1 DEF AskedFor
    <3>2. CASE k = "block"
      BY <2>1, <3>2 DEF AskedFor
    <3>3. CASE k = "end"
      BY <3>3 DEF AskedFor
    <3>4. CASE k \notin {"header", "block", "end"}
      BY <1>1, <3>4 DEF AskedFor, HostFollows
    <3> QED BY <3>1, <3>2, <3>3, <3>4
  <2>4. host'.chunk = 0 /\ Chunks(k) \in Nat
    BY DEF AskedFor, Chunks
  <2>5. /\ k = "header" => host'.file = f /\ f # NoFile /\ host'.sent = 0 /\ host'.block = 0
        /\ k = "block" => host'.file # NoFile /\ host'.block = host'.req.size /\ host'.block > 0
        /\ k = "end" => host'.file = NoFile /\ f # NoFile /\ seen'.file = f
    BY <2>1 DEF AskedFor
  <2>6. host'.req.kind = k /\ host'.req.file = f
    BY DEF AskedFor
  <2>7. host'.chunk <= Chunks(host'.req.kind)
    BY <2>4, <2>6
  <2> QED BY <1>3, <2>3, <2>5, <2>6, <2>7 DEF HostFollows
<1>5. RequestFollows'
  <2>1. main' = "burn" => upg'.status = "WRITE"
    BY <1>1 DEF AskedFor, RequestFollows
  <2> QED BY <1>3, <2>1 DEF AskedFor, RequestFollows
<1>6. HandlerFollows'
  BY <1>1, <1>3 DEF AskedFor, HandlerFollows, Inside, HasRead
<1> QED BY <1>2, <1>4, <1>5, <1>6 DEF NetBase

LEMMA AskedKept ==
  ASSUME NetSizes, NetBase, KeptInv, NEW k \in Kinds \ {"none"}, NEW f \in Named, AskedFor(k, f)
  PROVE  KeptInv'
<1> SUFFICES ASSUME Kept' PROVE KeptInv'
  BY DEF KeptInv
<1>1. NetTyped /\ HostFollows /\ RequestFollows /\ HandlerFollows
  BY DEF NetBase
<1>2. /\ KeptHost /\ BlockFollows /\ DataFollow /\ HeaderFollows /\ TakenFollows /\ WholeInBuf
      /\ ~BreaksOff(k) /\ (k \in {"block", "end"} => chip.bulk = <<>> /\ ~ReadingBlock)
  BY DEF AskedFor, Kept, KeptInv
<1>3. /\ HostIdle /\ ~chip.setup /\ isr = "idle" /\ chip'.setup /\ chip'.bulk = chip.bulk /\ chip'.out = chip.out
      /\ host'.req.kind = k /\ host'.req.file = f /\ k \in Kinds /\ k # "none"
      /\ UNCHANGED <<isr, ctl, main, upg>>
      /\ k = "header" => host'.file = f /\ host'.sent = 0 /\ host'.block = 0
      /\ k = "block" => host'.file = host.file /\ host'.sent = host.sent /\ f = host.file
      /\ k = "end" => host'.file = NoFile /\ host'.sent = host.sent /\ host'.block = host.block /\ f = host.file
      /\ k \notin {"header", "block", "end"} =>
           host'.file = host.file /\ host'.sent = host.sent /\ host'.block = host.block
  BY <1>1 DEF AskedFor, RequestFollows
<1>4. /\ host.sent \in Nat /\ host.block \in Nat
      /\ k \in {"header", "version", "end", "block"} => host.block = 0
      /\ k \in {"header", "end"} /\ host.file # NoFile => host.sent = Size[host.file] /\ host.sent > 0
      /\ k \in {"header", "block", "end"} => f # NoFile
      /\ k = "config" => host.file = NoFile
      /\ host.block > 0 => host'.block > 0
      /\ k = "block" => host'.block > 0
      /\ (host.sent = 0 => host'.sent = 0) /\ host'.block \in Nat /\ host'.sent \in Nat
  BY <1>1, <1>2, NotBrokenOff
<1>5. /\ ~Latest("block") /\ FileSent = host.file /\ Due' = Due /\ ReadingBlock' = ReadingBlock
      /\ ~Inside /\ ~HasRead /\ ~Inside' /\ ~HasRead'
  BY <1>3 DEF Latest, FileSent, Due, ReadingBlock, Inside, HasRead
<1>6. Held => ~(k \in {"header", "block", "end", "config"}) /\ Held'
  <2>1. Held => k \notin {"header", "block", "end", "config"}
    BY <1>2, <1>3, <1>4 DEF Held, ReadingBlock
  <2> QED BY <1>3, <2>1 DEF Held, ReadingBlock
<1>7. k = "block" => upg.block <= 0
  <2>1. k = "block" => ~(upg.block > 0)
    BY <1>2, <1>3, <1>4 DEF BlockFollows, ReadingBlock, Due
  <2>2. upg.block \in Int
    BY <1>1 DEF NetTyped, Upgrades
  <2> QED BY <2>1, <2>2
<1>8. KeptHost'
  <2>1. host'.block > 0 => host'.file # NoFile
    BY <1>2, <1>3, <1>4 DEF KeptHost, ReadingBlock
  <2>2. k \in {"version", "end"} => host'.block = 0
    BY <1>3, <1>4
  <2>3. k = "end" => chip'.bulk = <<>> /\ ~ReadingBlock' /\ host'.sent = Size[f]
    BY <1>2, <1>3, <1>4, <1>5
  <2>4. k = "block" => chip'.bulk = <<>> /\ ~ReadingBlock' /\ upg'.block <= 0
    BY <1>2, <1>3, <1>5, <1>7
  <2> QED BY <1>3, <2>1, <2>2, <2>3, <2>4 DEF KeptHost, Latest, ReadingBlock, Inside, HasRead
<1>9. BlockFollows'
  <2>1. ReadingBlock => host'.block = host.block /\ (Due => host'.sent = 0 /\ host'.block = 0)
    BY <1>2, <1>3, <1>4 DEF BlockFollows
  <2> QED BY <1>2, <1>3, <1>4, <1>5, <2>1 DEF BlockFollows
<1>10. DataFollow'
  <2> SUFFICES ASSUME Due
               PROVE  /\ host'.file # NoFile
                      /\ host'.sent > 0 \/ host'.block > 0 =>
                           /\ ~ReadingBlock /\ isr # "wait" /\ upg.block <= 0
                           /\ host'.block = 0 => chip.bulk # <<>>
                      /\ ctl.req.kind = "block" =>
                           ctl.data[1].kind = "block" /\ host'.block + Len(chip.bulk) <= ctl.data[1].size
    BY <1>3, <1>5 DEF DataFollow
  <2>1. /\ host.file # NoFile
        /\ host.sent > 0 \/ host.block > 0 =>
             /\ ~ReadingBlock /\ isr # "wait" /\ upg.block <= 0
             /\ host.block = 0 => chip.bulk # <<>>
        /\ ctl.req.kind = "block" =>
             /\ ctl.data[1].kind = "block" /\ host.block + Len(chip.bulk) <= ctl.data[1].size
             /\ host.sent > 0 \/ host.block > 0
    BY <1>1, <1>2, <1>3 DEF DataFollow, HandlerFollows
  <2>2. CASE k = "header"
    BY <1>3, <1>4, <2>1, <2>2
  <2>3. CASE k = "block"
    BY <1>2, <1>3, <1>4, <1>7, <2>1, <2>3
  <2>4. CASE k = "end"
    BY <1>2, <1>3, <1>4, <2>1, <2>4
  <2>5. CASE k \notin {"header", "block", "end"}
    BY <1>3, <2>1, <2>5
  <2> QED BY <2>2, <2>3, <2>4, <2>5
<1>11. HeaderFollows'
  <2>1. k = "header" /\ Due => Held'
    <3> SUFFICES ASSUME k = "header", Due PROVE Held'
      OBVIOUS
    <3>1. host.file # NoFile
      BY <1>2 DEF DataFollow
    <3>2. host.sent > 0 /\ host.block = 0
      BY <1>4, <3>1
    <3>3. ~ReadingBlock /\ isr # "wait" /\ upg.block <= 0 /\ chip.bulk # <<>>
      BY <1>2, <3>2 DEF DataFollow
    <3> QED BY <1>3, <1>4, <1>5, <3>3 DEF Held
  <2>2. ASSUME ctl.req.kind = "header"
        PROVE  /\ host'.file = ctl.req.file /\ host'.file # NoFile /\ host'.sent = 0
               /\ host'.block > 0 => k = "block"
               /\ \/ /\ ctl.count = 1 /\ ctl.receive /\ chip.out \in {<<>>, <<ctl.req>>}
                     /\ Due => Held' \/ (ctl.outer > 0 /\ ctl.data[2].file = ctl.req.file)
                     /\ ctl.setup => Held'
                  \/ ctl.count = 2 /\ ~ctl.receive /\ (ctl.data[2].file = ctl.req.file \/ Held')
    <3>1. /\ host.file = ctl.req.file /\ host.file # NoFile /\ host.sent = 0 /\ ~(host.block > 0)
          /\ \/ /\ ctl.count = 1 /\ ctl.receive /\ chip.out \in {<<>>, <<ctl.req>>}
                /\ Due => Held \/ (ctl.outer > 0 /\ ctl.data[2].file = ctl.req.file)
                /\ ctl.setup => Held
             \/ ctl.count = 2 /\ ~ctl.receive /\ (ctl.data[2].file = ctl.req.file \/ Held)
      BY <1>2, <1>3, <2>2 DEF HeaderFollows
    <3>2. k \notin {"header", "end", "config"}
      BY <1>4, <3>1
    <3> QED BY <1>3, <1>4, <1>6, <3>1, <3>2
  <2> QED BY <1>3, <1>5, <2>1, <2>2 DEF HeaderFollows
<1>12. TakenFollows'
  <2> SUFFICES ASSUME upg.status = "DOWNLOAD" PROVE TakenFollows'
    BY <1>3 DEF TakenFollows
  <2>1. /\ host.file # NoFile /\ host.sent <= Len(Taken)
        /\ \A i \in 1..host.sent : Taken[Len(Taken) - host.sent + i] \in {<<host.file, i>>, Descriptor}
        /\ \/ upg.header \in {host.file, NoFile}
           \/ Len(Taken) >= host.sent + Size[upg.header]
           \/ Held
    BY <1>2, <1>3, <1>5 DEF TakenFollows
  <2>2. Taken' = Taken
    BY <1>3 DEF Taken
  <2>3. CASE k = "header"
    <3>1. host'.sent = 0 /\ FileSent' = f /\ f # NoFile /\ host.sent = Size[host.file] /\ ~Held
      BY <1>3, <1>4, <1>6, <2>1, <2>3 DEF FileSent
    <3>2. Len(Taken) \in Nat
      <4>1. upg.buf \in Seq(Pieces) /\ chip.bulk \in Seq(Pieces)
        BY <1>1 DEF NetTyped, Upgrades, Chips
      <4>2. \A b, c \in Seq(Pieces) : Len(b \o c) \in Nat
        OBVIOUS
      <4> QED BY <4>1, <4>2, Zenon DEF Taken
    <3>3. host'.sent <= Len(Taken') /\ \A i \in 1..host'.sent : FALSE
      BY <2>2, <3>1, <3>2
    <3>4. upg.header = NoFile \/ Len(Taken) >= 0 + Size[upg.header]
      <4>1. CASE upg.header \in {host.file, NoFile}
        BY <1>4, <2>1, <3>1, <3>2, <4>1
      <4>2. CASE Len(Taken) >= host.sent + Size[upg.header] /\ upg.header # NoFile
        <5>1. Size[upg.header] \in Nat
          BY <1>1, <4>2 DEF NetSizes, NetTyped, Upgrades, Named
        <5> QED BY <1>4, <3>2, <4>2, <5>1
      <4> QED BY <2>1, <3>1, <4>1, <4>2
    <3> QED BY <1>3, <2>2, <3>1, <3>3, <3>4 DEF TakenFollows
  <2>4. CASE k # "header"
    <3>1. host'.sent = host.sent /\ FileSent' = host.file
      BY <1>3, <2>4 DEF FileSent
    <3> QED BY <1>3, <1>6, <2>1, <2>2, <3>1 DEF TakenFollows
  <2> QED BY <2>3, <2>4
<1>13. WholeInBuf'
  <2>1. k = "end" => upg.status # "WRITE"
    BY <1>2, <1>3, <1>4 DEF WholeInBuf
  <2>2. k # "end" => seen'.file = seen.file
    BY DEF AskedFor
  <2>3. host'.file # NoFile /\ host'.sent > 0 /\ k # "end" => host.file # NoFile /\ host.sent > 0
    BY <1>3, <1>4
  <2> QED BY <1>2, <1>3, <2>1, <2>2, <2>3 DEF WholeInBuf
<1> QED BY <1>8, <1>9, <1>10, <1>11, <1>12, <1>13 DEF KeptInv

LEMMA AskedCalm ==
  ASSUME NetSizes, NetBase, CalmInv, NEW k \in Kinds \ {"none"}, NEW f \in Named, AskedFor(k, f)
  PROVE  CalmInv'
<1>1. NetTyped /\ HostFollows /\ RequestFollows /\ HandlerFollows
  BY DEF NetBase
<1>2. /\ HostIdle /\ ~chip.setup /\ isr = "idle" /\ chip'.setup /\ chip'.bulk = chip.bulk /\ chip'.out = chip.out
      /\ host'.req.kind = k /\ host'.req.file = f /\ k \in Kinds /\ k # "none"
      /\ UNCHANGED <<isr, ctl, main, upg>>
      /\ k = "header" => host'.file = f /\ host'.sent = 0 /\ host'.block = 0
      /\ k = "block" => host'.file = host.file /\ host'.sent = host.sent /\ f = host.file
      /\ k = "end" => host'.file = NoFile /\ host'.sent = host.sent /\ host'.block = host.block /\ f = host.file
      /\ k \notin {"header", "block", "end"} =>
           host'.file = host.file /\ host'.sent = host.sent /\ host'.block = host.block
  BY <1>1 DEF AskedFor, RequestFollows
<1>3. InOrder' => /\ ChunksFollow /\ ~ctl.setup /\ ~ctl.receive /\ chip.out = <<>> /\ ctl.outer = 0
                  /\ k = "header" => upg.status # "WRITE"
  <2>1. InOrder' => InOrder /\ ~ctl.setup /\ ~ctl.receive /\ (k = "header" => upg.status # "WRITE")
    BY DEF AskedFor, InOrder
  <2>2. InOrder' => ChunksFollow
    BY <2>1 DEF CalmInv
  <2> QED BY <1>2, <2>1, <2>2 DEF ChunksFollow, SecondFollows, Inside, HasRead
<1>4. InOrder' => ChunksFollow'
  BY <1>2, <1>3 DEF ChunksFollow, SecondFollows, Inside, HasRead
<1>5. Calm' => CalmHost' /\ AllTaken' /\ BlockIsRead' /\ EndsCount'
  <2> SUFFICES ASSUME Calm' PROVE CalmHost' /\ AllTaken' /\ BlockIsRead' /\ EndsCount'
    OBVIOUS
  <2>1. /\ CalmHost /\ AllTaken /\ BlockIsRead /\ EndsCount
        /\ ~BreaksOff(k) /\ (k = "end" => chip.bulk = <<>> /\ ~ReadingBlock)
        /\ ~ctl.setup /\ ~ctl.receive /\ chip.out = <<>> /\ (k = "header" => upg.status # "WRITE")
    BY <1>3 DEF AskedFor, InOrder, Calm, CalmInv
  <2>2. /\ host.sent \in Nat /\ host.block \in Nat
        /\ k \in {"header", "version", "end", "block"} => host.block = 0
        /\ k \in {"header", "end"} /\ host.file # NoFile => host.sent = Size[host.file] /\ host.sent > 0
        /\ k \in {"header", "block", "end"} => f # NoFile
        /\ k = "config" => host.file = NoFile
        /\ host.block > 0 => host'.block > 0
        /\ k = "block" => host'.block > 0
        /\ (host.sent = 0 => host'.sent = 0) /\ host'.block \in Nat /\ host'.sent \in Nat
    BY <1>1, <2>1, NotBrokenOff
  <2>3. /\ ~NotHandled /\ (NotHandled' <=> k = "header") /\ ~Pending /\ (Pending' <=> k = "end")
        /\ ~Latest("block") /\ (Latest("block")' <=> k = "block")
        /\ FileSent = host.file /\ FileSent' = IF k = "end" THEN f ELSE host'.file
    BY <1>2, <2>1 DEF NotHandled, Pending, Latest, FileSent, Inside, HasRead
  <2>4. IF ReadingBlock THEN upg.block >= host.block + Len(chip.bulk) + upg.new
                        ELSE host.block = 0 /\ chip.bulk = <<>>
    BY <2>1, <2>3 DEF BlockIsRead
  <2>5. CalmHost'
    BY <1>2, <2>1, <2>2, <2>3, <2>4 DEF CalmHost, ReadingBlock
  <2>6. AllTaken'
    <3>1. CASE k = "end"
      <4>1. /\ upg.status = "DOWNLOAD" /\ upg.header = f /\ f # NoFile
            /\ Len(upg.buf) + Len(chip.bulk) = host.sent
        BY <1>2, <2>1, <2>2, <2>3, <3>1 DEF AllTaken
      <4>2. Len(upg.buf) \in Nat /\ Len(chip.bulk) = 0
        BY <1>1, <2>1, <3>1 DEF NetTyped, Upgrades
      <4>3. Len(upg.buf) = Size[upg.header]
        <5>1. host.sent = Size[upg.header]
          BY <1>2, <2>2, <3>1, <4>1
        <5> QED BY <4>1, <4>2, <5>1
      <4> QED BY <1>2, <2>3, <3>1, <4>1, <4>3 DEF AllTaken
    <3>2. CASE k = "header"
      BY <2>3, <3>2 DEF AllTaken
    <3>3. CASE k \notin {"header", "end"}
      BY <1>2, <2>1, <2>3, <3>3 DEF AllTaken
    <3> QED BY <3>1, <3>2, <3>3
  <2>7. BlockIsRead'
    <3>1. CASE k = "block"
      <4>1. ReadingBlock => upg.block >= Len(chip.bulk) + upg.new
        <5> DEFINE c == Len(chip.bulk) + upg.new
        <5>1. ReadingBlock => upg.block >= 0 + Len(chip.bulk) + upg.new
          BY <2>2, <2>4, <3>1
        <5>2. Len(chip.bulk) \in Nat /\ upg.new \in Nat
          BY <1>1, Joined DEF NetTyped, Upgrades
        <5> QED BY <5>1, <5>2
      <4> QED BY <1>2, <2>1, <2>3, <2>4, <3>1, <4>1 DEF BlockIsRead, ReadingBlock, HasRead
    <3>2. CASE k # "block"
      <4>1. host'.block = host.block
        BY <1>2, <2>2, <3>2
      <4> QED BY <1>2, <2>1, <2>3, <2>4, <3>2, <4>1 DEF BlockIsRead, ReadingBlock, HasRead
    <3> QED BY <3>1, <3>2
  <2>8. EndsCount'
    <3> DEFINE w == IF upg.status = "WRITE" /\ main # "burn" THEN 1 ELSE 0
    <3>1. seen.burnt \in Nat /\ w \in Nat
      BY <1>1 DEF NetTyped, Histories
    <3>2. seen.ended = seen.burnt + 0 + w
      BY <2>1, <2>3 DEF EndsCount
    <3>3. w' = w /\ seen'.burnt = seen.burnt
      BY <1>2 DEF AskedFor
    <3>4. seen'.ended = IF k = "end" THEN seen.ended + 1 ELSE seen.ended
      BY DEF AskedFor
    <3>5. EndsCount' <=> seen'.ended = seen'.burnt + (IF Pending' THEN 1 ELSE 0) + w'
      BY DEF EndsCount
    <3> HIDE DEF w
    <3> QED BY <2>3, <3>1, <3>2, <3>3, <3>4, <3>5
  <2> QED BY <2>5, <2>6, <2>7, <2>8
<1> QED BY <1>4, <1>5 DEF CalmInv

LEMMA AskedPunctual ==
  ASSUME NetSizes, NetBase, CalmInv, PunctualInv, NEW k \in Kinds \ {"none"}, NEW f \in Named,
         AskedFor(k, f)
  PROVE  PunctualInv'
<1> SUFFICES ASSUME Punctual' PROVE PunctualInv'
  BY DEF PunctualInv, ReadingBlock, HasRead
<1>1. NetTyped /\ HostFollows /\ RequestFollows
  BY DEF NetBase
<1>2. /\ upg.block <= host.block + Len(chip.bulk) + upg.new
      /\ ~BreaksOff(k) /\ (k = "block" => chip.bulk = <<>> /\ ~ReadingBlock)
      /\ ~ctl.setup
  BY DEF AskedFor, InOrder, Punctual, PunctualInv, ReadingBlock, HasRead
<1>3. /\ host.block \in Nat /\ host'.block \in Nat
      /\ k \in {"header", "version", "end", "block"} => host.block = 0
      /\ k = "block" => host'.block > 0
  BY <1>1, <1>2, NotBrokenOff
<1>4. /\ k \notin {"header", "block"} => host'.block = host.block
      /\ k = "header" => host'.block = 0
      /\ host'.req.kind = k /\ chip'.bulk = chip.bulk /\ UNCHANGED <<isr, ctl, main, upg>>
  BY DEF AskedFor
<1>5. host'.block >= host.block
  BY <1>3, <1>4
<1>6. upg'.block <= host'.block + Len(chip'.bulk) + upg'.new
  <2> DEFINE c == Len(chip.bulk)
             v == upg.new
             x == upg.block
             y == host.block
             w == host'.block
  <2>1. c \in Nat /\ v \in Nat /\ x \in Int /\ y \in Nat /\ w \in Nat
    BY <1>1, <1>3, Joined DEF NetTyped, Upgrades
  <2>2. upg'.block = x /\ Len(chip'.bulk) = c /\ upg'.new = v
    BY <1>4
  <2>3. x <= y + c + v /\ w >= y
    BY <1>2, <1>5
  <2> HIDE DEF c, v, x, y
  <2>4. x <= w + c + v
    <3> HIDE DEF w
    <3> QED BY <2>1, <2>3
  <2> QED BY <2>2, <2>4
<1>7. k = "version" => host'.block = 0
  BY <1>3, <1>4
<1>8. ~HasRead' /\ ~ctl'.setup /\ (k = "block" => ~ReadingBlock')
  <2>1. isr = "idle"
    BY <1>1 DEF RequestFollows, AskedFor, HostIdle, NoRequest, Req
  <2>2. ReadingBlock' = ReadingBlock
    BY <1>4 DEF ReadingBlock
  <2> QED BY <1>2, <1>4, <2>1, <2>2 DEF HasRead
<1> QED BY <1>4, <1>6, <1>7, <1>8 DEF PunctualInv, Latest

\* The host asks for something.
LEMMA Asked ==
  ASSUME NetSizes, NetInv, NEW k \in Kinds \ {"none"}, NEW f \in Named, Ask(k, f)
  PROVE  NetInv'
<1>1. AskedFor(k, f)
  BY AskIs DEF NetInv, NetBase
<1> QED BY <1>1, AskedBase, AskedKept, AskedCalm, AskedPunctual DEF NetInv

-----------------------------------------------------------------------------
LEMMA NetStarts == ASSUME NetSizes, Init PROVE NetInv
<1>1. NoRequest \in Requests /\ NoRequest.kind = "none" /\ NoRequest.file = NoFile
  BY DEF NoRequest, Req, Requests, Kinds, Named
<1>2. NetTyped
  <2> DEFINE e == <<>>
             z == 0
             r == NoRequest
             d == <<r, r>>
  <2>1. e \in Seq(Requests) /\ e \in Seq(Pieces) /\ z \in Nat /\ z \in 0..2 /\ z \in Int /\ NoFile \in Named
        /\ "none" \in Kinds
    BY DEF Named, Kinds
  <2>2. r \in Requests
    BY <1>1
  <2>3. d \in [1..2 -> Requests]
    <3> HIDE DEF r
    <3>1. d = [i \in 1..2 |-> r]
      OBVIOUS
    <3> QED BY <2>2, <3>1
  <2>4. /\ chip = [setup |-> FALSE, open |-> FALSE, handshake |-> FALSE,
                   out |-> e, outIrq |-> FALSE, in |-> "none", bulk |-> e]
        /\ ctl = [req |-> r, data |-> d, count |-> z, setup |-> FALSE, receive |-> FALSE,
                  outer |-> z]
        /\ upg = [status |-> "UNUSED", buf |-> e, new |-> z, header |-> NoFile, block |-> z]
        /\ host = [req |-> r, chunk |-> z, file |-> NoFile, sent |-> z, block |-> z, n |-> z]
        /\ seen = [late |-> FALSE, overtaken |-> FALSE, abandoned |-> FALSE,
                   early |-> FALSE, ahead |-> FALSE, refused |-> FALSE, file |-> NoFile,
                   ended |-> z, burnt |-> z]
        /\ isr = "idle" /\ main = "loop"
    BY DEF Init
  <2> HIDE DEF e, z, r, d
  <2>5. chip \in Chips /\ ctl \in Controls
    BY <2>1, <2>2, <2>3, <2>4 DEF Chips, Controls
  <2>6. upg \in Upgrades /\ host \in Hosts /\ seen \in Histories
    BY <2>1, <2>2, <2>4 DEF Upgrades, Hosts, Histories
  <2> QED BY <2>4, <2>5, <2>6 DEF NetTyped
<1>3. /\ ~chip.setup /\ ~chip.open /\ ~chip.handshake /\ chip.out = <<>> /\ ~chip.outIrq /\ chip.bulk = <<>>
      /\ isr = "idle" /\ main = "loop" /\ ctl.req = NoRequest /\ ~ctl.setup /\ ~ctl.receive
      /\ ctl.outer = 0 /\ upg.new = 0
      /\ upg.status = "UNUSED" /\ upg.block = 0
      /\ host.req = NoRequest /\ host.file = NoFile /\ host.sent = 0 /\ host.block = 0
      /\ seen.ended = 0 /\ seen.burnt = 0 /\ Len(chip.out) = 0 /\ Len(chip.bulk) = 0
  BY DEF Init
<1>4. NetBase
  BY <1>1, <1>2, <1>3 DEF NetBase, HostFollows, RequestFollows, HandlerFollows, HostIdle, Inside, HasRead
<1>5. KeptInv
  BY <1>1, <1>3 DEF KeptInv, KeptHost, BlockFollows, DataFollow, HeaderFollows, TakenFollows,
     WholeInBuf, Latest, ReadingBlock, Due, HasRead, Inside
<1>6. CalmInv
  BY <1>1, <1>3 DEF CalmInv, ChunksFollow, CalmHost, AllTaken, BlockIsRead, EndsCount, NotHandled,
     Pending, Latest, SecondFollows, Inside, HasRead, ReadingBlock
<1>7. PunctualInv
  BY <1>1, <1>3 DEF PunctualInv, Latest, ReadingBlock, HasRead, Inside
<1> QED BY <1>4, <1>5, <1>6, <1>7 DEF NetInv

\* Nothing changes.
LEMMA NetStays == ASSUME NetInv, UNCHANGED vars PROVE NetInv'
<1>1. UNCHANGED <<chip, isr, ctl, main, upg, host, seen>>
  BY DEF vars
<1>2. NetBase'
  BY <1>1 DEF NetInv, NetBase, NetTyped, HostFollows, RequestFollows, HandlerFollows, HostIdle,
     Inside, HasRead
<1>3. KeptInv'
  BY <1>1 DEF NetInv, KeptInv, Kept, KeptHost, BlockFollows, DataFollow, HeaderFollows, Held,
     TakenFollows, Taken, FileSent, WholeInBuf, Latest, ReadingBlock, Due, HasRead, Inside
<1>4. CalmInv'
  <2>1. InOrder' => ChunksFollow'
    BY <1>1 DEF NetInv, CalmInv, InOrder, ChunksFollow, HostIdle, SecondFollows, Inside, HasRead
  <2>2. Calm' => CalmHost' /\ AllTaken' /\ BlockIsRead'
    BY <1>1 DEF NetInv, CalmInv, Calm, InOrder, CalmHost, AllTaken, BlockIsRead, NotHandled,
     Pending, FileSent, Latest, ReadingBlock, HasRead, Inside
  <2>3. Pending' <=> Pending
    BY <1>1 DEF Pending
  <2>4. Calm' => EndsCount'
    BY <1>1, <2>3 DEF NetInv, CalmInv, Calm, InOrder, EndsCount
  <2> QED BY <2>1, <2>2, <2>4 DEF CalmInv
<1>5. PunctualInv'
  BY <1>1 DEF NetInv, PunctualInv, Punctual, InOrder, Latest, ReadingBlock, HasRead, Inside
<1> QED BY <1>2, <1>3, <1>4, <1>5 DEF NetInv

\* Each step of the host, the chip, the handler and the main loop keeps the invariant.
LEMMA NetGoesOn == ASSUME NetSizes, NetInv, [Next]_vars PROVE NetInv'
<1>1. ASSUME NEW k \in {"config", "version", "status", "header", "block", "end"},
             NEW f \in Files \cup {NoFile}, Ask(k, f)
      PROVE  NetInv'
  <2>1. k \in Kinds \ {"none"} /\ f \in Named
    BY DEF Kinds, Named
  <2> QED BY <1>1, <2>1, Asked
<1>2. CASE Interrupt
  BY <1>2, WithoutData, WithDataEntered, FirstRead, FirstCounted, LaterRead, LaterCounted
     DEF Interrupt
<1>3. ASSUME Handle PROVE NetInv'
  <2>1. ctl.req.kind \in {"header", "block"} \/ ctl.req.kind \notin WithData
    BY DEF WithData
  <2> QED BY <1>3, <2>1, HeaderHandled, BlockHandled, OtherHandled
<1>4. CASE Main
  BY <1>3, <1>4, LoopReads, LoopCounts, LoopStops, BurnStarts, BurnEnds DEF Main
<1>5. CASE SendChunk \/ Complete \/ SendBulk \/ IsrReads
  BY <1>5, ChunkSent, Completes, BulkSent, HandlerReads
<1>6. CASE UNCHANGED vars
  BY <1>6, NetStays
<1> QED BY <1>1, <1>2, <1>4, <1>5, <1>6 DEF Next

\* What the invariant is for.
LEMMA NetPromises == ASSUME NetInv PROVE WholeFile /\ IsrDoesNotWait
<1>1. NetTyped /\ RequestFollows /\ HandlerFollows
  BY DEF NetInv, NetBase
<1>2. ASSUME main = "burn", ~seen.abandoned, ~seen.late, ~seen.early, ~seen.ahead,
             Descriptor \notin Range(upg.buf)
      PROVE  seen.file # NoFile /\ upg.buf = Whole(seen.file)
  BY <1>1, <1>2 DEF NetInv, KeptInv, Kept, WholeInBuf, RequestFollows
<1>3. ASSUME HostIdle, ~InterruptDue, ~ctl.setup, main = "loop", upg.status # "WRITE",
             ~seen.abandoned, ~seen.late, ~seen.overtaken, ~seen.early, ~seen.refused
      PROVE  seen.burnt = seen.ended
  <2>1. EndsCount
    BY <1>3 DEF NetInv, CalmInv, Calm, InOrder
  <2>2. ~Pending
    BY <1>3 DEF Pending, InterruptDue
  <2> QED BY <1>1, <1>3, <2>1, <2>2 DEF EndsCount, NetTyped, Histories
<1>4. WholeFile
  BY <1>2, <1>3 DEF WholeFile
<1>5. ASSUME isr = "wait", ~seen.abandoned, ~seen.late, ~seen.overtaken, ~seen.ahead,
             main # "counting"
      PROVE  Len(chip.bulk) >= upg.block
  <2>1. host.req.kind = "version"
    BY <1>1, <1>5 DEF RequestFollows, HandlerFollows, Inside, HasRead
  <2>2. host.block = 0 /\ upg.block <= host.block + Len(chip.bulk) + 0
    BY <1>1, <1>5, <2>1 DEF NetInv, PunctualInv, Punctual, InOrder, HandlerFollows
  <2>3. upg.block \in Int /\ Len(chip.bulk) \in Nat
    BY <1>1 DEF NetTyped, Upgrades, Chips
  <2> QED BY <2>2, <2>3
<1>6. IsrDoesNotWait
  BY <1>5 DEF IsrDoesNotWait
<1> QED BY <1>4, <1>6

\* For any files, sizes of them and of blocks, and any number of requests, what burn_flash is given
\* is the file whose end was asked for, whole downloads of files that fit the buffer are burnt
\* (WholeFile), and the interrupt handler does not wait for packets but for the reasons
\* IsrDoesNotWait names; each with the exceptions its definition states.
THEOREM NetDoesAsPromised ==
  ASSUME NetSizes PROVE Spec => []WholeFile /\ []IsrDoesNotWait
<1>1. Init => NetInv
  BY NetStarts
<1>2. NetInv /\ [Next]_vars => NetInv'
  BY NetGoesOn
<1>3. NetInv => WholeFile /\ IsrDoesNotWait
  BY NetPromises
<1> QED BY <1>1, <1>2, <1>3, PTL DEF Spec
=============================================================================
