---------------------------- MODULE UsbD12Proofs ----------------------------
(***************************************************************************)
(* The upgrade through the PDIUSBD12, for any files, any buffer, and any   *)
(* hosts.                                                                  *)
(***************************************************************************)
EXTENDS UsbD12, TLAPS

\* Where the main loop may be while nothing of the last request is left to it.
Free == {"loop", "check", "count", "state", "burn", "erase", "write", "burnt"}
\* Where it answers the request.
Busy == {"ack", "answer", "len", "size"}
\* The handler has read the request.
InHand == host.pc # "idle" /\ ~chip.out.setup

TypeInv ==
    /\ TypeOK
    /\ host.pc = "send" => host.count < host.req.wLength
    /\ host.bulk > 0 => host.file # NoFile /\ host.next + host.bulk <= Size[host.file] + 1
    /\ host.pc # "idle" /\ host.req.kind \in {"header", "block", "end"} => host.bulk = 0
    /\ host.pc # "idle" /\ host.req.kind = "block" => host.file # NoFile /\ host.next <= Size[host.file]
    /\ main.pc = "answer" => main.req.kind \in DOMAIN Descriptor

-----------------------------------------------------------------------------
LEMMA MinOfTwo ==
    ASSUME NEW a \in Int, NEW b \in Int
    PROVE  Min({a, b}) = IF a <= b THEN a ELSE b
<1> DEFINE m == IF a <= b THEN a ELSE b
<1>1. m \in {a, b} /\ \A y \in {a, b} : m <= y
  OBVIOUS
<1>2. \A x \in {a, b} : (\A y \in {a, b} : x <= y) => x = m
  OBVIOUS
<1> HIDE DEF m
<1>3. Min({a, b}) = m
  BY <1>1, <1>2 DEF Min
<1> QED BY <1>3 DEF m

LEMMA Descriptors ==
    /\ DOMAIN Descriptor = {"device", "config", "vendor"}
    /\ Descriptor["device"] = 3 /\ Descriptor["config"] = 5 /\ Descriptor["vendor"] = 2
BY DEF Descriptor

\* What each kind of request looks like.
LEMMA RequestShape ==
    ASSUME NEW q \in Requests
    PROVE  /\ q.kind \in Kinds /\ q.wLength \in Nat /\ q.file \in Files \cup {NoFile}
           /\ ToHost(q) <=> q.kind \in {"device", "config", "vendor", "short", "status", "reserved"}
           /\ ToHost(q) => q.wLength > 0
           /\ q.kind = "block" => q.wLength = 1
           /\ q.kind \in {"set", "clear", "end"} => q.wLength = 0
           /\ q.kind = "long" => q.wLength = MaxData + 1
           /\ q.kind = "header" => q.wLength = HeaderSize /\ q.file \in Files
<1>1. ASSUME NEW h \in Hosts, NEW k \in DOMAIN Descriptor, NEW n \in h.wanted[k],
             q = Request(k, n, NoFile)
      PROVE  q.kind = k /\ q.wLength = n /\ q.wLength \in Nat \ {0} /\ q.file = NoFile
  <2>1. h.wanted[k] \subseteq Nat \ {0}
    BY Descriptors, UsbConstants
  <2> QED BY <1>1, <2>1 DEF Request
<1>2. \/ \E h \in Hosts : \E k \in DOMAIN Descriptor : \E n \in h.wanted[k] : q = Request(k, n, NoFile)
      \/ \E k \in {"short", "status", "reserved", "block"} : q = Request(k, 1, NoFile)
      \/ \E k \in {"set", "clear", "end"} : q = Request(k, 0, NoFile)
      \/ q = Request("long", MaxData + 1, NoFile)
      \/ \E f \in Files : q = Request("header", HeaderSize, f)
  <2>1. CASE \E h \in Hosts : q \in GetDescriptor(h)
    <3>1. PICK h \in Hosts : q \in GetDescriptor(h)
      BY <2>1
    <3>2. PICK k \in DOMAIN Descriptor : q \in { Request(k, n, NoFile) : n \in h.wanted[k] }
      BY <3>1 DEF GetDescriptor
    <3> QED BY <3>2
  <2>2. CASE ~ \E h \in Hosts : q \in GetDescriptor(h)
    <3>1. q \notin UNION { GetDescriptor(h) : h \in Hosts }
      BY <2>2
    <3>2. \/ q \in UNION { GetDescriptor(h) : h \in Hosts }
          \/ q \in { Request(k, 1, NoFile) : k \in {"short", "status", "reserved", "block"} }
          \/ q \in { Request(k, 0, NoFile) : k \in {"set", "clear", "end"} }
          \/ q \in { Request("long", MaxData + 1, NoFile) }
          \/ q \in { Request("header", HeaderSize, f) : f \in Files }
      BY Zenon DEF Requests
    <3> QED BY <3>1, <3>2
  <2> QED BY <2>1, <2>2
<1>3. CASE \E h \in Hosts : \E k \in DOMAIN Descriptor : \E n \in h.wanted[k] : q = Request(k, n, NoFile)
  BY <1>1, <1>3, Descriptors DEF ToHost, Request, Kinds, MaxData, HeaderSize
<1>4. CASE \E k \in {"short", "status", "reserved", "block"} : q = Request(k, 1, NoFile)
  BY <1>4, Descriptors DEF ToHost, Request, Kinds, MaxData, HeaderSize
<1>5. CASE \E k \in {"set", "clear", "end"} : q = Request(k, 0, NoFile)
  BY <1>5, Descriptors DEF ToHost, Request, Kinds, MaxData, HeaderSize
<1>6. CASE q = Request("long", MaxData + 1, NoFile)
  BY <1>6, Descriptors DEF ToHost, Request, Kinds, MaxData, HeaderSize
<1>7. CASE \E f \in Files : q = Request("header", HeaderSize, f)
  BY <1>7, Descriptors DEF ToHost, Request, Kinds, MaxData, HeaderSize
<1> QED BY <1>2, <1>3, <1>4, <1>5, <1>6, <1>7

-----------------------------------------------------------------------------
\* Types, and the bounds they rest on.
LEMMA FileFacts ==
    /\ \A f \in Files : Size[f] \in Nat \ {0} /\ Size[f] < LenBound /\ f # NoFile
    /\ BlockSize \in Nat \ {0} /\ LenBound \in Nat \ {0}
BY UsbConstants

LEMMA HostFacts == \A h \in Hosts : h.aborts \in Nat /\ h.files \subseteq Files
BY UsbConstants

\* The records, each with its own set.
Chips == [out : Packets, in : AnswerPackets, locked : BOOLEAN, stall : BOOLEAN,
          ints : SUBSET Interrupts, fifo : Seq(Contents)]
Ctls == [req : Requests, wLength : Nat, wCount : Nat, pData : DOMAIN Descriptor,
         file : Files \cup {NoFile}, setup : BOOLEAN, state : {"IDLE", "TRANSMIT", "RECEIVE"}]
Places == {"loop", "handle", "answer", "count", "state", "len", "size", "ack", "check",
           "burn", "erase", "write", "burnt", "off"}
Mains == [pc : Places, req : Requests, sent : 0 .. PacketSize]
Upgs == [status : Statuses, errorno : 0 .. 1, len : 0 .. LenBound, header : Files \cup {NoFile},
         buf : [1 .. LenBound -> Contents \cup {Nothing, Foreign}]]
HostStates == [pc : {"idle", "send", "ack", "read", "status"}, req : Requests, count : Nat,
               file : Files \cup {NoFile}, next : 1 .. LenBound, bulk : 0 .. BlockSize]
Histories == [handled : Nat, good : BOOLEAN, told : Answers, ended : Files \cup {NoFile},
              burnt : Files \cup {NoFile}, raced : BOOLEAN, clobbered : BOOLEAN, refused : BOOLEAN]

LEMMA TypeParts ==
    TypeOK <=> /\ chip \in Chips /\ Len(chip.fifo) <= FifoDepth
               /\ isr \subseteq Interrupts \ {"reset"}
               /\ ctl \in Ctls /\ main \in Mains /\ upg \in Upgs /\ host \in HostStates
               /\ peer \in Hosts /\ aborts \in 0 .. peer.aborts
               /\ seen \in Histories
BY DEF TypeOK, Chips, Ctls, Mains, Places, Upgs, HostStates, Histories

LEMMA TxDoneEffect ==
    ASSUME ctl \in Ctls, chip \in Chips, TxDone,
           NEW len, NEW count,
           len = IF ctl.wLength - ctl.wCount \in 0 .. 1 THEN ctl.wLength - ctl.wCount ELSE PacketSize,
           count = IF ctl.wLength - ctl.wCount < 2 THEN ctl.wLength ELSE ctl.wCount + 2
    PROVE  /\ ctl' \in Ctls /\ chip' \in Chips
           /\ chip'.out = chip.out /\ chip'.locked = chip.locked /\ chip'.stall = chip.stall
           /\ chip'.fifo = chip.fifo /\ chip'.ints = chip.ints \ {"in"}
           /\ ctl'.req = ctl.req /\ ctl'.setup = ctl.setup /\ ctl'.file = ctl.file
           /\ ctl'.wLength = ctl.wLength /\ ctl'.pData = ctl.pData
           /\ ctl.state # "TRANSMIT" => ctl' = ctl /\ chip'.in = chip.in
           /\ ctl.state = "TRANSMIT" =>
                 /\ ctl'.wCount = count /\ ctl'.state \in {"TRANSMIT", "IDLE"}
                 /\ ctl'.state = "TRANSMIT" <=> ctl.wLength - ctl.wCount >= 2
                 /\ chip'.in = IF chip.locked THEN chip.in ELSE Piece(ctl.pData, ctl.wCount, len)
<1> DEFINE i == ctl.wLength - ctl.wCount
           n == IF i < PacketSize THEN i ELSE PacketSize
           l == IF n < 0 THEN PacketSize ELSE n
           chp == [chip EXCEPT !.ints = @ \ {"in"}]
<1>1. ctl.wLength \in Nat /\ ctl.wCount \in Nat
  BY DEF Ctls
<1>2. l = len /\ ctl.wCount + n = count /\ count \in Nat /\ len \in 0 .. PacketSize
  BY <1>1 DEF PacketSize
<1>3. chp \in Chips /\ chp.out = chip.out /\ chp.in = chip.in /\ chp.locked = chip.locked /\ chp.stall = chip.stall
      /\ chp.fifo = chip.fifo /\ chp.ints = chip.ints \ {"in"}
  BY DEF Chips
<1>4. \/ /\ ctl.state # "TRANSMIT"
         /\ chip' = chp
         /\ ctl' = ctl
      \/ /\ ctl.state = "TRANSMIT"
         /\ chip' = Put(chp, Piece(ctl.pData, ctl.wCount, l))
         /\ ctl' = [ctl EXCEPT !.wCount = @ + n,
                               !.state = IF i >= PacketSize THEN "TRANSMIT" ELSE "IDLE"]
  BY DEF TxDone
<1> HIDE DEF chp, l, n
<1>5. CASE ctl.state # "TRANSMIT"
  BY <1>3, <1>4, <1>5
<1>6. CASE ctl.state = "TRANSMIT"
  <2> DEFINE s == IF i >= PacketSize THEN "TRANSMIT" ELSE "IDLE"
  <2>0. ctl' = [ctl EXCEPT !.wCount = count, !.state = s] /\ s \in {"TRANSMIT", "IDLE"}
    BY <1>2, <1>4, <1>6
  <2> HIDE DEF s
  <2>1. ctl' \in Ctls /\ ctl'.wCount = count /\ ctl'.state = s
    BY <1>2, <2>0 DEF Ctls
  <2>2. ctl'.req = ctl.req /\ ctl'.setup = ctl.setup /\ ctl'.file = ctl.file
           /\ ctl'.wLength = ctl.wLength /\ ctl'.pData = ctl.pData
    BY <2>0 DEF Ctls
  <2> DEFINE p == Piece(ctl.pData, ctl.wCount, len)
  <2>3. p \in AnswerPackets
    BY <1>1, <1>2, Descriptors DEF Piece, AnswerPackets, Answer, Ctls, Kinds, Answers
  <2>4. chip' = IF chp.locked THEN chp ELSE [chp EXCEPT !.in = p]
    BY <1>2, <1>4, <1>6 DEF Put
  <2> HIDE DEF p
  <2>5. /\ chip' \in Chips
        /\ chip'.out = chip.out /\ chip'.locked = chip.locked /\ chip'.stall = chip.stall
        /\ chip'.fifo = chip.fifo /\ chip'.ints = chip.ints \ {"in"}
        /\ chip'.in = IF chip.locked THEN chip.in ELSE p
    BY <1>3, <2>3, <2>4 DEF Chips
  <2> QED BY <2>1, <2>2, <2>5, <1>6, <1>1 DEF p, s, PacketSize
<1> QED BY <1>5, <1>6

LEMMA FlashStatusIs ==
    ASSUME upg \in Upgs
    PROVE  /\ FlashStatus \in {"idle", "error", "erase", "write", "unknown"}
           /\ FlashStatus = "idle" <=> upg.status = "UNUSED" /\ upg.errorno = 0
           /\ FlashStatus = "error" <=> upg.status = "UNUSED" /\ upg.errorno = 1
<1>1. upg.status \in {"UNUSED", "DOWNLOAD", "ERASE", "WRITE"} /\ upg.errorno \in {0, 1}
  BY DEF Upgs, Statuses
<1>2. CASE upg.status = "UNUSED"
  <2>1. FlashStatus = IF upg.errorno = 0 THEN "idle" ELSE "error"
    BY <1>2 DEF FlashStatus
  <2> QED BY <1>1, <1>2, <2>1
<1>3. CASE upg.status = "ERASE"
  <2>1. FlashStatus = "erase"
    BY <1>3 DEF FlashStatus
  <2> QED BY <1>3, <2>1
<1>4. CASE upg.status = "WRITE"
  <2>1. FlashStatus = "write"
    BY <1>4 DEF FlashStatus
  <2> QED BY <1>4, <2>1
<1>5. CASE upg.status = "DOWNLOAD"
  <2>1. FlashStatus = "unknown"
    BY <1>5 DEF FlashStatus
  <2> QED BY <1>5, <2>1
<1> QED BY <1>1, <1>2, <1>3, <1>4, <1>5

WithData == {"header", "block"}
StatusAnswer == Answer("status", 0, 1, FlashStatus)

LEMMA OutPacket ==
    ASSUME chip \in Chips
    PROVE  /\ chip.out.setup => chip.out.req \in Requests /\ chip.out # NoPacket
           /\ ~chip.out.setup /\ chip.out # NoPacket =>
                 chip.out.len \in 0 .. PacketSize /\ chip.out.file \in Files \cup {NoFile}
           /\ NoPacket.setup = FALSE /\ chip.out.setup \in BOOLEAN
<1>1. chip.out \in Packets
  BY DEF Chips
<1>2. \/ chip.out = NoPacket
      \/ chip.out \in [setup : {TRUE}, req : Requests]
      \/ chip.out \in [setup : {FALSE}, len : 0 .. PacketSize, file : Files \cup {NoFile}]
  BY <1>1 DEF Packets
<1>3. NoPacket.setup = FALSE
  BY DEF NoPacket
<1> QED BY <1>2, <1>3

LEMMA RxSetupEffect ==
    ASSUME ctl \in Ctls, chip \in Chips, upg \in Upgs, seen \in Histories, RxSetup,
           NEW q, q = chip.out.req
    PROVE  /\ q \in Requests /\ chip.out.setup
           /\ "out" \in isr /\ "in" \notin isr /\ isr' = isr \ {"out"}
           /\ chip' \in Chips
           /\ chip'.out = NoPacket /\ ~chip'.locked /\ chip'.ints = chip.ints \ {"out"}
           /\ chip'.fifo = chip.fifo
           /\ chip'.stall = (chip.stall \/ q.kind = "long")
           /\ chip'.in = IF q.kind = "status" THEN StatusAnswer ELSE chip.in
           /\ ctl' \in Ctls
           /\ ctl'.req = q /\ ctl'.wLength = q.wLength /\ ctl'.wCount = 0
           /\ ctl'.file = ctl.file /\ ctl'.pData = ctl.pData
           /\ ctl'.setup = (ctl.setup \/ q.kind \notin WithData \cup {"status", "long"})
           /\ ctl'.state = IF q.kind = "status" THEN ctl.state
                           ELSE IF q.kind \in WithData THEN "RECEIVE" ELSE "IDLE"
           /\ upg' = IF q.kind = "status" /\ FlashStatus = "error" THEN [upg EXCEPT !.errorno = 0] ELSE upg
           /\ upg' \in Upgs
           /\ seen' = IF q.kind = "status" THEN [seen EXCEPT !.handled = @ + 1] ELSE seen
           /\ seen' \in Histories
           /\ UNCHANGED <<main, host, aborts, peer>>
<1> DEFINE rcv == [chip EXCEPT !.ints = @ \ {"out"}]
           tkn == [rcv EXCEPT !.out = NoPacket]
           chp == [tkn EXCEPT !.locked = FALSE]
           kind == q.kind
           S(setup, state) == [ctl EXCEPT !.req = q, !.wLength = q.wLength, !.wCount = 0,
                                          !.setup = setup, !.state = state]
<1>1. q \in Requests /\ chip.out.setup /\ "out" \in isr /\ "in" \notin isr /\ isr' = isr \ {"out"}
      /\ UNCHANGED <<main, host, aborts, peer>>
  BY OutPacket DEF RxSetup, Handler
<1>2. /\ kind \in Kinds /\ q.wLength \in Nat
      /\ ToHost(q) <=> kind \in {"device", "config", "vendor", "short", "status", "reserved"}
      /\ kind \in {"set", "clear", "end"} => q.wLength = 0
      /\ kind \in WithData => q.wLength \in 1 .. MaxData
      /\ kind = "long" => q.wLength > MaxData
  BY <1>1, RequestShape DEF WithData, MaxData, HeaderSize
<1>3. /\ chp \in Chips /\ chp.out = NoPacket /\ ~chp.locked /\ chp.ints = chip.ints \ {"out"}
      /\ chp.fifo = chip.fifo /\ chp.in = chip.in /\ chp.stall = chip.stall
  <2>1. rcv \in Chips /\ rcv.ints = chip.ints \ {"out"} /\ rcv.fifo = chip.fifo /\ rcv.in = chip.in
        /\ rcv.stall = chip.stall
    BY DEF Chips
  <2>2. NoPacket \in Packets
    BY DEF Packets
  <2> HIDE DEF rcv
  <2>3. tkn \in Chips /\ tkn.ints = chip.ints \ {"out"} /\ tkn.fifo = chip.fifo /\ tkn.in = chip.in
        /\ tkn.stall = chip.stall /\ tkn.out = NoPacket
    BY <2>1, <2>2 DEF Chips
  <2> HIDE DEF tkn
  <2> QED BY <2>3 DEF Chips
<1>4. ASSUME NEW setup \in BOOLEAN, NEW state \in {"IDLE", "TRANSMIT", "RECEIVE"}
      PROVE  /\ S(setup, state) \in Ctls /\ S(setup, state).setup = setup /\ S(setup, state).state = state
             /\ S(setup, state).req = q /\ S(setup, state).wLength = q.wLength /\ S(setup, state).wCount = 0
             /\ S(setup, state).file = ctl.file /\ S(setup, state).pData = ctl.pData
  BY <1>1, <1>2 DEF Ctls
<1>5. ctl.setup \in BOOLEAN /\ ctl.state \in {"IDLE", "TRANSMIT", "RECEIVE"} /\ chip.stall \in BOOLEAN
  BY DEF Ctls, Chips
<1>6. \/ /\ kind = "status"
         /\ ctl' = S(ctl.setup, ctl.state)
         /\ chip' = Put(chp, StatusAnswer)
         /\ upg' = IF FlashStatus = "error" THEN [upg EXCEPT !.errorno = 0] ELSE upg
         /\ seen' = [seen EXCEPT !.handled = @ + 1]
      \/ /\ kind # "status" /\ (ToHost(q) \/ q.wLength = 0)
         /\ ctl' = S(TRUE, "IDLE")
         /\ chip' = chp
         /\ upg' = upg /\ seen' = seen
      \/ /\ ~ToHost(q) /\ q.wLength > MaxData
         /\ ctl' = S(ctl.setup, "IDLE")
         /\ chip' = [chp EXCEPT !.stall = TRUE]
         /\ upg' = upg /\ seen' = seen
      \/ /\ ~ToHost(q) /\ q.wLength \in 1 .. MaxData
         /\ ctl' = S(ctl.setup, "RECEIVE")
         /\ chip' = chp
         /\ upg' = upg /\ seen' = seen
  BY DEF RxSetup, GotSetup, Taken, Received, StatusAnswer
<1> HIDE DEF chp, S, kind
<1>7. CASE kind = "status"
  <2>0. ToHost(q) /\ kind = "status"
    BY <1>2, <1>7
  <2>1. /\ ctl' = S(ctl.setup, ctl.state) /\ seen' = [seen EXCEPT !.handled = @ + 1]
        /\ upg' = IF FlashStatus = "error" THEN [upg EXCEPT !.errorno = 0] ELSE upg
        /\ chip' = Put(chp, StatusAnswer)
    BY Zenon, <2>0, <1>6
  <2>2. chip' = [chp EXCEPT !.in = StatusAnswer]
    <3> QED BY <1>3, <2>1 DEF Put, StatusAnswer
  <2>3. StatusAnswer \in AnswerPackets
    <3>1. FlashStatus \in Answers
      BY FlashStatusIs DEF Answers
    <3>2. "status" \in Kinds /\ 1 \in 0 .. PacketSize
      BY DEF Kinds, PacketSize
    <3> QED BY <3>1, <3>2 DEF StatusAnswer, AnswerPackets, Answer
  <2>4. chip' \in Chips /\ chip'.out = NoPacket /\ ~chip'.locked /\ chip'.ints = chip.ints \ {"out"}
        /\ chip'.fifo = chip.fifo /\ chip'.in = StatusAnswer /\ chip'.stall = chip.stall
    BY <1>3, <2>2, <2>3 DEF Chips
  <2>5. upg' \in Upgs
    <3>1. [upg EXCEPT !.errorno = 0] \in Upgs
      BY DEF Upgs
    <3> QED BY <2>1, <3>1
  <2>6. seen' \in Histories
    BY <2>1 DEF Histories
  <2> QED BY <1>1, <1>4, <1>5, <1>7, <2>1, <2>4, <2>5, <2>6 DEF WithData, kind
<1>8. CASE kind = "long"
  <2>1. ctl' = S(ctl.setup, "IDLE") /\ chip' = [chp EXCEPT !.stall = TRUE] /\ upg' = upg /\ seen' = seen
    <3>1. kind # "status" /\ ~ToHost(q) /\ q.wLength # 0 /\ q.wLength \notin 1 .. MaxData
      BY <1>2, <1>8 DEF MaxData
    <3> QED BY Zenon, <3>1, <1>6
  <2>2. chip' \in Chips /\ chip'.out = NoPacket /\ ~chip'.locked /\ chip'.ints = chip.ints \ {"out"}
        /\ chip'.fifo = chip.fifo /\ chip'.in = chip.in /\ chip'.stall = TRUE
    BY <1>3, <2>1 DEF Chips
  <2> QED BY <1>1, <1>4, <1>5, <1>8, <2>1, <2>2 DEF WithData, kind
<1>9. CASE kind \in WithData
  <2>1. ctl' = S(ctl.setup, "RECEIVE") /\ chip' = chp /\ upg' = upg /\ seen' = seen
    <3>1. kind # "status" /\ ~ToHost(q) /\ q.wLength # 0 /\ ~(q.wLength > MaxData)
      BY <1>2, <1>9 DEF MaxData, WithData
    <3> QED BY Zenon, <3>1, <1>6
  <2> QED BY <1>1, <1>3, <1>4, <1>5, <1>9, <2>1 DEF WithData, kind
<1>10. CASE kind \notin WithData \cup {"status", "long"}
  <2>1. ctl' = S(TRUE, "IDLE") /\ chip' = chp /\ upg' = upg /\ seen' = seen
    <3>1. kind # "status" /\ (ToHost(q) \/ q.wLength = 0)
      BY <1>2, <1>10 DEF WithData, Kinds
    <3>2. ~(~ToHost(q) /\ q.wLength > MaxData) /\ ~(~ToHost(q) /\ q.wLength \in 1 .. MaxData)
      BY <1>2, <3>1 DEF MaxData
    <3> QED BY Zenon, <3>1, <3>2, <1>6
  <2> QED BY <1>1, <1>3, <1>4, <1>5, <1>10, <2>1 DEF WithData, kind
<1> QED BY <1>7, <1>8, <1>9, <1>10

LEMMA RxDataEffect ==
    ASSUME ctl \in Ctls, chip \in Chips, RxData,
           NEW n, n = IF chip.out = NoPacket THEN 0 ELSE chip.out.len,
           NEW last \in BOOLEAN, last <=> n # PacketSize \/ ctl.wCount + n >= ctl.wLength
    PROVE  /\ ~chip.out.setup /\ n \in 0 .. PacketSize
           /\ "out" \in isr /\ "in" \notin isr /\ isr' = isr \ {"out"}
           /\ chip' \in Chips
           /\ chip'.out = IF ctl.state = "RECEIVE" THEN NoPacket ELSE chip.out
           /\ chip'.ints = chip.ints \ {"out"}
           /\ chip'.in = chip.in /\ chip'.locked = chip.locked /\ chip'.stall = chip.stall
           /\ chip'.fifo = chip.fifo
           /\ ctl' \in Ctls
           /\ ctl'.req = ctl.req /\ ctl'.wLength = ctl.wLength /\ ctl'.pData = ctl.pData
           /\ ctl.state # "RECEIVE" => ctl' = [ctl EXCEPT !.state = "IDLE"]
           /\ ctl.state = "RECEIVE" =>
                 /\ ctl'.wCount = ctl.wCount + n
                 /\ ctl'.file = IF n = 0 THEN ctl.file ELSE chip.out.file
                 /\ ctl'.setup = (ctl.setup \/ last)
                 /\ ctl'.state = IF last THEN "IDLE" ELSE "RECEIVE"
           /\ UNCHANGED <<main, upg, host, aborts, peer, seen>>
<1> DEFINE rcv == [chip EXCEPT !.ints = @ \ {"out"}]
           tkn == [rcv EXCEPT !.out = NoPacket]
<1>1. ~chip.out.setup /\ "out" \in isr /\ "in" \notin isr /\ isr' = isr \ {"out"}
      /\ UNCHANGED <<main, upg, host, aborts, peer, seen>>
  BY DEF RxData, Handler
<1>2. n \in 0 .. PacketSize /\ n \in Nat
  BY <1>1, OutPacket DEF PacketSize
<1>3. chip.out # NoPacket => chip.out.file \in Files \cup {NoFile}
  BY <1>1, OutPacket
<1>4. ctl.wCount \in Nat /\ ctl.file \in Files \cup {NoFile} /\ ctl.setup \in BOOLEAN
  BY DEF Ctls
<1>5. rcv \in Chips /\ rcv.ints = chip.ints \ {"out"} /\ rcv.fifo = chip.fifo /\ rcv.in = chip.in
      /\ rcv.stall = chip.stall /\ rcv.locked = chip.locked /\ rcv.out = chip.out
  BY DEF Chips
<1>6. NoPacket \in Packets
  BY DEF Packets
<1>7. \/ /\ ctl.state = "RECEIVE"
         /\ chip' = tkn
         /\ ctl' = [ctl EXCEPT !.wCount = @ + n,
                               !.file = IF n = 0 THEN @ ELSE chip.out.file,
                               !.setup = @ \/ (n # PacketSize \/ ctl.wCount + n >= ctl.wLength),
                               !.state = IF (n # PacketSize \/ ctl.wCount + n >= ctl.wLength) THEN "IDLE" ELSE @]
      \/ /\ ctl.state # "RECEIVE"
         /\ chip' = rcv
         /\ ctl' = [ctl EXCEPT !.state = "IDLE"]
  BY DEF RxData, Taken, Received
<1> HIDE DEF rcv
<1>8. CASE ctl.state = "RECEIVE"
  <2>1. tkn \in Chips /\ tkn.ints = chip.ints \ {"out"} /\ tkn.fifo = chip.fifo /\ tkn.in = chip.in
        /\ tkn.stall = chip.stall /\ tkn.locked = chip.locked /\ tkn.out = NoPacket
    BY <1>5, <1>6 DEF Chips
  <2>2. PICK f \in Files \cup {NoFile} : f = IF n = 0 THEN ctl.file ELSE chip.out.file
    BY <1>3, <1>4
  <2>3. PICK s \in {"IDLE", "RECEIVE"} : s = IF last THEN "IDLE" ELSE "RECEIVE"
    OBVIOUS
  <2>4. PICK b \in BOOLEAN : b = (ctl.setup \/ last)
    OBVIOUS
  <2>5. PICK c \in Nat : c = ctl.wCount + n
    BY <1>2, <1>4
  <2>6. ctl' = [ctl EXCEPT !.wCount = c, !.file = f, !.setup = b, !.state = s]
    BY <1>7, <1>8, <2>2, <2>3, <2>4, <2>5
  <2>7. ctl' \in Ctls /\ ctl'.req = ctl.req /\ ctl'.wLength = ctl.wLength /\ ctl'.pData = ctl.pData
        /\ ctl'.wCount = c /\ ctl'.file = f /\ ctl'.setup = b /\ ctl'.state = s
    BY <2>2, <2>3, <2>4, <2>5, <2>6 DEF Ctls
  <2> HIDE DEF tkn
  <2> QED BY <1>1, <1>2, <1>7, <1>8, <2>1, <2>2, <2>3, <2>4, <2>5, <2>7
<1>9. CASE ctl.state # "RECEIVE"
  <2>1. chip' = rcv /\ ctl' = [ctl EXCEPT !.state = "IDLE"]
    BY <1>7, <1>9
  <2>2. ctl' \in Ctls /\ ctl'.req = ctl.req /\ ctl'.wLength = ctl.wLength /\ ctl'.pData = ctl.pData
    BY <2>1 DEF Ctls
  <2> QED BY <1>1, <1>2, <1>5, <1>9, <2>1, <2>2
<1> QED BY <1>8, <1>9

LEMMA MainRxDoneEffect ==
    ASSUME TypeOK, MainRxDone, NEW n, n = Len(chip.fifo)
    PROVE  /\ isr = {"main"} /\ isr' = {} /\ n \in 0 .. FifoDepth
           /\ chip' \in Chips /\ Len(chip'.fifo) <= FifoDepth
           /\ chip'.out = chip.out /\ chip'.ints = chip.ints \ {"main"}
           /\ chip'.in = chip.in /\ chip'.locked = chip.locked /\ chip'.stall = chip.stall
           /\ upg' \in Upgs
           /\ upg'.status = upg.status /\ upg'.errorno = upg.errorno /\ upg'.header = upg.header
           /\ upg.status # "DOWNLOAD" => upg' = upg /\ chip'.fifo = chip.fifo
           /\ upg.status = "DOWNLOAD" =>
                 /\ chip'.fifo = <<>>
                 /\ upg'.len = IF upg.len + n <= LenBound THEN upg.len + n ELSE LenBound
                 /\ \A k \in 1 .. LenBound :
                       upg'.buf[k] = IF k - upg.len \in 1 .. n THEN chip.fifo[k - upg.len] ELSE upg.buf[k]
           /\ UNCHANGED <<ctl, main, host, aborts, peer, seen>>
<1> DEFINE chp == [chip EXCEPT !.ints = @ \ {"main"}]
           b == [k \in 1 .. LenBound |-> IF k - upg.len \in 1 .. n THEN chip.fifo[k - upg.len] ELSE upg.buf[k]]
           m == IF upg.len + n <= LenBound THEN upg.len + n ELSE LenBound
<1>1. isr = {"main"} /\ isr' = {} /\ UNCHANGED <<ctl, main, host, aborts, peer, seen>>
  BY DEF MainRxDone
<1>2. chip \in Chips /\ upg \in Upgs /\ Len(chip.fifo) <= FifoDepth
  BY TypeParts
<1>3. chip.fifo \in Seq(Contents) /\ n \in 0 .. FifoDepth /\ n \in Nat
  <2>1. chip.fifo \in Seq(Contents)
    BY <1>2 DEF Chips
  <2>2. Len(chip.fifo) \in Nat
    BY <2>1
  <2>3. \A x \in Nat : x <= FifoDepth => x \in 0 .. FifoDepth
    BY DEF FifoDepth
  <2> QED BY Zenon, <1>2, <2>1, <2>2, <2>3
<1>4. /\ upg.len \in Nat /\ upg.len \in Int /\ LenBound \in Nat
      /\ DOMAIN upg.buf = 1 .. LenBound /\ \A k \in 1 .. LenBound : upg.buf[k] \in Contents \cup {Nothing, Foreign}
  BY <1>2, FileFacts DEF Upgs
<1>5. Min({upg.len + n, LenBound}) = m /\ m \in 0 .. LenBound
  <2>1. Min({upg.len + n, LenBound}) = IF upg.len + n <= LenBound THEN upg.len + n ELSE LenBound
    BY <1>3, <1>4, MinOfTwo
  <2> QED BY <2>1, <1>3, <1>4
<1>6. \/ /\ upg.status = "DOWNLOAD"
         /\ chip' = [chp EXCEPT !.fifo = SubSeq(@, n + 1, Len(@))]
         /\ upg' = [upg EXCEPT !.len = Min({@ + n, LenBound}),
                               !.buf = [k \in DOMAIN @ |-> IF k - upg.len \in 1 .. n
                                                           THEN chip.fifo[k - upg.len] ELSE @[k]]]
      \/ /\ upg.status # "DOWNLOAD"
         /\ chip' = chp
         /\ upg' = upg
  BY DEF MainRxDone, ReadMain
<1>7. chp \in Chips /\ chp.ints = chip.ints \ {"main"} /\ chp.fifo = chip.fifo /\ chp.in = chip.in
      /\ chp.stall = chip.stall /\ chp.locked = chip.locked /\ chp.out = chip.out
  BY <1>2 DEF Chips
<1>8. CASE upg.status # "DOWNLOAD"
  BY <1>1, <1>2, <1>3, <1>6, <1>7, <1>8
<1>9. CASE upg.status = "DOWNLOAD"
  <2>1. SubSeq(chip.fifo, n + 1, n) = <<>>
    BY <1>3
  <2>2. \A k \in 1 .. LenBound : b[k] \in Contents \cup {Nothing, Foreign}
    <3>1. \A j \in 1 .. n : chip.fifo[j] \in Contents
      BY <1>3
    <3> QED BY <1>4, <3>1
  <2>3. upg' = [upg EXCEPT !.len = m, !.buf = b]
    BY <1>4, <1>5, <1>6, <1>9
  <2> HIDE DEF chp, m
  <2>4. chip' = [chp EXCEPT !.fifo = SubSeq(chip.fifo, n + 1, n)]
    BY <1>6, <1>7, <1>9
  <2>5. chip' = [chp EXCEPT !.fifo = <<>>]
    BY <2>1, <2>4
  <2>6. /\ chip' \in Chips /\ chip'.fifo = <<>>
        /\ chip'.out = chip.out /\ chip'.ints = chip.ints \ {"main"}
        /\ chip'.in = chip.in /\ chip'.locked = chip.locked /\ chip'.stall = chip.stall
    <3>1. <<>> \in Seq(Contents)
      OBVIOUS
    <3> QED BY <1>7, <2>5, <3>1 DEF Chips
  <2>7. b \in [1 .. LenBound -> Contents \cup {Nothing, Foreign}]
    BY <2>2
  <2> HIDE DEF b
  <2>8. upg' \in Upgs /\ upg'.len = m /\ upg'.buf = b /\ upg'.status = upg.status
        /\ upg'.errorno = upg.errorno /\ upg'.header = upg.header
    BY <1>2, <1>5, <2>3, <2>7 DEF Upgs
  <2>9. Len(<<>>) <= FifoDepth
    BY DEF FifoDepth
  <2> QED BY <1>1, <1>3, <1>9, <2>6, <2>8, <2>9 DEF b, m
<1> QED BY <1>8, <1>9

LEMMA NoneOrOne == 0 \in 0 .. PacketSize /\ 1 \in 0 .. PacketSize
BY DEF PacketSize

LEMMA AnAnswer ==
    \A kind \in Kinds \cup {"junk"} : \A from \in Nat : \A n \in 0 .. PacketSize : \A status \in Answers :
        /\ Answer(kind, from, n, status) \in AnswerPackets /\ Answer(kind, from, n, status) # NoPacket
        /\ Answer(kind, from, n, status).to = kind /\ Answer(kind, from, n, status).from = from
        /\ Answer(kind, from, n, status).len = n /\ Answer(kind, from, n, status).status = status
<1>1. \A n \in 0 .. PacketSize : n # -1
  BY DEF PacketSize
<1> QED BY <1>1 DEF AnswerPackets, Answer, NoPacket

LEMMA InPacket ==
    ASSUME chip \in Chips, chip.in # NoPacket
    PROVE  /\ chip.in.to \in Kinds \cup {"junk"} /\ chip.in.from \in Nat
           /\ chip.in.len \in 0 .. PacketSize /\ chip.in.status \in Answers
<1>1. chip.in \in AnswerPackets
  BY DEF Chips
<1> QED BY <1>1 DEF AnswerPackets

LEMMA PieceIs ==
    ASSUME NEW kind \in DOMAIN Descriptor, NEW from \in Nat, NEW n \in 0 .. PacketSize,
           NEW p, p = Piece(kind, from, n)
    PROVE  /\ p \in AnswerPackets /\ p # NoPacket
           /\ p.to = IF kind \in InBuffer /\ upg.buf[1] # Foreign THEN "junk" ELSE kind
           /\ p.from = from /\ p.len = n /\ p.status = ""
<1>1. PICK to \in Kinds \cup {"junk"} : to = IF kind \in InBuffer /\ upg.buf[1] # Foreign THEN "junk" ELSE kind
  BY Descriptors DEF Kinds
<1>2. PICK s \in Answers : s = ""
  BY DEF Answers
<1>3. p = Answer(to, from, n, s)
  BY <1>1, <1>2 DEF Piece
<1>4. p \in AnswerPackets /\ p # NoPacket /\ p.to = to /\ p.from = from /\ p.len = n /\ p.status = s
  <2>1. \A x \in 0 .. PacketSize : x # -1
    BY DEF PacketSize
  <2> QED BY ONLY <1>1, <1>2, <1>3, <2>1, from \in Nat, n \in 0 .. PacketSize DEF AnswerPackets, Answer, NoPacket
<1> QED BY <1>1, <1>2, <1>4

LEMMA PutIs ==
    \A c \in Chips : \A p \in AnswerPackets :
           /\ Put(c, p) \in Chips /\ Put(c, p).in = IF c.locked THEN c.in ELSE p
           /\ Put(c, p).out = c.out /\ Put(c, p).locked = c.locked /\ Put(c, p).stall = c.stall
           /\ Put(c, p).ints = c.ints /\ Put(c, p).fifo = c.fifo
BY DEF Put, Chips

LEMMA FirstPacketEffect ==
    ASSUME TypeInv, FirstPacket,
           NEW n, n = IF ctl.wLength <= Descriptor[main.req.kind] THEN ctl.wLength ELSE Descriptor[main.req.kind],
           NEW sent, sent = IF n <= PacketSize THEN n ELSE PacketSize
    PROVE  /\ At("answer") /\ main.req.kind \in DOMAIN Descriptor
           /\ n \in Nat /\ sent \in 0 .. PacketSize
           /\ main' \in Mains /\ main'.pc = "count" /\ main'.sent = sent /\ main'.req = main.req
           /\ ctl' \in Ctls /\ ctl'.wCount = 0 /\ ctl'.wLength = n /\ ctl'.pData = main.req.kind
           /\ ctl'.req = ctl.req /\ ctl'.file = ctl.file /\ ctl'.setup = ctl.setup /\ ctl'.state = ctl.state
           /\ chip' = Put(chip, Piece(main.req.kind, 0, sent))
           /\ chip' \in Chips /\ chip'.in = IF chip.locked THEN chip.in ELSE Piece(main.req.kind, 0, sent)
           /\ chip'.out = chip.out /\ chip'.locked = chip.locked /\ chip'.stall = chip.stall
           /\ chip'.ints = chip.ints /\ chip'.fifo = chip.fifo
           /\ UNCHANGED <<isr, upg, host, aborts, peer, seen>>
<1> DEFINE kind == main.req.kind
<1>1. ctl \in Ctls /\ chip \in Chips /\ main \in Mains
  BY TypeParts DEF TypeInv
<1>2. At("answer") /\ kind \in DOMAIN Descriptor /\ UNCHANGED <<isr, upg, host, aborts, peer, seen>>
  BY DEF FirstPacket, At, TypeInv
<1>3. ctl.wLength \in Nat /\ Descriptor[kind] \in Nat
  BY <1>1, <1>2, Descriptors DEF Ctls
<1> HIDE DEF kind
<1>4. Min({ctl.wLength, Descriptor[kind]}) = n
  BY <1>3, MinOfTwo DEF kind
<1>5. n \in Nat
  BY <1>3 DEF kind
<1>6. PacketOf(n) = sent /\ sent \in 0 .. PacketSize
  BY <1>5, MinOfTwo DEF PacketOf, PacketSize
<1>7. /\ ctl' = [ctl EXCEPT !.wCount = 0, !.wLength = n, !.pData = kind]
      /\ main' = [main EXCEPT !.pc = "count", !.sent = sent]
      /\ chip' = Put(chip, Piece(kind, 0, sent))
  BY <1>4, <1>6 DEF FirstPacket, kind
<1>8. /\ ctl' \in Ctls /\ ctl'.wCount = 0 /\ ctl'.wLength = n /\ ctl'.pData = kind
      /\ ctl'.req = ctl.req /\ ctl'.file = ctl.file /\ ctl'.setup = ctl.setup /\ ctl'.state = ctl.state
  BY <1>1, <1>2, <1>5, <1>7 DEF Ctls
<1>9. main' \in Mains /\ main'.pc = "count" /\ main'.sent = sent /\ main'.req = main.req
  BY <1>1, <1>6, <1>7 DEF Mains, Places
<1>10. Piece(kind, 0, sent) \in AnswerPackets
  BY <1>2, <1>6, PieceIs
<1>11. /\ chip' \in Chips /\ chip'.in = IF chip.locked THEN chip.in ELSE Piece(kind, 0, sent)
       /\ chip'.out = chip.out /\ chip'.locked = chip.locked /\ chip'.stall = chip.stall
       /\ chip'.ints = chip.ints /\ chip'.fifo = chip.fifo
  BY <1>1, <1>7, <1>10, PutIs
<1> QED BY <1>2, <1>5, <1>6, <1>7, <1>8, <1>9, <1>11 DEF kind

LEMMA SingleTransmitEffect ==
    ASSUME TypeInv, SingleTransmit,
           NEW n, ToHost(main.req) => n = 1, ~ToHost(main.req) => n = 0,
           NEW s, s = IF main.req.kind # "status" THEN ""
                      ELSE IF upg.status = "UNUSED" THEN "idle" ELSE "write",
           NEW p, p = Answer(main.req.kind, 0, n, s)
    PROVE  /\ At("ack") /\ p # NoPacket /\ p.from = 0 /\ p.to = main.req.kind /\ p.status = s
           /\ main' \in Mains /\ main'.pc = "check" /\ main'.req = main.req
           /\ chip' \in Chips /\ chip'.in = IF chip.locked THEN chip.in ELSE p
           /\ chip'.out = chip.out /\ chip'.locked = chip.locked /\ chip'.stall = chip.stall
           /\ chip'.ints = chip.ints /\ chip'.fifo = chip.fifo
           /\ UNCHANGED <<isr, ctl, upg, host, aborts, peer, seen>>
<1>1. chip \in Chips /\ main \in Mains
  BY TypeParts DEF TypeInv
<1>2. main.req.kind \in Kinds
  BY <1>1, RequestShape DEF Mains
<1>3. n \in 0 .. PacketSize
  BY Zenon, NoneOrOne
<1>4. s \in Answers
  BY DEF Answers
<1>5. p \in AnswerPackets /\ p # NoPacket /\ p.to = main.req.kind /\ p.from = 0 /\ p.status = s
  <2>1. 0 \in Nat /\ main.req.kind \in Kinds \cup {"junk"}
    BY <1>2
  <2> QED BY ONLY <1>3, <1>4, <2>1, p = Answer(main.req.kind, 0, n, s), AnAnswer
<1>6. At("ack") /\ main' = [main EXCEPT !.pc = "check"] /\ UNCHANGED <<isr, ctl, upg, host, aborts, peer, seen>>
  BY DEF SingleTransmit, Goto
<1>7. chip' = Put(chip, p)
  <2>1. n = IF ToHost(main.req) THEN 1 ELSE 0
    BY Zenon
  <2> QED BY Zenon, <2>1 DEF SingleTransmit
<1>8. main' \in Mains /\ main'.pc = "check" /\ main'.req = main.req
  BY <1>1, <1>6 DEF Mains, Places
<1>9. /\ chip' \in Chips /\ chip'.in = IF chip.locked THEN chip.in ELSE p
      /\ chip'.out = chip.out /\ chip'.locked = chip.locked /\ chip'.stall = chip.stall
      /\ chip'.ints = chip.ints /\ chip'.fifo = chip.fifo
  BY <1>1, <1>5, <1>7, PutIs
<1> QED BY <1>4, <1>5, <1>6, <1>8, <1>9

LEMMA GotoIs ==
    ASSUME main \in Mains, NEW place \in Places, Goto(place)
    PROVE  main' \in Mains /\ main'.pc = place /\ main'.req = main.req /\ main'.sent = main.sent
BY DEF Goto, Mains

LEMMA DispatchIs ==
    ASSUME TypeOK, NEW kinds, NEW place \in Places, Dispatch(kinds, place)
    PROVE  /\ main.pc = "handle" /\ Undisturbed /\ ctl.req.kind \in kinds
           /\ main' \in Mains /\ main'.pc = place /\ main'.req = ctl.req
           /\ UNCHANGED <<isr, ctl, host, aborts, peer>>
<1>1. main \in Mains /\ ctl.req \in Requests
  BY TypeParts DEF Ctls
<1>2. main.pc = "handle" /\ Undisturbed /\ ctl.req.kind \in kinds
      /\ main' = [main EXCEPT !.pc = place, !.req = ctl.req]
      /\ UNCHANGED <<isr, ctl, host, aborts, peer>>
  BY DEF Dispatch, At
<1> QED BY <1>1, <1>2 DEF Mains

LEMMA HandledIs ==
    ASSUME seen \in Histories
    PROVE  /\ Handled \in Histories /\ Handled.handled = seen.handled + 1
           /\ Handled.good = seen.good /\ Handled.told = seen.told /\ Handled.ended = seen.ended
           /\ Handled.burnt = seen.burnt /\ Handled.raced = seen.raced
           /\ Handled.clobbered = seen.clobbered /\ Handled.refused = seen.refused
BY DEF Handled, Histories

LEMMA NoRequestIs == NoRequest \in Requests /\ NoRequest.kind = "set" /\ NoRequest.wLength = 0
BY DEF NoRequest, Requests, Request

LEMMA IdleIs ==
    ASSUME host \in HostStates
    PROVE  /\ Idle \in HostStates /\ Idle.pc = "idle" /\ Idle.req = NoRequest /\ Idle.count = 0
           /\ Idle.file = host.file /\ Idle.next = host.next /\ Idle.bulk = host.bulk
<1>1. NoRequest \in Requests
  BY NoRequestIs
<1> QED BY <1>1 DEF Idle, HostStates

LEMMA AllowedIs ==
    ASSUME NEW q \in Requests, Allowed(q), host.bulk \in Nat
    PROVE  /\ q.kind \in {"block", "end", "header", "status"} => host.bulk = 0
           /\ q.kind \in {"block", "end"} => host.file # NoFile
           /\ q.kind = "block" => host.next <= Size[host.file]
           /\ q.kind = "header" => q.file \in Files
<1>1. q.kind = "header" => q.file \in Files
  BY RequestShape
<1>2. CASE q.kind = "block"
  <2>1. host.bulk = 0 /\ host.file # NoFile /\ host.next <= Size[host.file]
    BY <1>2, Descriptors DEF Allowed
  <2> QED BY <1>2, <2>1
<1>3. CASE q.kind = "end"
  <2>1. host.bulk = 0 /\ host.file # NoFile
    BY <1>3, Descriptors DEF Allowed
  <2> QED BY <1>3, <2>1
<1>4. CASE q.kind = "header"
  <2>1. host.bulk = 0
    BY <1>4, Descriptors DEF Allowed
  <2> QED BY <1>1, <1>4, <2>1
<1>5. CASE q.kind = "status"
  <2>1. host.bulk = 0
    BY <1>5, Descriptors DEF Allowed
  <2> QED BY <1>5, <2>1
<1> QED BY <1>2, <1>3, <1>4, <1>5

LEMMA SetupPacket ==
    ASSUME NEW q \in Requests
    PROVE  Setup(q) \in Packets /\ Setup(q).setup /\ Setup(q).req = q /\ Setup(q) # NoPacket
BY DEF Setup, Packets, NoPacket

LEMMA DataPacket ==
    \A n \in 0 .. PacketSize : \A f \in Files \cup {NoFile} :
        /\ Data(n, f) \in Packets /\ Data(n, f).setup = FALSE /\ Data(n, f).len = n
        /\ Data(n, f).file = f /\ Data(n, f) # NoPacket
<1>1. \A n \in 0 .. PacketSize : n # -1
  BY DEF PacketSize
<1> QED BY <1>1 DEF Data, Packets, NoPacket

LEMMA NoPacketIs == NoPacket \in Packets /\ NoPacket \in AnswerPackets /\ NoPacket.setup = FALSE
BY DEF NoPacket, Packets, AnswerPackets

LEMMA NewRequestEffect ==
    ASSUME TypeOK, NewRequest
    PROVE  \E q \in Requests :
             /\ Allowed(q) /\ host.pc = "idle" /\ main.pc # "off"
             /\ chip' \in Chips /\ chip'.out = Setup(q) /\ chip'.in = NoPacket /\ chip'.locked
             /\ ~chip'.stall /\ chip'.ints = chip.ints \cup {"out"} /\ chip'.fifo = chip.fifo
             /\ host' \in HostStates /\ host'.req = q /\ host'.count = 0 /\ host'.bulk = host.bulk
             /\ host'.pc = IF q.kind \in {"device", "config", "vendor", "short", "status", "reserved"} THEN "read"
                           ELSE IF q.kind \in {"header", "block", "long"} THEN "send" ELSE "ack"
             /\ host'.file = IF q.kind = "header" THEN NoFile ELSE host.file
             /\ host'.next = IF q.kind = "header" THEN 1 ELSE host.next
             /\ seen' \in Histories /\ seen'.handled = 0 /\ seen'.good /\ seen'.told = ""
             /\ seen'.raced <=> seen.raced /\ ~AtRest
             /\ seen'.ended = IF q.kind = "header" THEN NoFile ELSE seen.ended
             /\ seen'.burnt = seen.burnt /\ seen'.clobbered = seen.clobbered /\ seen'.refused = seen.refused
             /\ UNCHANGED <<isr, ctl, main, upg, aborts, peer>>
<1>1. chip \in Chips /\ host \in HostStates /\ seen \in Histories
  BY TypeParts
<1>2. PICK q \in Requests :
          /\ Allowed(q)
          /\ chip' = [chip EXCEPT !.out = Setup(q), !.in = NoPacket, !.locked = TRUE,
                                  !.stall = FALSE, !.ints = @ \cup {"out"}]
          /\ host' = [host EXCEPT !.req = q, !.count = 0,
                                  !.pc = IF ToHost(q) THEN "read"
                                         ELSE IF q.wLength > 0 THEN "send" ELSE "ack",
                                  !.file = IF q.kind = "header" THEN NoFile ELSE @,
                                  !.next = IF q.kind = "header" THEN 1 ELSE @]
          /\ seen' = [seen EXCEPT !.handled = 0, !.good = TRUE, !.told = "", !.raced = @ /\ ~AtRest,
                                  !.ended = IF q.kind = "header" THEN NoFile ELSE @]
  BY DEF NewRequest
<1>3. host.pc = "idle" /\ main.pc # "off" /\ UNCHANGED <<isr, ctl, main, upg, aborts, peer>>
  BY DEF NewRequest
<1>4. /\ chip' \in Chips /\ chip'.out = Setup(q) /\ chip'.in = NoPacket /\ chip'.locked
      /\ ~chip'.stall /\ chip'.ints = chip.ints \cup {"out"} /\ chip'.fifo = chip.fifo
  <2>1. Setup(q) \in Packets /\ NoPacket \in AnswerPackets
    BY SetupPacket, NoPacketIs
  <2>2. chip.ints \cup {"out"} \in SUBSET Interrupts
    BY <1>1 DEF Chips, Interrupts
  <2> QED BY <1>1, <1>2, <2>1, <2>2 DEF Chips
<1>5. PICK pc \in {"read", "send", "ack"} :
         pc = IF q.kind \in {"device", "config", "vendor", "short", "status", "reserved"} THEN "read"
              ELSE IF q.kind \in {"header", "block", "long"} THEN "send" ELSE "ack"
  OBVIOUS
<1>6. pc = IF ToHost(q) THEN "read" ELSE IF q.wLength > 0 THEN "send" ELSE "ack"
  <2>1. ToHost(q) => pc = "read"
    BY <1>5, RequestShape
  <2>2. ~ToHost(q) /\ q.wLength > 0 => pc = "send"
    BY <1>5, RequestShape DEF Kinds
  <2>3. ~ToHost(q) /\ ~(q.wLength > 0) => pc = "ack"
    BY <1>5, RequestShape DEF MaxData, HeaderSize
  <2> QED BY Zenon, <2>1, <2>2, <2>3
<1>7. PICK f \in Files \cup {NoFile} : f = IF q.kind = "header" THEN NoFile ELSE host.file
  BY <1>1 DEF HostStates
<1>8. PICK n \in 1 .. LenBound : n = IF q.kind = "header" THEN 1 ELSE host.next
  BY <1>1, FileFacts DEF HostStates
<1>9. host' = [host EXCEPT !.req = q, !.count = 0, !.pc = pc, !.file = f, !.next = n]
  BY Zenon, <1>2, <1>6, <1>7, <1>8
<1>10. host' \in HostStates /\ host'.req = q /\ host'.count = 0 /\ host'.bulk = host.bulk
       /\ host'.pc = pc /\ host'.file = f /\ host'.next = n
  BY <1>1, <1>5, <1>7, <1>8, <1>9 DEF HostStates
<1>11. PICK e \in Files \cup {NoFile} : e = IF q.kind = "header" THEN NoFile ELSE seen.ended
  BY <1>1 DEF Histories
<1>12. PICK r \in BOOLEAN : r <=> (seen.raced /\ ~AtRest)
  BY Zenon
<1>13. seen' = [seen EXCEPT !.handled = 0, !.good = TRUE, !.told = "", !.raced = r, !.ended = e]
  <2>1. r = (seen.raced /\ ~AtRest)
    BY Zenon, <1>12
  <2> QED BY Zenon, <1>2, <1>11, <2>1
<1>14. /\ seen' \in Histories /\ seen'.handled = 0 /\ seen'.good /\ seen'.told = ""
       /\ seen'.raced = r /\ seen'.ended = e
       /\ seen'.burnt = seen.burnt /\ seen'.clobbered = seen.clobbered /\ seen'.refused = seen.refused
  BY <1>1, <1>11, <1>12, <1>13 DEF Histories, Answers
<1> QED BY <1>2, <1>3, <1>4, <1>5, <1>7, <1>8, <1>10, <1>11, <1>12, <1>14

LEMMA HostSendEffect ==
    ASSUME TypeInv, HostSend,
           NEW n, n = IF PacketSize <= host.req.wLength - host.count
                      THEN PacketSize ELSE host.req.wLength - host.count
    PROVE  /\ host.pc = "send" /\ chip.out = NoPacket /\ ~chip.locked /\ ~chip.stall
           /\ n \in 1 .. PacketSize
           /\ chip' \in Chips /\ chip'.out = Data(n, host.req.file) /\ chip'.in = chip.in
           /\ chip'.locked = chip.locked /\ chip'.stall = chip.stall
           /\ chip'.ints = chip.ints \cup {"out"} /\ chip'.fifo = chip.fifo
           /\ host' \in HostStates /\ host'.req = host.req /\ host'.count = host.count + n
           /\ host'.pc = IF host.count + n = host.req.wLength THEN "ack" ELSE "send"
           /\ host'.file = host.file /\ host'.next = host.next /\ host'.bulk = host.bulk
           /\ UNCHANGED <<isr, ctl, main, upg, aborts, peer, seen>>
<1>1. chip \in Chips /\ host \in HostStates /\ host.req \in Requests
  BY TypeParts DEF TypeInv, HostStates
<1>2. host.pc = "send" /\ chip.out = NoPacket /\ ~chip.locked /\ ~chip.stall
      /\ UNCHANGED <<isr, ctl, main, upg, aborts, peer, seen>>
  BY DEF HostSend
<1>3. host.req.wLength \in Nat /\ host.count \in Nat /\ host.count < host.req.wLength
      /\ host.req.file \in Files \cup {NoFile}
  BY <1>1, <1>2, RequestShape DEF TypeInv, HostStates
<1>4. PacketSize \in Int /\ PacketSize > 0
  BY DEF PacketSize
<1>5. Min({PacketSize, host.req.wLength - host.count}) = n /\ n \in 1 .. PacketSize /\ n \in Nat
  <2>1. host.req.wLength - host.count \in Int
    BY <1>3
  <2>2. Min({PacketSize, host.req.wLength - host.count}) = n
    BY <1>4, <2>1, MinOfTwo
  <2> QED BY <1>3, <1>4, <2>2
<1>6. PICK pc \in {"ack", "send"} : pc = IF host.count + n = host.req.wLength THEN "ack" ELSE "send"
  OBVIOUS
<1>7. PICK c \in Nat : c = host.count + n
  BY <1>3, <1>5
<1>8. /\ chip' = [chip EXCEPT !.out = Data(n, host.req.file), !.ints = @ \cup {"out"}]
      /\ host' = [host EXCEPT !.count = c, !.pc = pc]
  <2>1. /\ chip' = [chip EXCEPT !.out = Data(n, host.req.file), !.ints = @ \cup {"out"}]
        /\ host' = [host EXCEPT !.count = @ + n,
                                   !.pc = IF host.count + n = host.req.wLength THEN "ack" ELSE @]
    BY <1>5 DEF HostSend
  <2> QED BY <1>2, <1>6, <1>7, <2>1
<1>9. /\ chip' \in Chips /\ chip'.out = Data(n, host.req.file) /\ chip'.in = chip.in
      /\ chip'.locked = chip.locked /\ chip'.stall = chip.stall
      /\ chip'.ints = chip.ints \cup {"out"} /\ chip'.fifo = chip.fifo
  <2>0. n \in 0 .. PacketSize
    BY <1>5
  <2>1. Data(n, host.req.file) \in Packets
    BY ONLY <2>0, <1>3, DataPacket
  <2>2. chip.ints \cup {"out"} \in SUBSET Interrupts
    BY <1>1 DEF Chips, Interrupts
  <2> QED BY <1>1, <1>8, <2>1, <2>2 DEF Chips
<1>10. /\ host' \in HostStates /\ host'.req = host.req /\ host'.count = c /\ host'.pc = pc
       /\ host'.file = host.file /\ host'.next = host.next /\ host'.bulk = host.bulk
  BY <1>1, <1>6, <1>7, <1>8 DEF HostStates
<1> QED BY <1>2, <1>5, <1>6, <1>7, <1>9, <1>10

LEMMA TakeInIs ==
    ASSUME chip \in Chips
    PROVE  /\ TakeIn \in Chips /\ TakeIn.in = NoPacket /\ TakeIn.ints = chip.ints \cup {"in"}
           /\ TakeIn.out = chip.out /\ TakeIn.locked = chip.locked /\ TakeIn.stall = chip.stall
           /\ TakeIn.fifo = chip.fifo
<1>1. NoPacket \in AnswerPackets
  BY NoPacketIs
<1>2. chip.ints \cup {"in"} \in SUBSET Interrupts
  BY DEF Chips, Interrupts
<1> QED BY <1>1, <1>2 DEF TakeIn, Chips

\* What the host has left when its request is acknowledged.
BlockOf == IF BlockSize <= Size[host.file] - host.next + 1 THEN BlockSize ELSE Size[host.file] - host.next + 1

LEMMA HostAckEffect ==
    ASSUME TypeInv, HostAck, NEW kind, kind = host.req.kind
    PROVE  /\ host.pc = "ack" /\ chip.in # NoPacket
           /\ chip' \in Chips /\ chip'.in = NoPacket /\ chip'.ints = chip.ints \cup {"in"}
           /\ chip'.out = chip.out /\ chip'.locked = chip.locked /\ chip'.stall = chip.stall
           /\ chip'.fifo = chip.fifo
           /\ host' \in HostStates /\ host'.pc = "idle" /\ host'.req = NoRequest /\ host'.count = 0
           /\ host'.file = IF kind = "header" THEN host.req.file
                           ELSE IF kind = "end" THEN NoFile ELSE host.file
           /\ host'.next = IF kind \in {"header", "end"} THEN 1 ELSE host.next
           /\ host'.bulk = IF kind = "block" THEN BlockOf ELSE host.bulk
           /\ seen' \in Histories
           /\ kind = "end" /\ host.next > Size[host.file] => seen'.ended = host.file
           /\ ~(kind = "end" /\ host.next > Size[host.file]) => seen'.ended = seen.ended
           /\ seen'.handled = seen.handled /\ seen'.good = seen.good /\ seen'.told = seen.told
           /\ seen'.burnt = seen.burnt /\ seen'.raced = seen.raced
           /\ seen'.clobbered = seen.clobbered /\ seen'.refused = seen.refused
           /\ UNCHANGED <<isr, ctl, main, upg, aborts, peer>>
<1>1. chip \in Chips /\ host \in HostStates /\ host.req \in Requests /\ seen \in Histories
  BY TypeParts DEF TypeInv, HostStates
<1>2. host.pc = "ack" /\ chip.in # NoPacket /\ chip' = TakeIn /\ UNCHANGED <<isr, ctl, main, upg, aborts, peer>>
  BY DEF HostAck
<1>3. /\ chip' \in Chips /\ chip'.in = NoPacket /\ chip'.ints = chip.ints \cup {"in"}
      /\ chip'.out = chip.out /\ chip'.locked = chip.locked /\ chip'.stall = chip.stall
      /\ chip'.fifo = chip.fifo
  BY <1>1, <1>2, TakeInIs
<1>4. /\ Idle \in HostStates /\ Idle.pc = "idle" /\ Idle.req = NoRequest /\ Idle.count = 0
      /\ Idle.file = host.file /\ Idle.next = host.next /\ Idle.bulk = host.bulk
  BY <1>1, IdleIs
<1>5. host.file \in Files \cup {NoFile} /\ host.req.file \in Files \cup {NoFile} /\ 1 \in 1 .. LenBound
  BY <1>1, RequestShape, FileFacts DEF HostStates
<1>6. host' = CASE kind = "header" -> [Idle EXCEPT !.file = host.req.file, !.next = 1]
                [] kind = "block"  -> [Idle EXCEPT !.bulk = Min({BlockSize, Size[host.file] - host.next + 1})]
                [] kind = "end"    -> [Idle EXCEPT !.file = NoFile, !.next = 1]
                [] OTHER           -> Idle
  BY DEF HostAck
<1>7. /\ host' \in HostStates /\ host'.pc = "idle" /\ host'.req = NoRequest /\ host'.count = 0
      /\ host'.file = IF kind = "header" THEN host.req.file
                           ELSE IF kind = "end" THEN NoFile ELSE host.file
      /\ host'.next = IF kind \in {"header", "end"} THEN 1 ELSE host.next
      /\ host'.bulk = IF kind = "block" THEN BlockOf ELSE host.bulk
  <2>1. CASE kind = "header"
    <3>1. host' = [Idle EXCEPT !.file = host.req.file, !.next = 1]
      BY ONLY <2>1, <1>6
    <3> QED BY <1>4, <1>5, <2>1, <3>1 DEF HostStates
  <2>2. CASE kind = "block"
    <3>1. host' = [Idle EXCEPT !.bulk = Min({BlockSize, Size[host.file] - host.next + 1})]
      BY ONLY <2>2, <1>6
    <3>2. host.file \in Files /\ host.next \in Nat /\ host.next <= Size[host.file]
      BY <1>1, <1>2, <2>2 DEF TypeInv, HostStates
    <3>3. BlockSize \in Int /\ Size[host.file] - host.next + 1 \in Int
      BY <3>2, FileFacts
    <3>4. BlockOf \in 0 .. BlockSize
      BY <3>2, FileFacts DEF BlockOf
    <3>5. host' = [Idle EXCEPT !.bulk = BlockOf]
      BY <3>1, <3>3, MinOfTwo DEF BlockOf
    <3> QED BY <1>4, <2>2, <3>4, <3>5 DEF HostStates
  <2>3. CASE kind = "end"
    <3>1. host' = [Idle EXCEPT !.file = NoFile, !.next = 1]
      BY ONLY <2>3, <1>6
    <3> QED BY <1>4, <1>5, <2>3, <3>1 DEF HostStates
  <2>4. CASE kind \notin {"header", "block", "end"}
    <3>1. host' = Idle
      BY ONLY <2>4, <1>6
    <3> QED BY <1>4, <2>4, <3>1
  <2> QED BY <2>1, <2>2, <2>3, <2>4
<1>8. PICK e \in Files \cup {NoFile} :
         e = IF kind = "end" /\ host.next > Size[host.file] THEN host.file ELSE seen.ended
  <2>1. seen.ended \in Files \cup {NoFile}
    BY <1>1 DEF Histories
  <2> QED BY Zenon, <1>5, <2>1
<1>9. seen' = [seen EXCEPT !.ended = e]
  BY Zenon, <1>8 DEF HostAck
<1>10. /\ seen' \in Histories /\ seen'.ended = e
       /\ seen'.handled = seen.handled /\ seen'.good = seen.good /\ seen'.told = seen.told
       /\ seen'.burnt = seen.burnt /\ seen'.raced = seen.raced
       /\ seen'.clobbered = seen.clobbered /\ seen'.refused = seen.refused
  BY <1>1, <1>8, <1>9 DEF Histories
<1>11. kind = "end" /\ host.next > Size[host.file] => e = host.file
  BY Zenon, <1>8
<1>12. ~(kind = "end" /\ host.next > Size[host.file]) => e = seen.ended
  BY Zenon, <1>8
<1> QED BY <1>2, <1>3, <1>7, <1>10, <1>11, <1>12

LEMMA HostReadEffect ==
    ASSUME TypeInv, HostRead, NEW p, p = chip.in
    PROVE  /\ host.pc = "read" /\ p # NoPacket /\ p.len \in 0 .. PacketSize
           /\ p.status \in Answers /\ p.from \in Nat
           /\ chip' \in Chips /\ chip'.in = NoPacket /\ chip'.ints = chip.ints \cup {"in"}
           /\ chip'.out = chip.out /\ chip'.locked = chip.locked /\ chip'.stall = chip.stall
           /\ chip'.fifo = chip.fifo
           /\ host' \in HostStates /\ host'.req = host.req /\ host'.count = host.count + p.len
           /\ host'.pc = IF p.len < PacketSize \/ host.count + p.len >= host.req.wLength
                         THEN "status" ELSE "read"
           /\ host'.file = host.file /\ host'.next = host.next /\ host'.bulk = host.bulk
           /\ seen' \in Histories /\ seen'.told = p.status
           /\ seen'.ended = IF p.status = "error" THEN NoFile ELSE seen.ended
           /\ seen'.good <=> seen.good /\ p.to = host.req.kind /\ p.from = host.count
           /\ seen'.handled = seen.handled /\ seen'.burnt = seen.burnt /\ seen'.raced = seen.raced
           /\ seen'.clobbered = seen.clobbered /\ seen'.refused = seen.refused
           /\ UNCHANGED <<isr, ctl, main, upg, aborts, peer>>
<1>1. chip \in Chips /\ host \in HostStates /\ host.req \in Requests /\ seen \in Histories
  BY TypeParts DEF TypeInv, HostStates
<1>2. host.pc = "read" /\ p # NoPacket /\ chip' = TakeIn /\ UNCHANGED <<isr, ctl, main, upg, aborts, peer>>
  BY DEF HostRead
<1>3. /\ chip' \in Chips /\ chip'.in = NoPacket /\ chip'.ints = chip.ints \cup {"in"}
      /\ chip'.out = chip.out /\ chip'.locked = chip.locked /\ chip'.stall = chip.stall
      /\ chip'.fifo = chip.fifo
  BY <1>1, <1>2, TakeInIs
<1>4. p.len \in 0 .. PacketSize /\ p.status \in Answers /\ p.from \in Nat
  BY <1>1, <1>2, InPacket
<1>5. PICK c \in Nat : c = host.count + p.len
  BY <1>1, <1>4 DEF HostStates, PacketSize
<1>6. PICK pc \in {"status", "read"} :
         pc = IF p.len < PacketSize \/ host.count + p.len >= host.req.wLength THEN "status" ELSE "read"
  BY Zenon
<1>7. PICK e \in Files \cup {NoFile} : e = IF p.status = "error" THEN NoFile ELSE seen.ended
  BY <1>1 DEF Histories
<1>8. PICK g \in BOOLEAN : g = (seen.good /\ p.to = host.req.kind /\ p.from = host.count)
  BY Zenon
<1>9. /\ host' = [host EXCEPT !.count = @ + p.len,
                      !.pc = IF p.len < PacketSize \/ host.count + p.len >= host.req.wLength
                             THEN "status" ELSE @]
      /\ seen' = [seen EXCEPT !.told = p.status,
                      !.ended = IF p.status = "error" THEN NoFile ELSE @,
                      !.good = @ /\ p.to = host.req.kind /\ p.from = host.count]
  BY Zenon DEF HostRead
<1>10. host' = [host EXCEPT !.count = c, !.pc = pc]
  BY Zenon, <1>2, <1>5, <1>6, <1>9
<1>11. seen' = [seen EXCEPT !.told = p.status, !.ended = e, !.good = g]
  BY Zenon, <1>7, <1>8, <1>9
<1>12. /\ host' \in HostStates /\ host'.req = host.req /\ host'.count = c /\ host'.pc = pc
       /\ host'.file = host.file /\ host'.next = host.next /\ host'.bulk = host.bulk
  BY <1>1, <1>5, <1>6, <1>10 DEF HostStates
<1>13. /\ seen' \in Histories /\ seen'.told = p.status /\ seen'.ended = e /\ seen'.good = g
       /\ seen'.handled = seen.handled /\ seen'.burnt = seen.burnt /\ seen'.raced = seen.raced
       /\ seen'.clobbered = seen.clobbered /\ seen'.refused = seen.refused
  BY <1>1, <1>4, <1>7, <1>8, <1>11 DEF Histories
<1> QED BY <1>2, <1>3, <1>4, <1>5, <1>6, <1>7, <1>8, <1>12, <1>13

LEMMA HostStatusEffect ==
    ASSUME TypeInv, HostStatus
    PROVE  /\ host.pc = "status" /\ chip.out = NoPacket /\ ~chip.locked
           /\ chip' \in Chips /\ chip'.out = Data(0, NoFile) /\ chip'.in = chip.in
           /\ chip'.locked = chip.locked /\ chip'.stall = chip.stall
           /\ chip'.ints = chip.ints \cup {"out"} /\ chip'.fifo = chip.fifo
           /\ host' = Idle
           /\ UNCHANGED <<isr, ctl, main, upg, aborts, peer, seen>>
<1>1. chip \in Chips
  BY TypeParts DEF TypeInv
<1>2. host.pc = "status" /\ chip.out = NoPacket /\ ~chip.locked
      /\ chip' = [chip EXCEPT !.out = Data(0, NoFile), !.ints = @ \cup {"out"}]
      /\ host' = Idle /\ UNCHANGED <<isr, ctl, main, upg, aborts, peer, seen>>
  BY DEF HostStatus
<1>3. Data(0, NoFile) \in Packets
  <2>1. 0 \in 0 .. PacketSize
    BY NoneOrOne
  <2> QED BY ONLY <2>1, DataPacket
<1>4. chip.ints \cup {"out"} \in SUBSET Interrupts
  BY <1>1 DEF Chips, Interrupts
<1>5. /\ chip' \in Chips /\ chip'.out = Data(0, NoFile) /\ chip'.in = chip.in
      /\ chip'.locked = chip.locked /\ chip'.stall = chip.stall
      /\ chip'.ints = chip.ints \cup {"out"} /\ chip'.fifo = chip.fifo
  BY <1>1, <1>2, <1>3, <1>4 DEF Chips
<1> QED BY <1>2, <1>5

LEMMA AppendIs ==
    ASSUME NEW S, NEW s \in Seq(S), NEW x \in S
    PROVE  /\ Append(s, x) \in Seq(S) /\ Len(Append(s, x)) = Len(s) + 1 /\ Len(s) \in Nat
           /\ \A j \in 1 .. Len(s) : Append(s, x)[j] = s[j]
           /\ Append(s, x)[Len(s) + 1] = x
OBVIOUS

LEMMA ContentsAre == \A f \in Files : \A k \in 1 .. LenBound : <<f, k>> \in Contents
BY DEF Contents

LEMMA BulkSendEffect ==
    ASSUME TypeInv, BulkSend, NEW n, n = Len(chip.fifo)
    PROVE  /\ host.bulk > 0 /\ n \in 0 .. FifoDepth - 1
           /\ host.file \in Files /\ host.next + 1 <= Size[host.file] + 1
           /\ chip' \in Chips /\ Len(chip'.fifo) = n + 1 /\ n + 1 <= FifoDepth
           /\ \A j \in 1 .. n : chip'.fifo[j] = chip.fifo[j]
           /\ chip'.fifo[n + 1] = <<host.file, host.next>>
           /\ chip'.ints = chip.ints \cup {"main"}
           /\ chip'.out = chip.out /\ chip'.in = chip.in
           /\ chip'.locked = chip.locked /\ chip'.stall = chip.stall
           /\ host' \in HostStates /\ host'.pc = host.pc /\ host'.req = host.req
           /\ host'.count = host.count /\ host'.file = host.file
           /\ host'.next = host.next + 1 /\ host'.bulk = host.bulk - 1
           /\ UNCHANGED <<isr, ctl, main, upg, aborts, peer, seen>>
<1>1. chip \in Chips /\ host \in HostStates /\ chip.fifo \in Seq(Contents)
  BY TypeParts DEF TypeInv, Chips
<1>2. host.bulk > 0 /\ n < FifoDepth /\ UNCHANGED <<isr, ctl, main, upg, aborts, peer, seen>>
  BY DEF BulkSend
<1>3. host.bulk \in Nat /\ host.next \in Nat /\ host.file \in Files /\ host.next + host.bulk <= Size[host.file] + 1
      /\ host.next \in 1 .. LenBound
  BY <1>1, <1>2, FileFacts DEF TypeInv, HostStates
<1>4. n \in 0 .. FifoDepth - 1 /\ n \in Nat
  <2>1. n \in Nat
    BY <1>1
  <2>2. \A x \in Nat : x < FifoDepth => x \in 0 .. FifoDepth - 1
    BY DEF FifoDepth
  <2> QED BY Zenon, <1>2, <2>1, <2>2
<1>5. PICK x \in Contents : x = <<host.file, host.next>>
  BY Zenon, <1>3, ContentsAre
<1>6. PICK s \in Seq(Contents) : /\ s = Append(chip.fifo, x) /\ Len(s) = n + 1 /\ s[n + 1] = x
                                 /\ \A j \in 1 .. n : s[j] = chip.fifo[j]
  <2>1. /\ Append(chip.fifo, x) \in Seq(Contents) /\ Len(Append(chip.fifo, x)) = Len(chip.fifo) + 1
        /\ \A j \in 1 .. Len(chip.fifo) : Append(chip.fifo, x)[j] = chip.fifo[j]
        /\ Append(chip.fifo, x)[Len(chip.fifo) + 1] = x
    <3>1. chip.fifo \in Seq(Contents) /\ x \in Contents
      BY <1>1, <1>5
    <3> QED BY ONLY <3>1, AppendIs
  <2> QED BY Zenon, <2>1
<1>7. /\ chip' = [chip EXCEPT !.fifo = s, !.ints = @ \cup {"main"}]
      /\ host' = [host EXCEPT !.bulk = @ - 1, !.next = @ + 1]
  BY <1>5, <1>6 DEF BulkSend
<1>8. /\ chip' \in Chips /\ chip'.fifo = s /\ chip'.ints = chip.ints \cup {"main"}
      /\ chip'.out = chip.out /\ chip'.in = chip.in
      /\ chip'.locked = chip.locked /\ chip'.stall = chip.stall
  <2>1. chip.ints \cup {"main"} \in SUBSET Interrupts
    BY <1>1 DEF Chips, Interrupts
  <2> QED BY <1>1, <1>7, <2>1 DEF Chips
<1>9. /\ host' \in HostStates /\ host'.pc = host.pc /\ host'.req = host.req
      /\ host'.count = host.count /\ host'.file = host.file
      /\ host'.next = host.next + 1 /\ host'.bulk = host.bulk - 1
  <2>1. Size[host.file] \in Nat /\ Size[host.file] < LenBound /\ LenBound \in Nat
    BY <1>3, FileFacts
  <2>2. host.next + 1 \in 1 .. LenBound
    BY <1>2, <1>3, <2>1
  <2>3. host.bulk - 1 \in 0 .. BlockSize
    BY <1>1, <1>2, <1>3, FileFacts DEF HostStates
  <2> QED BY <1>1, <1>7, <2>2, <2>3 DEF HostStates
<1>10. n + 1 <= FifoDepth /\ host.next + 1 <= Size[host.file] + 1
  BY <1>2, <1>3, <1>4, FileFacts DEF FifoDepth
<1> QED BY <1>2, <1>3, <1>4, <1>5, <1>6, <1>8, <1>9, <1>10

LEMMA AbortEffect ==
    ASSUME TypeOK, Abort
    PROVE  /\ aborts < peer.aborts /\ aborts' = aborts + 1 /\ aborts \in Nat /\ aborts' # 0
           /\ chip' \in Chips /\ chip'.fifo \in {chip.fifo, <<>>}
           /\ host' \in HostStates /\ host'.pc = "idle" /\ host'.req = NoRequest /\ host'.bulk = 0
           /\ seen' \in Histories
           /\ UNCHANGED <<isr, ctl, main, upg, peer>>
<1>1. chip \in Chips /\ host \in HostStates /\ seen \in Histories
  BY TypeParts
<1>2. aborts < peer.aborts /\ aborts' = aborts + 1 /\ UNCHANGED <<isr, ctl, main, upg, peer>>
  BY DEF Abort
<1>3. aborts \in Nat
  BY HostFacts, TypeParts
<1>4. host' \in HostStates /\ host'.pc = "idle" /\ host'.req = NoRequest /\ host'.bulk = 0
  <2>1. Idle \in HostStates /\ Idle.pc = "idle" /\ Idle.req = NoRequest
    BY <1>1, IdleIs
  <2>2. 0 \in 0 .. BlockSize /\ 1 \in 1 .. LenBound
    BY FileFacts
  <2>3. host' = [Idle EXCEPT !.bulk = 0, !.file = NoFile, !.next = 1]
    BY DEF Abort
  <2> QED BY <2>1, <2>2, <2>3 DEF HostStates
<1>5. seen' \in Histories
  BY <1>1 DEF Abort, Histories
<1>6. chip' \in Chips /\ chip'.fifo \in {chip.fifo, <<>>}
  <2>1. \/ chip' = chip
        \/ chip' = [chip EXCEPT !.ints = @ \cup {"reset"}]
        \/ chip' = [chip EXCEPT !.ints = {"reset"}, !.out = NoPacket, !.in = NoPacket,
                               !.locked = FALSE, !.fifo = <<>>]
    BY DEF Abort
  <2>2. {"reset"} \in SUBSET Interrupts /\ chip.ints \cup {"reset"} \in SUBSET Interrupts
    BY <1>1 DEF Chips, Interrupts
  <2>3. CASE chip' = chip
    BY <1>1, <2>3
  <2>4. CASE chip' = [chip EXCEPT !.ints = @ \cup {"reset"}]
    BY <1>1, <2>2, <2>4 DEF Chips
  <2>5. CASE chip' = [chip EXCEPT !.ints = {"reset"}, !.out = NoPacket, !.in = NoPacket,
                               !.locked = FALSE, !.fifo = <<>>]
    <3>1. NoPacket \in Packets /\ NoPacket \in AnswerPackets
      BY NoPacketIs
    <3>2. <<>> \in Seq(Contents)
      OBVIOUS
    <3> QED BY <1>1, <2>2, <2>5, <3>1, <3>2 DEF Chips
  <2> QED BY <2>1, <2>3, <2>4, <2>5
<1> QED BY <1>2, <1>3, <1>4, <1>5, <1>6

LEMMA InterruptEffect ==
    ASSUME TypeOK, Interrupt
    PROVE  /\ isr = {} /\ chip.ints # {} /\ main.pc # "off"
           /\ chip' \in Chips
           /\ chip'.ints = chip.ints \ {"reset"}
           /\ chip'.out = chip.out /\ chip'.in = chip.in /\ chip'.locked = chip.locked
           /\ chip'.stall = chip.stall /\ chip'.fifo = chip.fifo
           /\ "reset" \in chip.ints => isr' = {}
           /\ "reset" \notin chip.ints => isr' = chip.ints
           /\ isr' \subseteq Interrupts \ {"reset"}
           /\ seen' \in Histories
           /\ seen'.raced <=> seen.raced \/ (main.pc \in {"count", "state"} /\ chip.ints # {"main"})
           /\ seen'.handled = seen.handled /\ seen'.good = seen.good /\ seen'.told = seen.told
           /\ seen'.ended = seen.ended /\ seen'.burnt = seen.burnt
           /\ seen'.clobbered = seen.clobbered /\ seen'.refused = seen.refused
           /\ UNCHANGED <<ctl, main, upg, host, aborts, peer>>
<1>1. chip \in Chips /\ seen \in Histories /\ chip.ints \in SUBSET Interrupts
  BY TypeParts DEF Chips
<1>2. /\ isr = {} /\ chip.ints # {} /\ main.pc # "off" /\ UNCHANGED <<ctl, main, upg, host, aborts, peer>>
      /\ "reset" \in chip.ints => chip' = [chip EXCEPT !.ints = @ \ {"reset"}] /\ isr' = isr
      /\ "reset" \notin chip.ints => isr' = chip.ints /\ chip' = chip
  BY DEF Interrupt
<1>3. PICK r \in BOOLEAN : r = (seen.raced \/ (main.pc \in {"count", "state"} /\ chip.ints # {"main"}))
  BY Zenon
<1>4. seen' = [seen EXCEPT !.raced = r]
  BY Zenon, <1>3 DEF Interrupt
<1>5. /\ seen' \in Histories /\ seen'.raced = r
      /\ seen'.handled = seen.handled /\ seen'.good = seen.good /\ seen'.told = seen.told
      /\ seen'.ended = seen.ended /\ seen'.burnt = seen.burnt
      /\ seen'.clobbered = seen.clobbered /\ seen'.refused = seen.refused
  BY <1>1, <1>3, <1>4 DEF Histories
<1>6. /\ chip' \in Chips
      /\ chip'.ints = chip.ints \ {"reset"}
      /\ chip'.out = chip.out /\ chip'.in = chip.in /\ chip'.locked = chip.locked
      /\ chip'.stall = chip.stall /\ chip'.fifo = chip.fifo
  <2>1. CASE "reset" \in chip.ints
    BY <1>1, <1>2, <2>1 DEF Chips
  <2>2. CASE "reset" \notin chip.ints
    BY <1>1, <1>2, <2>2
  <2> QED BY <2>1, <2>2
<1> QED BY <1>1, <1>2, <1>3, <1>5, <1>6

LEMMA LoopEffect ==
    ASSUME TypeOK, Loop
    PROVE  /\ main.pc = "loop" /\ Undisturbed /\ ctl.setup
           /\ main' \in Mains /\ main'.pc = "handle" /\ main'.req = main.req
           /\ ctl' \in Ctls /\ ctl'.setup = FALSE /\ ctl'.state = ctl.state /\ ctl'.req = ctl.req
           /\ ctl'.file = ctl.file /\ ctl'.pData = ctl.pData
           /\ ctl'.wLength = ctl.wLength /\ ctl'.wCount = ctl.wCount
           /\ UNCHANGED <<chip, isr, upg, host, aborts, peer, seen>>
<1>1. ctl \in Ctls /\ main \in Mains /\ "handle" \in Places
  BY TypeParts DEF Places
<1>2. /\ main.pc = "loop" /\ Undisturbed /\ ctl.setup /\ Goto("handle")
      /\ ctl' = [ctl EXCEPT !.setup = FALSE]
      /\ UNCHANGED <<chip, isr, upg, host, aborts, peer, seen>>
  BY DEF Loop, At
<1>3. main' \in Mains /\ main'.pc = "handle" /\ main'.req = main.req
  BY <1>1, <1>2, GotoIs
<1>4. /\ ctl' \in Ctls /\ ctl'.setup = FALSE /\ ctl'.state = ctl.state /\ ctl'.req = ctl.req
      /\ ctl'.file = ctl.file /\ ctl'.pData = ctl.pData
      /\ ctl'.wLength = ctl.wLength /\ ctl'.wCount = ctl.wCount
  BY <1>1, <1>2 DEF Ctls
<1> QED BY <1>2, <1>3, <1>4

LEMMA PowerKeyEffect ==
    ASSUME TypeOK, PowerKey
    PROVE  /\ main.pc = "loop" /\ Undisturbed
           /\ main' \in Mains /\ main'.pc = "off"
           /\ host' \in HostStates /\ host'.pc = "idle" /\ host'.bulk = 0 /\ host'.req = NoRequest
           /\ UNCHANGED <<chip, isr, ctl, upg, aborts, peer, seen>>
<1>1. host \in HostStates /\ main \in Mains /\ "off" \in Places
  BY TypeParts DEF Places
<1>2. main.pc = "loop" /\ Undisturbed /\ Goto("off") /\ host' = [Idle EXCEPT !.bulk = 0]
      /\ UNCHANGED <<chip, isr, ctl, upg, aborts, peer, seen>>
  BY DEF PowerKey, At
<1>3. main' \in Mains /\ main'.pc = "off"
  BY <1>1, <1>2, GotoIs
<1>4. host' \in HostStates /\ host'.pc = "idle" /\ host'.bulk = 0 /\ host'.req = NoRequest
  <2>1. Idle \in HostStates /\ Idle.pc = "idle" /\ Idle.req = NoRequest
    BY <1>1, IdleIs
  <2>2. 0 \in 0 .. BlockSize
    BY FileFacts
  <2> QED BY <1>2, <2>1, <2>2 DEF HostStates
<1> QED BY <1>2, <1>3, <1>4

\* A request that the main loop handles: what all of them do.
Handles(kinds, place) ==
    /\ main.pc = "handle" /\ Undisturbed /\ ctl.req.kind \in kinds
    /\ main' \in Mains /\ main'.pc = place /\ main'.req = ctl.req
    /\ seen' \in Histories /\ seen'.handled = seen.handled + 1
    /\ seen'.good = seen.good /\ seen'.told = seen.told /\ seen'.ended = seen.ended
    /\ seen'.raced = seen.raced
    /\ UNCHANGED <<isr, ctl, host, aborts, peer>>

LEMMA HandleShortEffect ==
    ASSUME TypeOK, HandleShort
    PROVE  /\ Handles({"short", "status", "set", "block"}, "ack") /\ UNCHANGED <<chip, upg>>
           /\ seen'.burnt = seen.burnt /\ seen'.clobbered = seen.clobbered /\ seen'.refused = seen.refused
<1>1. "ack" \in Places /\ seen \in Histories
  BY TypeParts DEF Places
<1>2. Dispatch({"short", "status", "set", "block"}, "ack") /\ seen' = Handled /\ UNCHANGED <<chip, upg>>
  BY DEF HandleShort
<1> QED BY <1>1, <1>2, DispatchIs, HandledIs DEF Handles

LEMMA HandleClearEffect ==
    ASSUME TypeOK, HandleClear
    PROVE  /\ Handles({"clear"}, "check") /\ UNCHANGED <<chip, upg>>
           /\ seen'.burnt = seen.burnt /\ seen'.clobbered = seen.clobbered /\ seen'.refused = seen.refused
<1>1. "check" \in Places /\ seen \in Histories
  BY TypeParts DEF Places
<1>2. Dispatch({"clear"}, "check") /\ seen' = Handled /\ UNCHANGED <<chip, upg>>
  BY DEF HandleClear
<1> QED BY <1>1, <1>2, DispatchIs, HandledIs DEF Handles

LEMMA HandleReservedEffect ==
    ASSUME TypeOK, HandleReserved
    PROVE  /\ Handles({"reserved", "long"}, "check") /\ UNCHANGED upg
           /\ chip' \in Chips /\ chip'.stall /\ chip'.out = chip.out /\ chip'.in = chip.in
           /\ chip'.locked = chip.locked /\ chip'.ints = chip.ints /\ chip'.fifo = chip.fifo
           /\ seen'.burnt = seen.burnt /\ seen'.clobbered = seen.clobbered /\ seen'.refused = seen.refused
<1>1. "check" \in Places /\ seen \in Histories /\ chip \in Chips
  BY TypeParts DEF Places
<1>2. Dispatch({"reserved", "long"}, "check") /\ seen' = Handled /\ UNCHANGED upg
      /\ chip' = [chip EXCEPT !.stall = TRUE]
  BY DEF HandleReserved
<1>3. /\ chip' \in Chips /\ chip'.stall /\ chip'.out = chip.out /\ chip'.in = chip.in
      /\ chip'.locked = chip.locked /\ chip'.ints = chip.ints /\ chip'.fifo = chip.fifo
  BY <1>1, <1>2 DEF Chips
<1> QED BY <1>1, <1>2, <1>3, DispatchIs, HandledIs DEF Handles

LEMMA HandleDescriptorEffect ==
    ASSUME TypeOK, HandleDescriptor
    PROVE  /\ Handles({"device", "config", "vendor"}, "answer") /\ UNCHANGED chip
           /\ upg' \in Upgs
           /\ upg'.status = upg.status /\ upg'.errorno = upg.errorno /\ upg'.len = upg.len
           /\ upg'.header = upg.header
           /\ ctl.req.kind \in InBuffer => upg'.buf[1] = Foreign
           /\ ctl.req.kind \notin InBuffer => upg' = upg
           /\ \A k \in 1 .. LenBound : k # 1 => upg'.buf[k] = upg.buf[k]
           /\ seen'.clobbered <=> seen.clobbered \/ (ctl.req.kind \in InBuffer /\ upg.status = "DOWNLOAD")
           /\ seen'.burnt = seen.burnt /\ seen'.refused = seen.refused
<1>1. "answer" \in Places /\ seen \in Histories /\ upg \in Upgs
  BY TypeParts DEF Places
<1>2. PICK c \in BOOLEAN : c = (seen.clobbered \/ (ctl.req.kind \in InBuffer /\ upg.status = "DOWNLOAD"))
  BY Zenon
<1>3. /\ Dispatch({"device", "config", "vendor"}, "answer") /\ UNCHANGED chip
      /\ ctl.req.kind \in InBuffer => upg' = [upg EXCEPT !.buf[1] = Foreign]
      /\ ctl.req.kind \notin InBuffer => upg' = upg
  BY Descriptors DEF HandleDescriptor
<1>4. seen' = [Handled EXCEPT !.clobbered = c]
  <2>1. Handled.clobbered = seen.clobbered
    BY <1>1, HandledIs
  <2>2. seen' = [Handled EXCEPT !.clobbered = @ \/ (ctl.req.kind \in InBuffer /\ upg.status = "DOWNLOAD")]
    BY Zenon DEF HandleDescriptor
  <2> QED BY Zenon, <1>2, <2>1, <2>2
<1>5. /\ seen' \in Histories /\ seen'.handled = seen.handled + 1
      /\ seen'.good = seen.good /\ seen'.told = seen.told /\ seen'.ended = seen.ended
      /\ seen'.raced = seen.raced /\ seen'.clobbered = c
      /\ seen'.burnt = seen.burnt /\ seen'.refused = seen.refused
  <2>1. /\ Handled \in Histories /\ Handled.handled = seen.handled + 1
        /\ Handled.good = seen.good /\ Handled.told = seen.told /\ Handled.ended = seen.ended
        /\ Handled.burnt = seen.burnt /\ Handled.raced = seen.raced /\ Handled.refused = seen.refused
    BY <1>1, HandledIs
  <2> QED BY <1>2, <1>4, <2>1 DEF Histories
<1>6. /\ upg' \in Upgs
      /\ upg'.status = upg.status /\ upg'.errorno = upg.errorno /\ upg'.len = upg.len
      /\ upg'.header = upg.header
      /\ ctl.req.kind \in InBuffer => upg'.buf[1] = Foreign
      /\ \A k \in 1 .. LenBound : k # 1 => upg'.buf[k] = upg.buf[k]
  <2>1. CASE ctl.req.kind \notin InBuffer
    BY <1>1, <1>3, <2>1
  <2>2. CASE ctl.req.kind \in InBuffer
    <3>1. upg' = [upg EXCEPT !.buf = [upg.buf EXCEPT ![1] = Foreign]]
      BY <1>3, <2>2
    <3>2. upg.buf \in [1 .. LenBound -> Contents \cup {Nothing, Foreign}]
      BY <1>1 DEF Upgs
    <3>3. PICK b \in [1 .. LenBound -> Contents \cup {Nothing, Foreign}] : b = [upg.buf EXCEPT ![1] = Foreign]
      BY <3>2
    <3>4. b[1] = Foreign /\ \A k \in 1 .. LenBound : k # 1 => b[k] = upg.buf[k]
      BY <3>2, <3>3, FileFacts
    <3>5. upg' = [upg EXCEPT !.buf = b]
      BY <3>1, <3>3
    <3> QED BY <1>1, <3>4, <3>5 DEF Upgs
  <2> QED BY <2>1, <2>2
<1> QED BY <1>2, <1>3, <1>5, <1>6, <1>1, DispatchIs DEF Handles

LEMMA HandleHeaderEffect ==
    ASSUME TypeOK, HandleHeader
    PROVE  /\ upg' \in Upgs /\ upg'.header = ctl.file
           /\ upg'.errorno = upg.errorno /\ upg'.len = upg.len /\ upg'.buf = upg.buf
           /\ seen'.burnt = NoFile /\ UNCHANGED chip
           /\ \/ /\ Handles({"header"}, "ack") /\ TooBig(ctl.file)
                 /\ upg'.status = upg.status
                 /\ seen'.refused /\ seen'.clobbered = seen.clobbered
              \/ /\ Handles({"header"}, "len") /\ ~TooBig(ctl.file)
                 /\ upg'.status = "DOWNLOAD"
                 /\ seen'.refused = seen.refused /\ ~seen'.clobbered
<1>1. {"ack", "len"} \subseteq Places /\ seen \in Histories /\ upg \in Upgs
      /\ ctl.file \in Files \cup {NoFile} /\ NoFile \in Files \cup {NoFile}
  BY TypeParts DEF Places, Ctls
<1>2. /\ Handled \in Histories /\ Handled.handled = seen.handled + 1
      /\ Handled.good = seen.good /\ Handled.told = seen.told /\ Handled.ended = seen.ended
      /\ Handled.clobbered = seen.clobbered /\ Handled.raced = seen.raced /\ Handled.refused = seen.refused
  BY <1>1, HandledIs
<1>3. \/ /\ Dispatch({"header"}, "ack") /\ TooBig(ctl.file)
         /\ upg' = [upg EXCEPT !.header = ctl.file]
         /\ seen' = [Handled EXCEPT !.refused = TRUE, !.burnt = NoFile]
         /\ UNCHANGED chip
      \/ /\ Dispatch({"header"}, "len") /\ ~TooBig(ctl.file)
         /\ upg' = [upg EXCEPT !.header = ctl.file, !.status = "DOWNLOAD"]
         /\ seen' = [Handled EXCEPT !.burnt = NoFile, !.clobbered = FALSE]
         /\ UNCHANGED chip
  BY Zenon DEF HandleHeader
<1>4. CASE /\ Dispatch({"header"}, "ack") /\ TooBig(ctl.file)
           /\ upg' = [upg EXCEPT !.header = ctl.file]
           /\ seen' = [Handled EXCEPT !.refused = TRUE, !.burnt = NoFile]
           /\ UNCHANGED chip
  <2>1. /\ upg' \in Upgs /\ upg'.header = ctl.file /\ upg'.status = upg.status
        /\ upg'.errorno = upg.errorno /\ upg'.len = upg.len /\ upg'.buf = upg.buf
    BY <1>1, <1>4 DEF Upgs
  <2>2. /\ seen' \in Histories /\ seen'.refused /\ seen'.burnt = NoFile
        /\ seen'.handled = seen.handled + 1 /\ seen'.clobbered = seen.clobbered
        /\ seen'.good = seen.good /\ seen'.told = seen.told /\ seen'.ended = seen.ended
        /\ seen'.raced = seen.raced
    BY <1>2, <1>4 DEF Histories
  <2>3. /\ main.pc = "handle" /\ Undisturbed /\ ctl.req.kind \in {"header"}
        /\ main' \in Mains /\ main'.pc = "ack" /\ main'.req = ctl.req
        /\ UNCHANGED <<isr, ctl, host, aborts, peer>>
    BY <1>1, <1>4, DispatchIs
  <2> QED BY <1>4, <2>1, <2>2, <2>3 DEF Handles
<1>5. CASE /\ Dispatch({"header"}, "len") /\ ~TooBig(ctl.file)
           /\ upg' = [upg EXCEPT !.header = ctl.file, !.status = "DOWNLOAD"]
           /\ seen' = [Handled EXCEPT !.burnt = NoFile, !.clobbered = FALSE]
           /\ UNCHANGED chip
  <2>1. /\ upg' \in Upgs /\ upg'.header = ctl.file /\ upg'.status = "DOWNLOAD"
        /\ upg'.errorno = upg.errorno /\ upg'.len = upg.len /\ upg'.buf = upg.buf
    BY <1>1, <1>5 DEF Upgs, Statuses
  <2>2. /\ seen' \in Histories /\ ~seen'.clobbered /\ seen'.burnt = NoFile
        /\ seen'.handled = seen.handled + 1 /\ seen'.refused = seen.refused
        /\ seen'.good = seen.good /\ seen'.told = seen.told /\ seen'.ended = seen.ended
        /\ seen'.raced = seen.raced
    BY <1>2, <1>5 DEF Histories
  <2>3. /\ main.pc = "handle" /\ Undisturbed /\ ctl.req.kind \in {"header"}
        /\ main' \in Mains /\ main'.pc = "len" /\ main'.req = ctl.req
        /\ UNCHANGED <<isr, ctl, host, aborts, peer>>
    BY <1>1, <1>5, DispatchIs
  <2> QED BY <1>5, <2>1, <2>2, <2>3 DEF Handles
<1> QED BY <1>3, <1>4, <1>5

LEMMA HandleEndEffect ==
    ASSUME TypeOK, HandleEnd
    PROVE  /\ upg' \in Upgs /\ upg'.header = upg.header
           /\ upg'.errorno = upg.errorno /\ upg'.len = upg.len /\ upg'.buf = upg.buf
           /\ seen'.burnt = seen.burnt /\ seen'.clobbered = seen.clobbered /\ seen'.refused = seen.refused
           /\ UNCHANGED chip
           /\ \/ /\ Handles({"end"}, "size") /\ upg.status = "DOWNLOAD" /\ upg'.status = "WRITE"
              \/ /\ Handles({"end"}, "ack") /\ upg.status # "DOWNLOAD" /\ upg' = upg
<1>1. {"ack", "size"} \subseteq Places /\ seen \in Histories /\ upg \in Upgs
  BY TypeParts DEF Places
<1>2. /\ Handled \in Histories /\ Handled.handled = seen.handled + 1
      /\ Handled.good = seen.good /\ Handled.told = seen.told /\ Handled.ended = seen.ended
      /\ Handled.clobbered = seen.clobbered /\ Handled.raced = seen.raced /\ Handled.refused = seen.refused
      /\ Handled.burnt = seen.burnt
  BY <1>1, HandledIs
<1>3. \/ /\ Dispatch({"end"}, "size") /\ upg.status = "DOWNLOAD"
         /\ upg' = [upg EXCEPT !.status = "WRITE"]
         /\ seen' = Handled /\ UNCHANGED chip
      \/ /\ Dispatch({"end"}, "ack") /\ upg.status # "DOWNLOAD"
         /\ seen' = Handled /\ UNCHANGED <<chip, upg>>
  BY Zenon DEF HandleEnd
<1>4. CASE /\ Dispatch({"end"}, "size") /\ upg.status = "DOWNLOAD"
           /\ upg' = [upg EXCEPT !.status = "WRITE"]
           /\ seen' = Handled /\ UNCHANGED chip
  <2>1. /\ upg' \in Upgs /\ upg'.header = upg.header /\ upg'.status = "WRITE"
        /\ upg'.errorno = upg.errorno /\ upg'.len = upg.len /\ upg'.buf = upg.buf
    BY <1>1, <1>4 DEF Upgs, Statuses
  <2>2. /\ main.pc = "handle" /\ Undisturbed /\ ctl.req.kind \in {"end"}
        /\ main' \in Mains /\ main'.pc = "size" /\ main'.req = ctl.req
        /\ UNCHANGED <<isr, ctl, host, aborts, peer>>
    BY <1>1, <1>4, DispatchIs
  <2> QED BY <1>2, <1>4, <2>1, <2>2 DEF Handles
<1>5. CASE /\ Dispatch({"end"}, "ack") /\ upg.status # "DOWNLOAD"
           /\ seen' = Handled /\ UNCHANGED <<chip, upg>>
  <2>1. /\ main.pc = "handle" /\ Undisturbed /\ ctl.req.kind \in {"end"}
        /\ main' \in Mains /\ main'.pc = "ack" /\ main'.req = ctl.req
        /\ UNCHANGED <<isr, ctl, host, aborts, peer>>
    BY <1>1, <1>5, DispatchIs
  <2> QED BY <1>1, <1>2, <1>5, <2>1 DEF Handles
<1> QED BY <1>3, <1>4, <1>5

\* A step of the main loop from one place to another.
Moves(from, to) ==
    /\ main.pc = from /\ Undisturbed
    /\ main' \in Mains /\ main'.pc = to /\ main'.req = main.req /\ main'.sent = main.sent
    /\ UNCHANGED <<chip, isr, host, aborts, peer>>

LEMMA ResetLenEffect ==
    ASSUME TypeOK, ResetLen
    PROVE  /\ Moves("len", "ack") /\ UNCHANGED <<ctl, seen>>
           /\ upg' \in Upgs /\ upg'.status = upg.status /\ upg'.errorno = upg.errorno
           /\ upg'.len = 0 /\ upg'.header = upg.header /\ upg'.buf = upg.buf
<1>1. "ack" \in Places /\ main \in Mains /\ upg \in Upgs /\ 0 \in 0 .. LenBound
  BY TypeParts, FileFacts DEF Places
<1>2. main.pc = "len" /\ Undisturbed /\ Goto("ack") /\ upg' = [upg EXCEPT !.len = 0]
      /\ UNCHANGED <<chip, isr, ctl, host, aborts, peer, seen>>
  BY DEF ResetLen, At
<1>3. /\ upg' \in Upgs /\ upg'.status = upg.status /\ upg'.errorno = upg.errorno
      /\ upg'.len = 0 /\ upg'.header = upg.header /\ upg'.buf = upg.buf
  BY <1>1, <1>2 DEF Upgs
<1> QED BY <1>1, <1>2, <1>3, GotoIs DEF Moves

LEMMA CheckSizeEffect ==
    ASSUME TypeOK, CheckSize
    PROVE  /\ Moves("size", "ack") /\ UNCHANGED <<ctl, seen>>
           /\ upg' \in Upgs /\ upg'.errorno = upg.errorno
           /\ upg'.len = upg.len /\ upg'.header = upg.header /\ upg'.buf = upg.buf
           /\ upg.header # NoFile /\ upg.len = Size[upg.header] => upg'.status = upg.status
           /\ upg.header = NoFile \/ upg.len # Size[upg.header] => upg'.status = "UNUSED"
<1>1. "ack" \in Places /\ main \in Mains /\ upg \in Upgs
  BY TypeParts DEF Places
<1>2. main.pc = "size" /\ Undisturbed /\ Goto("ack")
      /\ UNCHANGED <<chip, isr, ctl, host, aborts, peer, seen>>
  BY DEF CheckSize, At
<1>3. CASE upg.header # NoFile /\ upg.len = Size[upg.header]
  <2>1. upg' = upg
    BY <1>3 DEF CheckSize
  <2> QED BY <1>1, <1>2, <1>3, <2>1, GotoIs DEF Moves
<1>4. CASE ~(upg.header # NoFile /\ upg.len = Size[upg.header])
  <2>1. upg' = [upg EXCEPT !.status = "UNUSED"]
    BY Zenon, <1>4 DEF CheckSize
  <2>2. /\ upg' \in Upgs /\ upg'.errorno = upg.errorno /\ upg'.status = "UNUSED"
        /\ upg'.len = upg.len /\ upg'.header = upg.header /\ upg'.buf = upg.buf
    BY <1>1, <2>1 DEF Upgs, Statuses
  <2> QED BY <1>1, <1>2, <1>4, <2>2, GotoIs DEF Moves
<1> QED BY <1>3, <1>4

LEMMA CountPacketEffect ==
    ASSUME TypeOK, CountPacket
    PROVE  /\ Moves("count", "state") /\ UNCHANGED <<upg, seen>> /\ main.sent \in 0 .. PacketSize
           /\ ctl' \in Ctls /\ ctl'.wCount = ctl.wCount + main.sent
           /\ ctl'.req = ctl.req /\ ctl'.wLength = ctl.wLength /\ ctl'.pData = ctl.pData
           /\ ctl'.file = ctl.file /\ ctl'.setup = ctl.setup /\ ctl'.state = ctl.state
<1>1. "state" \in Places /\ main \in Mains /\ ctl \in Ctls /\ main.sent \in 0 .. PacketSize
  BY TypeParts DEF Places, Mains
<1>2. main.pc = "count" /\ Undisturbed /\ Goto("state") /\ ctl' = [ctl EXCEPT !.wCount = @ + main.sent]
      /\ UNCHANGED <<chip, isr, upg, host, aborts, peer, seen>>
  BY DEF CountPacket, At
<1>3. PICK c \in Nat : c = ctl.wCount + main.sent
  BY <1>1 DEF Ctls, PacketSize
<1>4. ctl' = [ctl EXCEPT !.wCount = c]
  BY <1>2, <1>3
<1>5. /\ ctl' \in Ctls /\ ctl'.wCount = c
      /\ ctl'.req = ctl.req /\ ctl'.wLength = ctl.wLength /\ ctl'.pData = ctl.pData
      /\ ctl'.file = ctl.file /\ ctl'.setup = ctl.setup /\ ctl'.state = ctl.state
  BY <1>1, <1>4 DEF Ctls
<1> QED BY <1>1, <1>2, <1>3, <1>5, GotoIs DEF Moves

LEMMA SetStateEffect ==
    ASSUME TypeOK, SetState
    PROVE  /\ Moves("state", "check") /\ UNCHANGED <<upg, seen>>
           /\ ctl' \in Ctls /\ ctl'.state = IF main.sent = PacketSize THEN "TRANSMIT" ELSE "IDLE"
           /\ ctl'.req = ctl.req /\ ctl'.wLength = ctl.wLength /\ ctl'.pData = ctl.pData
           /\ ctl'.file = ctl.file /\ ctl'.setup = ctl.setup /\ ctl'.wCount = ctl.wCount
<1>1. "check" \in Places /\ main \in Mains /\ ctl \in Ctls
  BY TypeParts DEF Places
<1>2. main.pc = "state" /\ Undisturbed /\ Goto("check")
      /\ ctl' = [ctl EXCEPT !.state = IF main.sent = PacketSize THEN "TRANSMIT" ELSE "IDLE"]
      /\ UNCHANGED <<chip, isr, upg, host, aborts, peer, seen>>
  BY DEF SetState, At
<1>3. PICK s \in {"TRANSMIT", "IDLE"} : s = IF main.sent = PacketSize THEN "TRANSMIT" ELSE "IDLE"
  OBVIOUS
<1>4. ctl' = [ctl EXCEPT !.state = s]
  BY <1>2, <1>3
<1>5. /\ ctl' \in Ctls /\ ctl'.state = s
      /\ ctl'.req = ctl.req /\ ctl'.wLength = ctl.wLength /\ ctl'.pData = ctl.pData
      /\ ctl'.file = ctl.file /\ ctl'.setup = ctl.setup /\ ctl'.wCount = ctl.wCount
  BY <1>1, <1>3, <1>4 DEF Ctls
<1> QED BY <1>1, <1>2, <1>3, <1>5, GotoIs DEF Moves

LEMMA CheckEffect ==
    ASSUME TypeOK, Check
    PROVE  /\ main.pc = "check" /\ Undisturbed
           /\ main' \in Mains /\ main'.pc = IF upg.status = "WRITE" THEN "burn" ELSE "loop"
           /\ UNCHANGED <<chip, isr, ctl, upg, host, aborts, peer, seen>>
<1>1. PICK pc \in {"burn", "loop"} : pc = IF upg.status = "WRITE" THEN "burn" ELSE "loop"
  OBVIOUS
<1>2. main.pc = "check" /\ Undisturbed /\ UNCHANGED <<chip, isr, ctl, upg, host, aborts, peer, seen>>
  BY DEF Check, At
<1>3. main' = [pc |-> pc, req |-> NoRequest, sent |-> 0]
  BY Zenon, <1>1 DEF Check, Burns
<1>4. main' \in Mains /\ main'.pc = pc
  <2>1. NoRequest \in Requests /\ 0 \in 0 .. PacketSize /\ {"burn", "loop"} \subseteq Places
    BY NoRequestIs, NoneOrOne DEF Places
  <2> QED BY <1>1, <1>3, <2>1 DEF Mains
<1> QED BY <1>1, <1>2, <1>4

LEMMA BurnEffect ==
    ASSUME TypeOK, BurnFails \/ BurnErase \/ BurnWrite \/ BurnReturns
    PROVE  /\ UNCHANGED <<ctl, seen>>
           /\ upg' \in Upgs /\ upg'.len = upg.len /\ upg'.header = upg.header /\ upg'.buf = upg.buf
           /\ \/ /\ Moves("burn", "burnt") \/ Moves("erase", "burnt") \/ Moves("write", "burnt")
                 /\ upg'.errorno = 1 /\ upg'.status = upg.status
              \/ Moves("burn", "erase") /\ upg'.errorno = upg.errorno /\ upg'.status = "ERASE"
              \/ Moves("erase", "write") /\ upg'.errorno = upg.errorno /\ upg'.status = "WRITE"
              \/ Moves("burnt", "loop") /\ upg'.errorno = upg.errorno /\ upg'.status = "UNUSED"
<1>1. {"burnt", "erase", "write", "loop"} \subseteq Places /\ main \in Mains /\ upg \in Upgs
  BY TypeParts DEF Places
<1>2. CASE BurnFails
  <2>1. /\ main.pc \in {"burn", "erase", "write"} /\ Undisturbed /\ Goto("burnt")
        /\ upg' = [upg EXCEPT !.errorno = 1] /\ UNCHANGED <<chip, isr, ctl, host, aborts, peer, seen>>
    BY <1>2 DEF BurnFails
  <2>2. /\ upg' \in Upgs /\ upg'.len = upg.len /\ upg'.header = upg.header /\ upg'.buf = upg.buf
        /\ upg'.errorno = 1 /\ upg'.status = upg.status
    BY <1>1, <2>1 DEF Upgs
  <2> QED BY <1>1, <2>1, <2>2, GotoIs DEF Moves
<1>3. CASE BurnErase
  <2>1. /\ main.pc = "burn" /\ Undisturbed /\ Goto("erase")
        /\ upg' = [upg EXCEPT !.status = "ERASE"] /\ UNCHANGED <<chip, isr, ctl, host, aborts, peer, seen>>
    BY <1>3 DEF BurnErase, At
  <2>2. /\ upg' \in Upgs /\ upg'.len = upg.len /\ upg'.header = upg.header /\ upg'.buf = upg.buf
        /\ upg'.errorno = upg.errorno /\ upg'.status = "ERASE"
    BY <1>1, <2>1 DEF Upgs, Statuses
  <2> QED BY <1>1, <2>1, <2>2, GotoIs DEF Moves
<1>4. CASE BurnWrite
  <2>1. /\ main.pc = "erase" /\ Undisturbed /\ Goto("write")
        /\ upg' = [upg EXCEPT !.status = "WRITE"] /\ UNCHANGED <<chip, isr, ctl, host, aborts, peer, seen>>
    BY <1>4 DEF BurnWrite, At
  <2>2. /\ upg' \in Upgs /\ upg'.len = upg.len /\ upg'.header = upg.header /\ upg'.buf = upg.buf
        /\ upg'.errorno = upg.errorno /\ upg'.status = "WRITE"
    BY <1>1, <2>1 DEF Upgs, Statuses
  <2> QED BY <1>1, <2>1, <2>2, GotoIs DEF Moves
<1>5. CASE BurnReturns
  <2>1. /\ main.pc = "burnt" /\ Undisturbed /\ Goto("loop")
        /\ upg' = [upg EXCEPT !.status = "UNUSED"] /\ UNCHANGED <<chip, isr, ctl, host, aborts, peer, seen>>
    BY <1>5 DEF BurnReturns, At
  <2>2. /\ upg' \in Upgs /\ upg'.len = upg.len /\ upg'.header = upg.header /\ upg'.buf = upg.buf
        /\ upg'.errorno = upg.errorno /\ upg'.status = "UNUSED"
    BY <1>1, <2>1 DEF Upgs, Statuses
  <2> QED BY <1>1, <2>1, <2>2, GotoIs DEF Moves
<1> QED BY <1>2, <1>3, <1>4, <1>5

LEMMA BurnDoneEffect ==
    ASSUME TypeOK, BurnDone
    PROVE  /\ Moves("write", "burnt") /\ UNCHANGED <<ctl, upg>>
           /\ \E f \in Files : Holds(f) /\ seen'.burnt = f
           /\ seen' \in Histories
           /\ seen'.handled = seen.handled /\ seen'.good = seen.good /\ seen'.told = seen.told
           /\ seen'.ended = seen.ended /\ seen'.raced = seen.raced
           /\ seen'.clobbered = seen.clobbered /\ seen'.refused = seen.refused
<1>1. "burnt" \in Places /\ main \in Mains /\ seen \in Histories
  BY TypeParts DEF Places
<1>2. main.pc = "write" /\ Undisturbed /\ Goto("burnt") /\ UNCHANGED <<chip, isr, ctl, upg, host, aborts, peer>>
  BY DEF BurnDone, At
<1>3. PICK f \in Files : Holds(f) /\ seen' = [seen EXCEPT !.burnt = f]
  BY DEF BurnDone
<1>4. /\ seen' \in Histories /\ seen'.burnt = f
      /\ seen'.handled = seen.handled /\ seen'.good = seen.good /\ seen'.told = seen.told
      /\ seen'.ended = seen.ended /\ seen'.raced = seen.raced
      /\ seen'.clobbered = seen.clobbered /\ seen'.refused = seen.refused
  BY <1>1, <1>3 DEF Histories
<1> QED BY <1>1, <1>2, <1>3, <1>4, GotoIs DEF Moves

-----------------------------------------------------------------------------
LEMMA TypePrimed ==
    ASSUME chip' \in Chips, Len(chip'.fifo) <= FifoDepth, isr' \subseteq Interrupts \ {"reset"},
           ctl' \in Ctls, main' \in Mains, upg' \in Upgs, host' \in HostStates,
           peer' \in Hosts, aborts' \in 0 .. peer'.aborts, seen' \in Histories
    PROVE  TypeOK'
BY DEF TypeOK, Chips, Ctls, Mains, Places, Upgs, HostStates, Histories

\* A step that leaves the host and the place of the main loop alone.
LEMMA TypeKept ==
    ASSUME TypeInv, TypeOK', UNCHANGED host,
           main'.pc = "answer" => main'.req.kind \in {"device", "config", "vendor"}
    PROVE  TypeInv'
BY Descriptors DEF TypeInv

LEMMA TypeStep ==
    ASSUME TypeInv, [Next]_vars
    PROVE  TypeInv'
<1> DEFINE Bulk == host'.bulk > 0 => host'.file # NoFile /\ host'.next + host'.bulk <= Size[host'.file] + 1
<1>0. /\ chip \in Chips /\ Len(chip.fifo) <= FifoDepth /\ isr \subseteq Interrupts \ {"reset"}
      /\ ctl \in Ctls /\ main \in Mains /\ upg \in Upgs /\ host \in HostStates
      /\ peer \in Hosts /\ aborts \in 0 .. peer.aborts /\ seen \in Histories /\ TypeOK
      /\ main.pc = "answer" => main.req.kind \in {"device", "config", "vendor"}
  BY TypeParts, Descriptors DEF TypeInv
<1>1. CASE Interrupt
  BY <1>0, <1>1, InterruptEffect, TypePrimed, TypeKept
<1>2. CASE TxDone
  <2>1. PICK len, count :
          /\ len = IF ctl.wLength - ctl.wCount \in 0 .. 1 THEN ctl.wLength - ctl.wCount ELSE PacketSize
          /\ count = IF ctl.wLength - ctl.wCount < 2 THEN ctl.wLength ELSE ctl.wCount + 2
    OBVIOUS
  <2>2. ctl' \in Ctls /\ chip' \in Chips /\ chip'.fifo = chip.fifo
    BY <1>0, <1>2, <2>1, TxDoneEffect
  <2>3. isr' \subseteq isr /\ UNCHANGED <<main, upg, host, aborts, peer, seen>>
    BY <1>2 DEF TxDone
  <2> QED BY <1>0, <2>2, <2>3, TypePrimed, TypeKept
<1>3. CASE RxSetup
  BY <1>0, <1>3, RxSetupEffect, TypePrimed, TypeKept
<1>4. CASE RxData
  <2>1. PICK n : n = IF chip.out = NoPacket THEN 0 ELSE chip.out.len
    OBVIOUS
  <2>2. PICK last \in BOOLEAN : last <=> n # PacketSize \/ ctl.wCount + n >= ctl.wLength
    BY Zenon
  <2>3. isr' \subseteq isr /\ ctl' \in Ctls /\ chip' \in Chips /\ chip'.fifo = chip.fifo
        /\ UNCHANGED <<main, upg, host, aborts, peer, seen>>
    BY <1>0, <1>4, <2>1, <2>2, RxDataEffect
  <2> QED BY <1>0, <2>3, TypePrimed, TypeKept
<1>5. CASE MainRxDone
  BY <1>0, <1>5, MainRxDoneEffect, TypePrimed, TypeKept
<1>6. CASE Loop
  BY <1>0, <1>6, LoopEffect, TypePrimed, TypeKept
<1>7. CASE HandleShort \/ HandleClear \/ HandleReserved \/ HandleDescriptor
  <2>1. /\ \E kinds, place : Handles(kinds, place) /\ (place = "answer" => kinds = {"device", "config", "vendor"})
        /\ chip' \in Chips /\ chip'.fifo = chip.fifo /\ upg' \in Upgs
    BY <1>0, <1>7, HandleShortEffect, HandleClearEffect, HandleReservedEffect, HandleDescriptorEffect
  <2>2. /\ main' \in Mains /\ seen' \in Histories /\ UNCHANGED <<isr, ctl, host, aborts, peer>>
        /\ main'.pc = "answer" => main'.req.kind \in {"device", "config", "vendor"}
    BY <2>1 DEF Handles
  <2> QED BY <1>0, <2>1, <2>2, TypePrimed, TypeKept
<1>8. CASE HandleHeader \/ HandleEnd
  <2>1. /\ \E kinds, place : Handles(kinds, place) /\ place # "answer"
        /\ chip' = chip /\ upg' \in Upgs
    BY <1>0, <1>8, HandleHeaderEffect, HandleEndEffect
  <2>2. /\ main' \in Mains /\ seen' \in Histories /\ UNCHANGED <<isr, ctl, host, aborts, peer>>
        /\ main'.pc # "answer"
    BY <2>1 DEF Handles
  <2> QED BY <1>0, <2>1, <2>2, TypePrimed, TypeKept
<1>9. CASE ResetLen \/ CheckSize \/ CountPacket \/ SetState \/ BurnFails \/ BurnErase \/ BurnWrite
           \/ BurnReturns \/ BurnDone
  <2>1. /\ \E from, to : Moves(from, to) /\ to # "answer"
        /\ ctl' \in Ctls /\ upg' \in Upgs /\ seen' \in Histories
    BY <1>0, <1>9, ResetLenEffect, CheckSizeEffect, CountPacketEffect, SetStateEffect, BurnEffect, BurnDoneEffect
  <2>2. /\ main' \in Mains /\ UNCHANGED <<chip, isr, host, aborts, peer>> /\ main'.pc # "answer"
    BY <2>1 DEF Moves
  <2> QED BY <1>0, <2>1, <2>2, TypePrimed, TypeKept
<1>10. CASE SingleTransmit
  <2>1. PICK n : (ToHost(main.req) => n = 1) /\ (~ToHost(main.req) => n = 0)
    BY Zenon
  <2>2. PICK s, p : /\ s = IF main.req.kind # "status" THEN ""
                           ELSE IF upg.status = "UNUSED" THEN "idle" ELSE "write"
                    /\ p = Answer(main.req.kind, 0, n, s)
    OBVIOUS
  <2>3. main' \in Mains /\ chip' \in Chips /\ main'.pc = "check" /\ chip'.fifo = chip.fifo
        /\ UNCHANGED <<isr, ctl, upg, host, aborts, peer, seen>>
    BY <1>10, <2>1, <2>2, SingleTransmitEffect
  <2> QED BY <1>0, <2>3, TypePrimed, TypeKept
<1>11. CASE FirstPacket
  <2>1. PICK n : n = IF ctl.wLength <= Descriptor[main.req.kind] THEN ctl.wLength ELSE Descriptor[main.req.kind]
    OBVIOUS
  <2>2. PICK sent : sent = IF n <= PacketSize THEN n ELSE PacketSize
    OBVIOUS
  <2>3. main' \in Mains /\ chip' \in Chips /\ ctl' \in Ctls /\ main'.pc = "count" /\ chip'.fifo = chip.fifo
        /\ UNCHANGED <<isr, upg, host, aborts, peer, seen>>
    BY <1>11, <2>1, <2>2, FirstPacketEffect
  <2> QED BY <1>0, <2>3, TypePrimed, TypeKept
<1>12. CASE Check
  BY <1>0, <1>12, CheckEffect, TypePrimed, TypeKept
<1>13. CASE PowerKey
  <2>1. TypeOK'
    BY <1>0, <1>13, PowerKeyEffect, TypePrimed
  <2> QED BY <1>0, <1>13, <2>1, PowerKeyEffect DEF TypeInv
<1>14. CASE NewRequest
  <2>1. TypeOK'
    BY <1>0, <1>14, NewRequestEffect, TypePrimed
  <2>2. PICK q \in Requests :
             /\ Allowed(q)
             /\ host' \in HostStates /\ host'.req = q /\ host'.count = 0 /\ host'.bulk = host.bulk
             /\ host'.pc = IF q.kind \in {"device", "config", "vendor", "short", "status", "reserved"} THEN "read"
                           ELSE IF q.kind \in {"header", "block", "long"} THEN "send" ELSE "ack"
             /\ host'.file = IF q.kind = "header" THEN NoFile ELSE host.file
             /\ host'.next = IF q.kind = "header" THEN 1 ELSE host.next
             /\ main' = main
    BY <1>0, <1>14, NewRequestEffect
  <2>3. /\ host.bulk \in Nat /\ q.wLength \in Nat
        /\ q.kind \in {"header", "block", "long"} => 0 < q.wLength
    BY <1>0, RequestShape DEF HostStates, MaxData, HeaderSize
  <2>4. /\ q.kind \in {"block", "end", "header", "status"} => host.bulk = 0
        /\ q.kind = "block" => host.file # NoFile /\ host.next <= Size[host.file]
    BY <2>2, <2>3, AllowedIs
  <2>5. host'.pc = "send" => host'.count < host'.req.wLength
    <3>1. host'.pc = "send" => q.kind \in {"header", "block", "long"}
      BY <2>2
    <3>2. host'.pc = "send" => 0 < q.wLength
      BY <2>3, <3>1
    <3> QED BY <2>2, <3>2
  <2>6. Bulk
    BY <2>2, <2>3, <2>4 DEF TypeInv
  <2>7. host'.pc # "idle" /\ host'.req.kind \in {"header", "block", "end"} => host'.bulk = 0
    BY <2>2, <2>4
  <2>8. host'.pc # "idle" /\ host'.req.kind = "block" => host'.file # NoFile /\ host'.next <= Size[host'.file]
    BY <2>2, <2>4
  <2> QED BY <1>0, <2>1, <2>2, <2>5, <2>6, <2>7, <2>8, Descriptors DEF TypeInv
<1>15. CASE HostSend
  <2>1. PICK n : n = IF PacketSize <= host.req.wLength - host.count
                     THEN PacketSize ELSE host.req.wLength - host.count
    OBVIOUS
  <2>2. /\ host.pc = "send" /\ n \in 1 .. PacketSize /\ chip' \in Chips /\ chip'.fifo = chip.fifo
        /\ host' \in HostStates /\ host'.req = host.req /\ host'.count = host.count + n
        /\ host'.pc = IF host.count + n = host.req.wLength THEN "ack" ELSE "send"
        /\ host'.file = host.file /\ host'.next = host.next /\ host'.bulk = host.bulk
        /\ UNCHANGED <<isr, ctl, main, upg, aborts, peer, seen>>
    BY <1>15, <2>1, HostSendEffect
  <2>3. TypeOK'
    BY <1>0, <2>2, TypePrimed
  <2>4. host'.pc = "send" => host'.count < host'.req.wLength
    <3>1. host.req.wLength \in Nat /\ host.count \in Nat /\ host.count < host.req.wLength
      BY <1>0, <2>2, RequestShape DEF TypeInv, HostStates
    <3>2. host.count + n <= host.req.wLength
      BY <2>1, <3>1 DEF PacketSize
    <3> QED BY <2>2, <3>1, <3>2 DEF PacketSize
  <2> QED BY <1>0, <2>2, <2>3, <2>4 DEF TypeInv
<1>16. CASE HostAck
  <2>1. PICK kind : kind = host.req.kind
    OBVIOUS
  <2>2. /\ host.pc = "ack" /\ chip' \in Chips /\ chip'.fifo = chip.fifo
        /\ host' \in HostStates /\ host'.pc = "idle"
        /\ host'.file = IF kind = "header" THEN host.req.file
                           ELSE IF kind = "end" THEN NoFile ELSE host.file
        /\ host'.next = IF kind \in {"header", "end"} THEN 1 ELSE host.next
        /\ host'.bulk = IF kind = "block" THEN BlockOf ELSE host.bulk
        /\ seen' \in Histories
        /\ UNCHANGED <<isr, ctl, main, upg, aborts, peer>>
    BY <1>16, <2>1, HostAckEffect
  <2>3. TypeOK'
    BY <1>0, <2>2, TypePrimed
  <2>4. Bulk
    <3>1. CASE kind = "block"
      <4>1. host.file \in Files /\ host.next \in Nat /\ host.next <= Size[host.file]
        BY <1>0, <2>1, <2>2, <3>1 DEF TypeInv, HostStates
      <4>2. host.next + BlockOf <= Size[host.file] + 1
        BY <4>1, FileFacts DEF BlockOf
      <4> QED BY <2>2, <3>1, <4>1, <4>2, FileFacts
    <3>2. CASE kind # "block"
      BY <2>1, <2>2, <3>2 DEF TypeInv
    <3> QED BY <3>1, <3>2
  <2> QED BY <1>0, <2>2, <2>3, <2>4 DEF TypeInv
<1>17. CASE HostRead
  <2>1. PICK p : p = chip.in
    OBVIOUS
  <2>2. /\ chip' \in Chips /\ chip'.fifo = chip.fifo /\ host.pc = "read"
        /\ host' \in HostStates /\ host'.req = host.req /\ host'.pc \in {"status", "read"}
        /\ host'.file = host.file /\ host'.next = host.next /\ host'.bulk = host.bulk
        /\ seen' \in Histories
        /\ UNCHANGED <<isr, ctl, main, upg, aborts, peer>>
    BY <1>17, <2>1, HostReadEffect
  <2>3. TypeOK'
    BY <1>0, <2>2, TypePrimed
  <2> QED BY <1>0, <2>2, <2>3 DEF TypeInv
<1>18. CASE HostStatus \/ HostStalled
  <2>1. chip' \in Chips /\ chip'.fifo = chip.fifo /\ host' = Idle /\ host.pc # "idle"
        /\ UNCHANGED <<isr, ctl, main, upg, aborts, peer, seen>>
    BY <1>0, <1>18, HostStatusEffect DEF HostStalled
  <2>2. /\ host' \in HostStates /\ host'.pc = "idle" /\ host'.req = NoRequest
        /\ host'.file = host.file /\ host'.next = host.next /\ host'.bulk = host.bulk
    BY <1>0, <2>1, IdleIs
  <2>3. TypeOK'
    BY <1>0, <2>1, <2>2, TypePrimed
  <2> QED BY <1>0, <2>1, <2>2, <2>3 DEF TypeInv
<1>19. CASE BulkSend
  <2>1. PICK n : n = Len(chip.fifo)
    OBVIOUS
  <2>2. /\ host.bulk > 0 /\ host.file \in Files
        /\ chip' \in Chips /\ Len(chip'.fifo) <= FifoDepth
        /\ host' \in HostStates /\ host'.pc = host.pc /\ host'.req = host.req
        /\ host'.count = host.count /\ host'.file = host.file
        /\ host'.next = host.next + 1 /\ host'.bulk = host.bulk - 1
        /\ UNCHANGED <<isr, ctl, main, upg, aborts, peer, seen>>
    BY <1>19, <2>1, BulkSendEffect
  <2>3. TypeOK'
    BY <1>0, <2>2, TypePrimed
  <2>4. host.bulk \in Nat /\ host.next \in Nat /\ Size[host.file] \in Nat
    BY <1>0, <2>2, FileFacts DEF HostStates
  <2>5. Bulk
    BY <2>2, <2>4 DEF TypeInv
  <2>6. ~(host.pc # "idle" /\ host.req.kind \in {"header", "block", "end"})
    BY <2>2, <2>4 DEF TypeInv
  <2> QED BY <1>0, <2>2, <2>3, <2>5, <2>6 DEF TypeInv
<1>20. CASE Abort
  <2>1. /\ aborts < peer.aborts /\ aborts' = aborts + 1 /\ aborts \in Nat
        /\ chip' \in Chips /\ chip'.fifo \in {chip.fifo, <<>>}
        /\ host' \in HostStates /\ host'.pc = "idle" /\ host'.bulk = 0
        /\ seen' \in Histories
        /\ UNCHANGED <<isr, ctl, main, upg, peer>>
    BY <1>0, <1>20, AbortEffect
  <2>2. Len(chip'.fifo) <= FifoDepth
    BY <1>0, <2>1 DEF FifoDepth
  <2>3. aborts' \in 0 .. peer'.aborts
    BY <1>0, <2>1, HostFacts
  <2>4. TypeOK'
    BY <1>0, <2>1, <2>2, <2>3, TypePrimed
  <2> QED BY <1>0, <2>1, <2>4 DEF TypeInv
<1>21. CASE UNCHANGED vars
  <2>1. TypeOK'
    BY <1>0, <1>21, TypePrimed DEF vars
  <2> QED BY <1>0, <1>21, <2>1, TypeKept DEF vars
<1> QED
  BY <1>1, <1>2, <1>3, <1>4, <1>5, <1>6, <1>7, <1>8, <1>9, <1>10, <1>11, <1>12, <1>13, <1>14, <1>15,
     <1>16, <1>17, <1>18, <1>19, <1>20, <1>21 DEF Next, Isr, Main, HostGoesOn

-----------------------------------------------------------------------------
\* A request from the SETUP packet to the answer, while the host gives nothing up.
ChipInv ==
    /\ isr \subseteq chip.ints /\ "reset" \notin chip.ints
    /\ "out" \in chip.ints => chip.out # NoPacket
    /\ seen.handled \in {0, 1}
    /\ chip.locked = chip.out.setup
    /\ "out" \in isr /\ "in" \in chip.ints \ isr => main.pc \notin {"count", "state"}
HostInv ==
    /\ host.pc \in {"read", "status"} => ToHost(host.req)
    /\ host.pc \in {"send", "ack"} => ~ToHost(host.req)
    /\ host.pc = "status" => seen.handled = 1 /\ ~chip.out.setup /\ main.pc \in Free
    /\ host.pc = "read" /\ ~chip.out.setup => "out" \notin chip.ints
    /\ host.pc # "idle" /\ chip.stall => host.req.kind \in {"reserved", "long"}
IdleInv ==
    host.pc = "idle" =>
       /\ ~chip.out.setup /\ ~ctl.setup /\ ctl.state # "RECEIVE" /\ main.pc \in Free
SetupInv ==
    chip.out.setup =>
       /\ host.pc # "idle" /\ chip.out.req = host.req /\ host.count = 0
       /\ chip.in = NoPacket /\ ~chip.stall /\ "out" \in chip.ints
       /\ seen.handled = 0
       /\ ~ctl.setup /\ ctl.state # "RECEIVE" /\ main.pc \in Free
\* The handler has read it, the main loop has not yet handled it.
TakenInv ==
    InHand /\ seen.handled = 0 =>
       /\ ctl.req = host.req /\ host.req.kind # "status"
       /\ chip.in = NoPacket
       /\ main.pc \in Free \cup {"handle"}
       /\ "in" \in chip.ints => ctl.state # "TRANSMIT" /\ main.pc \notin {"count", "state"}
       /\ main.pc = "handle" => ~ctl.setup /\ ctl.state # "RECEIVE"
       /\ ctl.setup => ctl.state # "RECEIVE"
       /\ chip.stall \/ host.req.kind = "long" => ~ctl.setup /\ ctl.state # "RECEIVE" /\ main.pc # "handle"
       /\ ctl.state = "RECEIVE" => host.req.kind \in WithData
       /\ ctl.state = "RECEIVE" /\ chip.out # NoPacket => chip.out.len >= 1 /\ chip.out.file = host.req.file
       /\ ctl.setup \/ main.pc = "handle" => ctl.file = host.req.file \/ host.req.kind # "header"
HandledInv ==
    InHand /\ seen.handled # 0 =>
       /\ ~ctl.setup /\ ctl.state # "RECEIVE" /\ main.pc \in Free \cup Busy
       /\ main.pc \in Busy => chip.in = NoPacket /\ ~chip.stall /\ "in" \notin chip.ints
       /\ main.pc \in Busy => main.req = host.req /\ main.req.kind # "status"
       /\ main.pc = "len" => main.req.kind = "header"
       /\ main.pc = "size" => main.req.kind = "end"
       /\ host.pc \in {"send", "ack"} => main.pc \notin {"count", "state"}
Requested == ChipInv /\ HostInv /\ IdleInv /\ SetupInv /\ TakenInv /\ HandledInv
OffInv == main.pc = "off" => host.pc = "idle" /\ host.bulk = 0 /\ isr = {}
RequestInv == aborts = 0 => seen.handled \in {0, 1} /\ OffInv /\ (main.pc # "off" => Requested)

LEMMA RequestedInterrupt ==
    ASSUME TypeInv, Requested, main.pc # "off", Interrupt
    PROVE  Requested'
<1>1. TypeOK
  BY DEF TypeInv
<1>2. /\ chip'.ints = chip.ints \ {"reset"}
      /\ chip'.out = chip.out /\ chip'.in = chip.in /\ chip'.locked = chip.locked
      /\ chip'.stall = chip.stall
      /\ isr' \in {{}, chip.ints}
      /\ seen'.handled = seen.handled
      /\ UNCHANGED <<ctl, main, upg, host, aborts, peer>>
  BY <1>1, InterruptEffect
<1> QED BY <1>2 DEF Requested, ChipInv, HostInv, IdleInv, SetupInv, TakenInv, HandledInv, InHand

LEMMA RequestedTxDone ==
    ASSUME TypeInv, Requested, main.pc # "off", TxDone
    PROVE  Requested'
<1>1. TypeOK
  BY DEF TypeInv
<1>2. PICK len, count :
        /\ len = IF ctl.wLength - ctl.wCount \in 0 .. 1 THEN ctl.wLength - ctl.wCount ELSE PacketSize
        /\ count = IF ctl.wLength - ctl.wCount < 2 THEN ctl.wLength ELSE ctl.wCount + 2
  OBVIOUS
<1>3. /\ chip'.ints = chip.ints \ {"in"} /\ isr' = isr \ {"in"} /\ "in" \in isr
      /\ chip'.out = chip.out /\ chip'.locked = chip.locked /\ chip'.stall = chip.stall
      /\ chip.locked => chip'.in = chip.in
      /\ ctl'.req = ctl.req /\ ctl'.setup = ctl.setup /\ ctl'.file = ctl.file
      /\ ctl.state # "TRANSMIT" => ctl'.state = ctl.state /\ chip'.in = chip.in
      /\ ctl.state = "TRANSMIT" => ctl'.state \in {"TRANSMIT", "IDLE"}
      /\ UNCHANGED <<main, upg, host, aborts, peer, seen>>
  <2>1. ctl \in Ctls /\ chip \in Chips
    BY <1>1, TypeParts
  <2>2. "in" \in isr /\ isr' = isr \ {"in"} /\ UNCHANGED <<main, upg, host, aborts, peer, seen>>
    BY DEF TxDone
  <2> QED BY <1>2, <2>1, <2>2, TxDoneEffect
<1> QED BY <1>3 DEF Requested, ChipInv, HostInv, IdleInv, SetupInv, TakenInv, HandledInv, InHand

LEMMA RequestedRxSetup ==
    ASSUME TypeInv, Requested, main.pc # "off", RxSetup
    PROVE  Requested'
<1>1. TypeOK
  BY DEF TypeInv
<1>2. PICK q : q = chip.out.req
  OBVIOUS
<1>3. /\ q \in Requests /\ chip.out.setup
      /\ "out" \in isr /\ "in" \notin isr /\ isr' = isr \ {"out"}
      /\ chip'.out = NoPacket /\ chip'.locked = FALSE /\ chip'.ints = chip.ints \ {"out"}
      /\ q.kind # "long" => chip'.stall = chip.stall
      /\ q.kind # "status" => chip'.in = chip.in
      /\ ctl'.req = q /\ ctl'.file = ctl.file
      /\ q.kind \in WithData \cup {"status", "long"} => ctl'.setup = ctl.setup
      /\ q.kind = "status" => ctl'.state = ctl.state
      /\ q.kind \in WithData => ctl'.state = "RECEIVE"
      /\ q.kind # "status" /\ q.kind \notin WithData => ctl'.state = "IDLE"
      /\ q.kind = "status" => seen'.handled = seen.handled + 1
      /\ q.kind # "status" => seen'.handled = seen.handled
      /\ UNCHANGED <<main, host, aborts, peer>>
  <2>1. ctl \in Ctls /\ chip \in Chips /\ upg \in Upgs /\ seen \in Histories
    BY <1>1, TypeParts
  <2>2. q.kind = "status" => seen'.handled = seen.handled + 1
    BY <1>2, <2>1, RxSetupEffect DEF Histories
  <2>3. q.kind \in WithData \cup {"status", "long"} => ctl'.setup = ctl.setup
    BY <1>2, <2>1, RxSetupEffect DEF Ctls
  <2>4. q.kind # "long" => chip'.stall = chip.stall
    BY <1>2, <2>1, RxSetupEffect DEF Chips
  <2>5. /\ q.kind = "status" => ctl'.state = ctl.state
        /\ q.kind \in WithData => ctl'.state = "RECEIVE"
        /\ q.kind # "status" /\ q.kind \notin WithData => ctl'.state = "IDLE"
    BY <1>2, <2>1, RxSetupEffect DEF WithData
  <2>6. chip'.locked = FALSE
    BY <1>2, <2>1, RxSetupEffect DEF Chips
  <2> QED BY <1>2, <2>1, <2>2, <2>3, <2>4, <2>5, <2>6, RxSetupEffect
<1>4. NoPacket.setup = FALSE
  BY NoPacketIs
<1>5. /\ host.pc # "idle" /\ q = host.req /\ host.count = 0 /\ chip.in = NoPacket /\ ~chip.stall
      /\ seen.handled = 0 /\ ~ctl.setup /\ ctl.state # "RECEIVE" /\ main.pc \in Free
      /\ "in" \notin isr /\ isr \subseteq chip.ints /\ "reset" \notin chip.ints
  BY <1>2, <1>3 DEF Requested, ChipInv, SetupInv
<1>6. InHand'
  BY <1>3, <1>4, <1>5 DEF InHand
<1>7. ChipInv' /\ HostInv' /\ IdleInv' /\ SetupInv'
  <2>1. ChipInv'
    <3>1. seen'.handled \in {0, 1}
      BY <1>3, <1>5
    <3> QED BY <1>3, <1>4, <1>5, <3>1 DEF ChipInv
  <2>2. HostInv'
    BY <1>3, <1>4, <1>5 DEF Requested, HostInv
  <2>3. IdleInv' /\ SetupInv'
    BY <1>3, <1>4, <1>5 DEF IdleInv, SetupInv
  <2> QED BY <2>1, <2>2, <2>3
<1>8. CASE q.kind = "status"
  <2>0. ToHost(host.req)
    BY <1>3, <1>5, <1>8, RequestShape
  <2>1. TakenInv' /\ HandledInv'
    BY <1>3, <1>5, <1>6, <1>8, <2>0 DEF Requested, HostInv, TakenInv, HandledInv, Free, Busy, WithData
  <2> QED BY <1>7, <2>1 DEF Requested
<1>9. CASE q.kind # "status"
  <2>1. /\ seen'.handled = 0 /\ chip'.in = NoPacket /\ ctl'.state # "TRANSMIT" 
        /\ ctl'.state = "RECEIVE" => q.kind \in WithData
        /\ ctl'.state \in {"RECEIVE", "IDLE"}
    BY <1>3, <1>5, <1>9 DEF WithData
  <2>2. /\ ctl'.setup => ctl'.state # "RECEIVE"
        /\ chip'.stall \/ q.kind = "long" => ~ctl'.setup /\ ctl'.state # "RECEIVE"
        /\ ctl'.setup => q.kind # "header"
    BY <1>3, <1>5, <1>9 DEF WithData
  <2>3. "in" \in chip'.ints => main.pc \notin {"count", "state"}
    BY <1>3, <1>5 DEF Requested, ChipInv
  <2>4. TakenInv'
    BY <1>3, <1>5, <1>6, <1>9, <2>1, <2>2, <2>3 DEF TakenInv, Free
  <2>5. HandledInv'
    BY <2>1 DEF HandledInv
  <2> QED BY <1>7, <2>4, <2>5 DEF Requested
<1> QED BY <1>8, <1>9

LEMMA RequestedRxData ==
    ASSUME TypeInv, Requested, main.pc # "off", RxData
    PROVE  Requested'
<1>1. TypeOK
  BY DEF TypeInv
<1>2. PICK n : n = IF chip.out = NoPacket THEN 0 ELSE chip.out.len
  OBVIOUS
<1>3. PICK last \in BOOLEAN : last <=> n # PacketSize \/ ctl.wCount + n >= ctl.wLength
  BY Zenon
<1>4. /\ chip.out.setup = FALSE
      /\ "out" \in isr /\ isr' = isr \ {"out"}
      /\ chip'.out = IF ctl.state = "RECEIVE" THEN NoPacket ELSE chip.out
      /\ chip'.ints = chip.ints \ {"out"}
      /\ chip'.in = chip.in /\ chip'.locked = chip.locked /\ chip'.stall = chip.stall
      /\ ctl'.req = ctl.req
      /\ ctl.state # "RECEIVE" => ctl'.state = "IDLE" /\ ctl'.setup = ctl.setup /\ ctl'.file = ctl.file
      /\ ctl.state = "RECEIVE" =>
            /\ ctl'.file = IF n = 0 THEN ctl.file ELSE chip.out.file
            /\ ctl'.setup = (ctl.setup \/ last)
            /\ ctl'.state = IF last THEN "IDLE" ELSE "RECEIVE"
      /\ UNCHANGED <<main, upg, host, aborts, peer, seen>>
  <2>1. ctl \in Ctls /\ chip \in Chips
    BY <1>1, TypeParts
  <2>2. ctl.state # "RECEIVE" => ctl'.state = "IDLE" /\ ctl'.setup = ctl.setup /\ ctl'.file = ctl.file
    BY <1>2, <1>3, <2>1, RxDataEffect DEF Ctls
  <2>3. chip.out.setup = FALSE
    BY <1>2, <1>3, <2>1, RxDataEffect, OutPacket
  <2> QED BY <1>2, <1>3, <2>1, <2>2, <2>3, RxDataEffect
<1>5. NoPacket.setup = FALSE
  BY NoPacketIs
<1>6. isr \subseteq chip.ints /\ ("out" \in chip.ints => chip.out # NoPacket)
  BY DEF Requested, ChipInv
<1> USE DEF Requested, ChipInv, HostInv, IdleInv, SetupInv, TakenInv, HandledInv, InHand
<1>7. CASE ctl.state # "RECEIVE"
  BY <1>4, <1>7
<1>8. CASE ctl.state = "RECEIVE"
  <2>1. InHand /\ seen.handled = 0
    BY <1>4, <1>8
  <2>2. /\ host.req.kind \in WithData /\ chip.out # NoPacket /\ n >= 1 /\ chip.out.file = host.req.file
        /\ ~ctl.setup /\ main.pc # "handle"
    BY <1>2, <1>4, <1>6, <1>8, <2>1
  <2>3. ctl'.file = host.req.file /\ ctl'.setup = last /\ ctl'.state \in {"IDLE", "RECEIVE"}
        /\ chip'.out = NoPacket
    BY <1>2, <1>4, <1>8, <2>2
  <2>4. ctl'.state = "RECEIVE" => ~ctl'.setup
    BY <1>4, <1>8, <2>2
  <2>5. host.req.kind # "long" /\ ~chip.stall
    BY <1>8, <2>1, <2>2 DEF WithData
  <2> QED BY <1>4, <1>5, <1>8, <2>1, <2>2, <2>3, <2>4, <2>5
<1> QED BY <1>7, <1>8

LEMMA RequestedMainRxDone ==
    ASSUME TypeInv, Requested, main.pc # "off", MainRxDone
    PROVE  Requested'
<1>1. TypeOK
  BY DEF TypeInv
<1>2. PICK n : n = Len(chip.fifo)
  OBVIOUS
<1>3. /\ isr = {"main"} /\ isr' = {}
      /\ chip'.out = chip.out /\ chip'.ints = chip.ints \ {"main"}
      /\ chip'.in = chip.in /\ chip'.locked = chip.locked /\ chip'.stall = chip.stall
      /\ UNCHANGED <<ctl, main, host, aborts, peer, seen>>
  BY <1>1, <1>2, MainRxDoneEffect
<1> QED BY <1>3 DEF Requested, ChipInv, HostInv, IdleInv, SetupInv, TakenInv, HandledInv, InHand

LEMMA RequestedLoop ==
    ASSUME TypeInv, Requested, main.pc # "off", Loop
    PROVE  Requested'
<1>1. TypeOK
  BY DEF TypeInv
<1>2. /\ main.pc = "loop" /\ Undisturbed /\ ctl.setup
      /\ main'.pc = "handle" /\ main'.req = main.req
      /\ ctl'.setup = FALSE /\ ctl'.state = ctl.state /\ ctl'.req = ctl.req /\ ctl'.file = ctl.file
      /\ UNCHANGED <<chip, isr, upg, host, aborts, peer, seen>>
  BY <1>1, LoopEffect
<1> QED BY <1>2 DEF Requested, ChipInv, HostInv, IdleInv, SetupInv, TakenInv, HandledInv, InHand, Undisturbed, Free, Busy

\* The main loop handles only what the host still waits for.
LEMMA RequestedHandle ==
    ASSUME TypeInv, Requested, NEW kinds, NEW place, Handles(kinds, place),
           \/ place \in {"ack", "answer", "check"}
           \/ place = "len" /\ kinds = {"header"}
           \/ place = "size" /\ kinds = {"end"},
           chip'.out = chip.out, chip'.in = chip.in, chip'.locked = chip.locked, chip'.ints = chip.ints,
           chip'.stall = chip.stall \/ (place = "check" /\ kinds = {"reserved", "long"})
    PROVE  Requested'
<1>1. /\ main.pc = "handle" /\ Undisturbed /\ ctl.req.kind \in kinds
      /\ main'.pc = place /\ main'.req = ctl.req
      /\ seen'.handled = seen.handled + 1
      /\ UNCHANGED <<isr, ctl, host, aborts, peer>>
  BY DEF Handles
<1>2. InHand /\ seen.handled = 0 /\ ~chip.stall
  BY <1>1 DEF Requested, ChipInv, IdleInv, SetupInv, TakenInv, HandledInv, InHand, Free, Busy
<1>3. InHand' /\ seen'.handled = 1
  BY <1>1, <1>2 DEF InHand
<1>4. ChipInv' /\ HostInv' /\ IdleInv' /\ SetupInv' /\ TakenInv'
  BY <1>1, <1>2, <1>3 DEF Requested, ChipInv, HostInv, IdleInv, SetupInv, TakenInv, InHand
<1>5. HandledInv'
  BY <1>1, <1>2, <1>3 DEF Requested, TakenInv, HandledInv, Undisturbed, Free, Busy
<1> QED BY <1>4, <1>5 DEF Requested

LEMMA RequestedMoves ==
    ASSUME TypeInv, Requested, NEW from, NEW to, Moves(from, to),
           seen'.handled = seen.handled, ctl'.req = ctl.req, ctl'.setup = ctl.setup, ctl'.file = ctl.file,
           ctl'.state = ctl.state \/ (from = "state" /\ ctl'.state \in {"TRANSMIT", "IDLE"}),
           from \in Free => to \in Free, to \in {"count", "state"} => from = "count",
           from \in {"len", "size"} => to = "ack",
           from \in Free \cup {"len", "size"}
    PROVE  Requested'
<1>1. /\ main.pc = from /\ Undisturbed
      /\ main'.pc = to /\ main'.req = main.req
      /\ UNCHANGED <<chip, isr, host, aborts, peer>>
  BY DEF Moves
<1> QED BY <1>1 DEF Requested, ChipInv, HostInv, IdleInv, SetupInv, TakenInv, HandledInv, InHand, Undisturbed, Free, Busy

LEMMA RequestedCheck ==
    ASSUME TypeInv, Requested, main.pc # "off", Check
    PROVE  Requested'
<1>1. TypeOK
  BY DEF TypeInv
<1>2. /\ main.pc = "check" /\ main'.pc \in {"burn", "loop"}
      /\ UNCHANGED <<chip, isr, ctl, upg, host, aborts, peer, seen>>
  BY <1>1, CheckEffect
<1> QED BY <1>2 DEF Requested, ChipInv, HostInv, IdleInv, SetupInv, TakenInv, HandledInv, InHand, Free, Busy

LEMMA RequestedSingleTransmit ==
    ASSUME TypeInv, Requested, main.pc # "off", SingleTransmit
    PROVE  Requested'
<1>1. PICK n : (ToHost(main.req) => n = 1) /\ (~ToHost(main.req) => n = 0)
  BY Zenon
<1>2. PICK s, p : /\ s = IF main.req.kind # "status" THEN ""
                         ELSE IF upg.status = "UNUSED" THEN "idle" ELSE "write"
                  /\ p = Answer(main.req.kind, 0, n, s)
  OBVIOUS
<1>3. /\ main.pc = "ack" /\ main'.pc = "check" /\ main'.req = main.req
      /\ chip'.out = chip.out /\ chip'.locked = chip.locked /\ chip'.stall = chip.stall
      /\ chip'.ints = chip.ints
      /\ UNCHANGED <<isr, ctl, upg, host, aborts, peer, seen>>
  BY <1>1, <1>2, SingleTransmitEffect DEF At
<1>4. InHand /\ seen.handled # 0
  BY <1>3 DEF Requested, IdleInv, SetupInv, TakenInv, InHand, Free
<1> QED BY <1>3, <1>4 DEF Requested, ChipInv, HostInv, IdleInv, SetupInv, TakenInv, HandledInv, InHand, Free, Busy

LEMMA RequestedFirstPacket ==
    ASSUME TypeInv, Requested, main.pc # "off", FirstPacket
    PROVE  Requested'
<1>1. PICK n : n = IF ctl.wLength <= Descriptor[main.req.kind] THEN ctl.wLength ELSE Descriptor[main.req.kind]
  OBVIOUS
<1>2. PICK sent : sent = IF n <= PacketSize THEN n ELSE PacketSize
  OBVIOUS
<1>3. /\ main.pc = "answer" /\ Undisturbed /\ main.req.kind \in {"device", "config", "vendor"}
      /\ main'.pc = "count" /\ main'.req = main.req
      /\ ctl'.req = ctl.req /\ ctl'.file = ctl.file /\ ctl'.setup = ctl.setup /\ ctl'.state = ctl.state
      /\ chip'.out = chip.out /\ chip'.locked = chip.locked /\ chip'.stall = chip.stall
      /\ chip'.ints = chip.ints
      /\ UNCHANGED <<isr, upg, host, aborts, peer, seen>>
  BY <1>1, <1>2, FirstPacketEffect, Descriptors DEF At
<1>4. InHand /\ seen.handled # 0 /\ main.req = host.req
  BY <1>3 DEF Requested, IdleInv, SetupInv, TakenInv, HandledInv, InHand, Free, Busy
<1>5. host.pc \notin {"send", "ack", "status"}
  <2>1. host.req \in Requests
    BY TypeParts DEF TypeInv, HostStates
  <2>2. ToHost(host.req)
    BY <1>3, <1>4, <2>1, RequestShape
  <2> QED BY <1>3, <2>2 DEF Requested, HostInv, Free
<1> QED BY <1>3, <1>4, <1>5 DEF Requested, ChipInv, HostInv, IdleInv, SetupInv, TakenInv, HandledInv, InHand, Free, Busy, Undisturbed

LEMMA RequestedNewRequest ==
    ASSUME TypeInv, Requested, main.pc # "off", NewRequest
    PROVE  Requested'
<1>1. TypeOK
  BY DEF TypeInv
<1>2. PICK q \in Requests :
         /\ host.pc = "idle"
         /\ chip'.out = Setup(q) /\ chip'.in = NoPacket /\ chip'.locked
         /\ ~chip'.stall /\ chip'.ints = chip.ints \cup {"out"}
         /\ host'.req = q /\ host'.count = 0
         /\ host'.pc = IF q.kind \in {"device", "config", "vendor", "short", "status", "reserved"} THEN "read"
                       ELSE IF q.kind \in {"header", "block", "long"} THEN "send" ELSE "ack"
         /\ seen'.handled = 0 /\ chip' \in Chips
         /\ UNCHANGED <<isr, ctl, main, upg, aborts, peer>>
  BY <1>1, NewRequestEffect
<1>3. /\ chip'.out.setup = TRUE /\ chip'.out.req = q /\ chip'.out # NoPacket /\ chip'.locked = TRUE
  BY <1>2 DEF Setup, NoPacket, Chips
<1>4. /\ host'.pc = "read" => ToHost(host'.req)
      /\ host'.pc \in {"send", "ack"} => ~ToHost(host'.req)
      /\ host'.pc \in {"read", "send", "ack"}
  BY <1>2, RequestShape
<1>5. /\ ~ctl.setup /\ ctl.state # "RECEIVE" /\ main.pc \in Free
  BY <1>2 DEF Requested, IdleInv
<1>6. ChipInv' /\ HostInv' /\ IdleInv'
  BY <1>2, <1>3, <1>4 DEF Requested, ChipInv, HostInv, IdleInv
<1>7. SetupInv' /\ TakenInv' /\ HandledInv'
  BY <1>2, <1>3, <1>4, <1>5 DEF SetupInv, TakenInv, HandledInv, InHand
<1> QED BY <1>6, <1>7 DEF Requested

LEMMA RequestedHostSend ==
    ASSUME TypeInv, Requested, main.pc # "off", HostSend
    PROVE  Requested'
<1>1. PICK n : n = IF PacketSize <= host.req.wLength - host.count
                   THEN PacketSize ELSE host.req.wLength - host.count
  OBVIOUS
<1>2. /\ host.pc = "send" /\ chip.out = NoPacket /\ ~chip.stall
      /\ n \in 1 .. PacketSize /\ chip'.out = Data(n, host.req.file) /\ chip'.in = chip.in
      /\ chip'.locked = chip.locked /\ chip'.stall = chip.stall
      /\ chip'.ints = chip.ints \cup {"out"}
      /\ host'.req = host.req /\ host'.pc \in {"send", "ack"}
      /\ UNCHANGED <<isr, ctl, main, upg, aborts, peer, seen>>
  BY <1>1, HostSendEffect
<1>3. /\ chip'.out # NoPacket /\ chip'.out.setup = FALSE /\ chip'.out.len = n
      /\ chip'.out.file = host.req.file
  <2>1. n \in 0 .. PacketSize
    BY <1>2
  <2>2. host.req.file \in Files \cup {NoFile}
    <3>1. host.req \in Requests
      BY TypeParts DEF TypeInv, HostStates
    <3> QED BY <3>1, RequestShape
  <2> QED BY <1>2, <2>1, <2>2, DataPacket
<1>4. InHand /\ chip.out.setup = FALSE /\ n >= 1
  BY <1>2, NoPacketIs DEF InHand
<1> QED BY <1>2, <1>3, <1>4 DEF Requested, ChipInv, HostInv, IdleInv, SetupInv, TakenInv, HandledInv, InHand

LEMMA RequestedHostAck ==
    ASSUME TypeInv, Requested, main.pc # "off", HostAck
    PROVE  Requested'
<1>1. PICK kind : kind = host.req.kind
  OBVIOUS
<1>2. /\ host.pc = "ack" /\ chip.in # NoPacket
      /\ chip'.in = NoPacket /\ chip'.ints = chip.ints \cup {"in"}
      /\ chip'.out = chip.out /\ chip'.locked = chip.locked /\ chip'.stall = chip.stall
      /\ host'.pc = "idle"
      /\ seen'.handled = seen.handled
      /\ UNCHANGED <<isr, ctl, main, upg, aborts, peer>>
  BY <1>1, HostAckEffect
<1>3. InHand /\ seen.handled # 0 /\ main.pc \in Free /\ main.pc \notin {"count", "state"}
      /\ ~ctl.setup /\ ctl.state # "RECEIVE"
  BY <1>2 DEF Requested, SetupInv, TakenInv, HandledInv, InHand
<1> QED BY <1>2, <1>3 DEF Requested, ChipInv, HostInv, IdleInv, SetupInv, TakenInv, HandledInv, InHand

LEMMA RequestedHostRead ==
    ASSUME TypeInv, Requested, main.pc # "off", HostRead
    PROVE  Requested'
<1>1. PICK p : p = chip.in
  OBVIOUS
<1>2. /\ host.pc = "read" /\ chip.in # NoPacket
      /\ chip'.in = NoPacket /\ chip'.ints = chip.ints \cup {"in"}
      /\ chip'.out = chip.out /\ chip'.locked = chip.locked /\ chip'.stall = chip.stall
      /\ host'.req = host.req /\ host'.pc \in {"read", "status"}
      /\ seen'.handled = seen.handled
      /\ UNCHANGED <<isr, ctl, main, upg, aborts, peer>>
  BY <1>1, HostReadEffect
<1>3. /\ InHand /\ seen.handled = 1 /\ main.pc \in Free
      /\ ~ctl.setup /\ ctl.state # "RECEIVE" /\ "out" \notin isr
  BY <1>2 DEF Requested, ChipInv, HostInv, SetupInv, TakenInv, HandledInv, InHand
<1> QED BY <1>2, <1>3 DEF Requested, ChipInv, HostInv, IdleInv, SetupInv, TakenInv, HandledInv, InHand, Free, Busy

LEMMA RequestedHostStatus ==
    ASSUME TypeInv, Requested, main.pc # "off", HostStatus
    PROVE  Requested'
<1>1. /\ host.pc = "status" /\ chip.out = NoPacket
      /\ chip'.out = Data(0, NoFile) /\ chip'.in = chip.in
      /\ chip'.locked = chip.locked /\ chip'.stall = chip.stall
      /\ chip'.ints = chip.ints \cup {"out"} /\ host' = Idle
      /\ UNCHANGED <<isr, ctl, main, upg, aborts, peer, seen>>
  BY HostStatusEffect
<1>2. host'.pc = "idle"
  BY <1>1, IdleIs, TypeParts DEF TypeInv
<1>3. chip'.out # NoPacket /\ chip'.out.setup = FALSE /\ chip.out.setup = FALSE
  BY <1>1, NoneOrOne, DataPacket, NoPacketIs
<1>4. InHand /\ seen.handled = 1 /\ main.pc \in Free
  BY <1>1, <1>3 DEF Requested, HostInv, InHand
<1>5. ~ctl.setup /\ ctl.state # "RECEIVE"
  BY <1>4 DEF Requested, HandledInv
<1>6. ChipInv'
  BY <1>1, <1>3 DEF Requested, ChipInv
<1>7. HostInv' /\ IdleInv' /\ SetupInv' /\ TakenInv' /\ HandledInv'
  BY <1>1, <1>2, <1>3, <1>4, <1>5 DEF HostInv, IdleInv, SetupInv, TakenInv, HandledInv, InHand
<1> QED BY <1>6, <1>7 DEF Requested

LEMMA RequestedHostStalled ==
    ASSUME TypeInv, Requested, main.pc # "off", HostStalled
    PROVE  Requested'
<1>1. host.pc # "idle" /\ chip.stall /\ host' = Idle /\ UNCHANGED <<chip, isr, ctl, main, upg, aborts, peer, seen>>
  BY DEF HostStalled
<1>2. host'.pc = "idle"
  BY <1>1, IdleIs, TypeParts DEF TypeInv
<1>3. /\ ~chip.out.setup /\ ~ctl.setup /\ ctl.state # "RECEIVE" /\ main.pc \in Free
  BY <1>1 DEF Requested, SetupInv, TakenInv, HandledInv, InHand
<1> QED BY <1>1, <1>2, <1>3 DEF Requested, ChipInv, HostInv, IdleInv, SetupInv, TakenInv, HandledInv, InHand

LEMMA RequestedBulkSend ==
    ASSUME TypeInv, Requested, main.pc # "off", BulkSend
    PROVE  Requested'
<1>1. PICK n : n = Len(chip.fifo)
  OBVIOUS
<1>2. /\ chip'.ints = chip.ints \cup {"main"}
      /\ chip'.out = chip.out /\ chip'.in = chip.in
      /\ chip'.locked = chip.locked /\ chip'.stall = chip.stall
      /\ host'.pc = host.pc /\ host'.req = host.req /\ host'.count = host.count
      /\ UNCHANGED <<isr, ctl, main, upg, aborts, peer, seen>>
  BY <1>1, BulkSendEffect
<1> QED BY <1>2 DEF Requested, ChipInv, HostInv, IdleInv, SetupInv, TakenInv, HandledInv, InHand

\* Nothing happens in a box that is off: the host has been told of it by the cable.
LEMMA OffStep ==
    ASSUME main.pc = "off", host.pc = "idle", host.bulk = 0, isr = {}
    PROVE  ~Next
<1>1. ~Isr
  BY DEF Isr, Interrupt, TxDone, RxSetup, RxData, MainRxDone, Handler
<1>2. ~(Loop \/ PowerKey \/ HandleShort \/ HandleClear \/ HandleReserved \/ HandleDescriptor \/ HandleHeader
        \/ HandleEnd)
  BY DEF Loop, PowerKey, HandleShort, HandleClear, HandleReserved, HandleDescriptor, HandleHeader,
         HandleEnd, Dispatch, At
<1>3. ~(ResetLen \/ CheckSize \/ SingleTransmit \/ FirstPacket \/ CountPacket \/ SetState \/ Check)
  BY DEF ResetLen, CheckSize, SingleTransmit, FirstPacket, CountPacket, SetState, Check, At
<1>4. ~(BurnFails \/ BurnErase \/ BurnWrite \/ BurnDone \/ BurnReturns)
  BY DEF BurnFails, BurnErase, BurnWrite, BurnDone, BurnReturns, At
<1>5. ~(NewRequest \/ HostGoesOn)
  BY DEF NewRequest, HostGoesOn, HostSend, HostAck, HostRead, HostStatus, HostStalled
<1>6. ~(BulkSend \/ Abort)
  BY DEF BulkSend, Abort
<1> QED BY Zenon, <1>1, <1>2, <1>3, <1>4, <1>5, <1>6 DEF Next, Main

LEMMA RequestedStep ==
    ASSUME TypeInv, Requested, main.pc # "off", Next, ~Abort, ~PowerKey
    PROVE  Requested'
<1>0. TypeOK
  BY DEF TypeInv
<1>1. CASE HandleShort
  <2>1. Handles({"short", "status", "set", "block"}, "ack") /\ UNCHANGED chip
    BY <1>0, <1>1, HandleShortEffect
  <2> QED BY <2>1, RequestedHandle
<1>2. CASE HandleClear
  <2>1. Handles({"clear"}, "check") /\ UNCHANGED chip
    BY <1>0, <1>2, HandleClearEffect
  <2> QED BY <2>1, RequestedHandle
<1>3. CASE HandleReserved
  <2>1. /\ Handles({"reserved", "long"}, "check")
        /\ chip'.out = chip.out /\ chip'.in = chip.in /\ chip'.locked = chip.locked /\ chip'.ints = chip.ints
    BY <1>0, <1>3, HandleReservedEffect
  <2> QED BY <2>1, RequestedHandle
<1>4. CASE HandleDescriptor
  <2>1. Handles({"device", "config", "vendor"}, "answer") /\ UNCHANGED chip
    BY <1>0, <1>4, HandleDescriptorEffect
  <2> QED BY <2>1, RequestedHandle
<1>5. CASE HandleHeader
  <2>1. (Handles({"header"}, "ack") \/ Handles({"header"}, "len")) /\ UNCHANGED chip
    BY <1>0, <1>5, HandleHeaderEffect
  <2> QED BY <2>1, RequestedHandle
<1>6. CASE HandleEnd
  <2>1. (Handles({"end"}, "ack") \/ Handles({"end"}, "size")) /\ UNCHANGED chip
    BY <1>0, <1>6, HandleEndEffect
  <2> QED BY <2>1, RequestedHandle
<1>7. CASE ResetLen
  <2>1. Moves("len", "ack") /\ UNCHANGED <<ctl, seen>>
    BY <1>0, <1>7, ResetLenEffect
  <2> QED BY <2>1, RequestedMoves DEF Free
<1>8. CASE CheckSize
  <2>1. Moves("size", "ack") /\ UNCHANGED <<ctl, seen>>
    BY <1>0, <1>8, CheckSizeEffect
  <2> QED BY <2>1, RequestedMoves DEF Free
<1>9. CASE CountPacket
  <2>1. /\ Moves("count", "state") /\ UNCHANGED seen
        /\ ctl'.req = ctl.req /\ ctl'.file = ctl.file /\ ctl'.setup = ctl.setup /\ ctl'.state = ctl.state
    BY <1>0, <1>9, CountPacketEffect
  <2> QED BY <2>1, RequestedMoves DEF Free
<1>10. CASE SetState
  <2>1. /\ Moves("state", "check") /\ UNCHANGED seen
        /\ ctl'.req = ctl.req /\ ctl'.file = ctl.file /\ ctl'.setup = ctl.setup
        /\ ctl'.state \in {"TRANSMIT", "IDLE"}
    BY <1>0, <1>10, SetStateEffect
  <2> QED BY <2>1, RequestedMoves DEF Free
<1>11. CASE BurnFails \/ BurnErase \/ BurnWrite \/ BurnReturns
  <2>1. /\ \E from, to \in {"burn", "erase", "write", "burnt", "loop"} : Moves(from, to)
        /\ UNCHANGED <<ctl, seen>>
    BY <1>0, <1>11, BurnEffect
  <2>2. PICK from, to \in {"burn", "erase", "write", "burnt", "loop"} : Moves(from, to)
    BY <2>1
  <2>3. from \in Free /\ to \in Free /\ from \notin {"len", "size"} /\ to \notin {"count", "state"}
    BY <2>2 DEF Free
  <2> QED BY <2>1, <2>2, <2>3, RequestedMoves
<1>12. CASE BurnDone
  <2>1. Moves("write", "burnt") /\ UNCHANGED ctl /\ seen'.handled = seen.handled
    BY <1>0, <1>12, BurnDoneEffect
  <2> QED BY <2>1, RequestedMoves DEF Free
<1> QED
  BY <1>1, <1>2, <1>3, <1>4, <1>5, <1>6, <1>7, <1>8, <1>9, <1>10, <1>11, <1>12, RequestedInterrupt,
     RequestedTxDone, RequestedRxSetup, RequestedRxData, RequestedMainRxDone, RequestedLoop, RequestedCheck,
     RequestedSingleTransmit, RequestedFirstPacket, RequestedNewRequest, RequestedHostSend,
     RequestedHostAck, RequestedHostRead, RequestedHostStatus, RequestedHostStalled, RequestedBulkSend
  DEF Next, Isr, Main, HostGoesOn

LEMMA AbortsGrow ==
    ASSUME TypeInv, Next
    PROVE  IF Abort THEN aborts' # 0 ELSE aborts' = aborts
<1>1. CASE Abort
  BY <1>1, AbortEffect DEF TypeInv
<1>2. CASE ~Abort
  BY <1>2 DEF Next, Isr, Main, HostGoesOn, Interrupt, TxDone, RxSetup, RxData, MainRxDone, Loop, PowerKey,
     HandleShort, HandleClear, HandleReserved, HandleDescriptor, HandleHeader, HandleEnd, Dispatch, ResetLen,
     CheckSize, SingleTransmit, FirstPacket, CountPacket, SetState, Check, BurnFails, BurnErase, BurnWrite,
     BurnDone, BurnReturns, NewRequest, HostSend, HostAck, HostRead, HostStatus, HostStalled, BulkSend
<1> QED BY <1>1, <1>2

LEMMA TypeInit ==
    ASSUME Init
    PROVE  TypeInv
<1>1. /\ NoPacket \in Packets /\ NoPacket \in AnswerPackets /\ NoRequest \in Requests
      /\ 0 \in 0 .. PacketSize /\ "loop" \in Places
  BY NoPacketIs, NoRequestIs, NoneOrOne DEF Places
<1>2. chip \in Chips /\ Len(chip.fifo) <= FifoDepth
  <2>1. <<>> \in Seq(Contents) /\ Len(<<>>) <= FifoDepth
    BY DEF FifoDepth
  <2>2. chip = [out |-> NoPacket, in |-> NoPacket, locked |-> FALSE, stall |-> FALSE,
               ints |-> {}, fifo |-> <<>>]
    BY DEF Init
  <2> QED BY <1>1, <2>1, <2>2 DEF Chips
<1>3. ctl \in Ctls
  <2>1. ctl = [req |-> NoRequest, wLength |-> 0, wCount |-> 0, pData |-> "device",
              file |-> NoFile, setup |-> FALSE, state |-> "IDLE"]
    BY DEF Init
  <2>2. "device" \in DOMAIN Descriptor /\ NoFile \in Files \cup {NoFile}
    BY Descriptors
  <2> QED BY <1>1, <2>1, <2>2 DEF Ctls
<1>4. main \in Mains /\ main.pc = "loop"
  BY <1>1 DEF Init, Mains
<1>5. upg \in Upgs
  <2>1. upg = [status |-> "UNUSED", errorno |-> 0, len |-> 0, header |-> NoFile,
              buf |-> [k \in 1 .. LenBound |-> Nothing]]
    BY DEF Init
  <2>2. PICK b \in [1 .. LenBound -> Contents \cup {Nothing, Foreign}] : b = [k \in 1 .. LenBound |-> Nothing]
    OBVIOUS
  <2>3. 0 \in 0 .. LenBound /\ "UNUSED" \in Statuses
    BY FileFacts DEF Statuses
  <2>4. upg = [status |-> "UNUSED", errorno |-> 0, len |-> 0, header |-> NoFile, buf |-> b]
    BY <2>1, <2>2
  <2> QED BY <2>3, <2>4 DEF Upgs
<1>6. host \in HostStates /\ host.pc = "idle" /\ host.bulk = 0
  <2>1. host = [pc |-> "idle", req |-> NoRequest, count |-> 0,
               file |-> NoFile, next |-> 1, bulk |-> 0]
    BY DEF Init
  <2>2. 1 \in 1 .. LenBound /\ 0 \in 0 .. BlockSize
    BY FileFacts
  <2> QED BY <1>1, <2>1, <2>2 DEF HostStates
<1>7. peer \in Hosts /\ aborts \in 0 .. peer.aborts
  <2>1. peer \in Hosts /\ aborts = 0
    BY DEF Init
  <2> QED BY <2>1, HostFacts
<1>8. seen \in Histories
  BY DEF Init, Histories, Answers
<1>9. isr \subseteq Interrupts \ {"reset"}
  BY DEF Init
<1>10. TypeOK
  BY <1>2, <1>3, <1>4, <1>5, <1>6, <1>7, <1>8, <1>9, TypeParts
<1> QED BY <1>4, <1>6, <1>10 DEF TypeInv

LEMMA RequestInit ==
    ASSUME Init
    PROVE  RequestInv
<1>1. /\ chip = [out |-> NoPacket, in |-> NoPacket, locked |-> FALSE, stall |-> FALSE,
                 ints |-> {}, fifo |-> <<>>]
      /\ isr = {}
  BY DEF Init
<1>2. ctl.setup = FALSE /\ ctl.state = "IDLE" /\ main.pc = "loop" /\ host.pc = "idle" /\ seen.handled = 0
  BY DEF Init
<1>3. /\ chip.out.setup = FALSE /\ chip.locked = FALSE /\ chip.ints = {}
  BY <1>1, NoPacketIs
<1> QED BY <1>1, <1>2, <1>3 DEF RequestInv, OffInv, Requested, ChipInv, HostInv, IdleInv, SetupInv, TakenInv,
                                HandledInv, InHand, Free

LEMMA RequestStep ==
    ASSUME TypeInv, RequestInv, [Next]_vars
    PROVE  RequestInv'
<1>1. CASE UNCHANGED vars
  <2>1. UNCHANGED <<chip, isr, ctl, main, upg, host, aborts, peer, seen>>
    BY <1>1 DEF vars
  <2> QED BY <2>1 DEF RequestInv, OffInv, Requested, ChipInv, HostInv, IdleInv, SetupInv, TakenInv, HandledInv, InHand
<1>2. CASE Next
  <2> SUFFICES ASSUME aborts' = 0
               PROVE  seen'.handled \in {0, 1} /\ OffInv' /\ (main'.pc # "off" => Requested')
    BY DEF RequestInv
  <2>1. ~Abort /\ aborts = 0
    BY <1>2, AbortsGrow
  <2>2. seen.handled \in {0, 1} /\ OffInv /\ (main.pc # "off" => Requested)
    BY <2>1 DEF RequestInv
  <2>3. main.pc # "off" /\ Requested
    BY <1>2, <2>2, OffStep DEF OffInv
  <2>4. CASE PowerKey
    BY <2>2, <2>4, PowerKeyEffect DEF TypeInv, OffInv, Undisturbed
  <2>5. CASE ~PowerKey
    <3>1. Requested'
      BY <1>2, <2>1, <2>3, <2>5, RequestedStep
    <3>2. main'.pc # "off"
      BY <3>1 DEF Requested, IdleInv, SetupInv, TakenInv, HandledInv, InHand, Free, Busy
    <3> QED BY <3>1, <3>2 DEF OffInv, Requested, ChipInv
  <2> QED BY <2>4, <2>5
<1> QED BY <1>1, <1>2

LEMMA OncePerRequest ==
    ASSUME TypeInv, RequestInv
    PROVE  HandledOnce
<1> SUFFICES ASSUME aborts = 0
             PROVE  /\ seen.handled <= 1
                    /\ host.pc = "status" => seen.handled = 1
                    /\ host.pc = "ack" /\ chip.in # NoPacket => seen.handled = 1
  BY DEF HandledOnce, Orderly
<1>1. CASE main.pc = "off"
  BY <1>1 DEF RequestInv, OffInv
<1>2. CASE main.pc # "off"
  BY <1>2 DEF RequestInv, Requested, ChipInv, HostInv, SetupInv, TakenInv, InHand
<1> QED BY <1>1, <1>2

\* Each state is one of the program's, for any files, any buffer and any hosts.
THEOREM TypeCorrect == Spec => []TypeOK
<1>1. Init => TypeInv
  BY TypeInit
<1>2. TypeInv /\ [Next]_vars => TypeInv'
  BY TypeStep
<1>3. TypeInv => TypeOK
  BY DEF TypeInv
<1> QED BY <1>1, <1>2, <1>3, PTL DEF Spec

\* While the host gives nothing up, a request is handled exactly once before the
\* host has its answer, by ep0_rxdone or by the main loop, however their steps,
\* further packets and a burn in progress interleave.
THEOREM RequestsHandledOnce == Spec => []HandledOnce
<1>1. Init => TypeInv /\ RequestInv
  BY TypeInit, RequestInit
<1>2. TypeInv /\ RequestInv /\ [Next]_vars => TypeInv' /\ RequestInv'
  BY TypeStep, RequestStep
<1>3. TypeInv /\ RequestInv => HandledOnce
  BY OncePerRequest
<1> QED BY <1>1, <1>2, <1>3, PTL DEF Spec

-----------------------------------------------------------------------------
\* What the upgrade buffer holds, while no file was refused.
Burning == {"burn", "erase", "write", "burnt"}
\* The end of the download is handled, and the host has not yet read so.
Ending == InHand /\ host.req.kind = "end" /\ seen.handled # 0
Stored == \A k \in 1 .. upg.len :
    upg.buf[k] = <<upg.header, k>> \/ (k = 1 /\ upg.buf[1] = Foreign /\ seen.clobbered)
PlaceInv ==
    /\ main.pc \in {"loop", "count", "state", "handle", "answer"} => upg.status \in {"UNUSED", "DOWNLOAD"}
    /\ main.pc = "len" => upg.status = "DOWNLOAD"
    /\ main.pc \in {"ack", "check"} => upg.status # "ERASE"
    /\ main.pc \in {"size", "burn", "write"} => upg.status = "WRITE"
    /\ main.pc = "erase" => upg.status = "ERASE"
    /\ main.pc = "burnt" => upg.status # "DOWNLOAD"
FifoInv ==
    /\ host.pc # "idle" /\ host.req.kind \in {"header", "block", "end", "status"} => host.bulk = 0
    /\ host.pc # "idle" /\ host.req.kind \in {"block", "end"} => host.file # NoFile
    /\ host.pc # "idle" /\ host.req.kind = "header" => host.file = NoFile
    /\ chip.fifo # <<>> =>
          "main" \in chip.ints /\ upg.status = "DOWNLOAD" /\ main.pc \notin {"len"} \cup Burning
HeaderInv ==
    InHand /\ host.req.kind = "header" /\ seen.handled # 0 =>
       /\ upg.status = "DOWNLOAD" /\ upg.header = host.req.file /\ chip.fifo = <<>>
       /\ main.pc # "len" => upg.len = 0
       /\ main.pc \notin Burning
CountInv ==
    host.file # NoFile =>
       /\ upg.header = host.file /\ host.next = upg.len + Len(chip.fifo) + 1
       /\ host.next + host.bulk <= Size[host.file] + 1
       /\ main.pc # "len"
       /\ ~Ending => upg.status = "DOWNLOAD" /\ main.pc \notin Burning \cup {"size"}
Arriving ==
    /\ upg.header \in Files /\ upg.len + Len(chip.fifo) <= Size[upg.header] /\ Stored
    /\ \A j \in 1 .. Len(chip.fifo) : chip.fifo[j] = <<upg.header, upg.len + j>>
Complete == upg.header \in Files /\ upg.len = Size[upg.header] /\ Stored
ContentsInv ==
    /\ (main.pc # "len" /\ upg.status = "DOWNLOAD") \/ main.pc = "size" => Arriving
    /\ (upg.status = "WRITE" /\ main.pc \in {"ack", "check"}) \/ main.pc \in {"burn", "erase", "write"} => Complete
Filed == PlaceInv /\ FifoInv /\ HeaderInv /\ CountInv /\ ContentsInv
FileInv == aborts = 0 /\ main.pc # "off" /\ ~seen.refused => Filed

\* Steps that leave the buffer and the download alone.
LEMMA FiledKept ==
    ASSUME Filed, UNCHANGED <<main, host>>,
           upg'.status = upg.status, upg'.len = upg.len, upg'.header = upg.header, upg'.buf = upg.buf,
           chip'.fifo = chip.fifo, "main" \in chip.ints => "main" \in chip'.ints,
           seen'.clobbered = seen.clobbered,
           InHand' /\ seen'.handled # 0 /\ host.req.kind \in {"header", "end"} => InHand /\ seen.handled # 0,
           InHand /\ seen.handled # 0 /\ host.req.kind = "end" => InHand' /\ seen'.handled # 0
    PROVE  Filed'
<1>1. PlaceInv' /\ FifoInv' /\ HeaderInv'
  BY DEF Filed, PlaceInv, FifoInv, HeaderInv
<1>2. CountInv'
  BY DEF Filed, CountInv, Ending
<1>3. (Arriving => Arriving') /\ (Complete => Complete')
  BY DEF Arriving, Complete, Stored
<1>4. ContentsInv'
  BY <1>3 DEF Filed, ContentsInv
<1> QED BY <1>1, <1>2, <1>4 DEF Filed

LEMMA FiledIsr ==
    ASSUME TypeInv, Requested, main.pc # "off", Filed, Interrupt \/ TxDone \/ RxSetup \/ RxData
    PROVE  Filed'
<1>0. TypeOK /\ ctl \in Ctls /\ chip \in Chips /\ upg \in Upgs /\ seen \in Histories
  BY TypeParts DEF TypeInv
<1>1. CASE Interrupt
  <2>1. /\ chip'.ints = chip.ints \ {"reset"} /\ chip'.out = chip.out /\ chip'.fifo = chip.fifo
        /\ seen'.handled = seen.handled /\ seen'.clobbered = seen.clobbered
        /\ UNCHANGED <<ctl, main, upg, host, aborts, peer>>
    BY <1>0, <1>1, InterruptEffect
  <2> QED BY <2>1, FiledKept DEF InHand
<1>2. CASE TxDone
  <2>1. PICK len, count :
          /\ len = IF ctl.wLength - ctl.wCount \in 0 .. 1 THEN ctl.wLength - ctl.wCount ELSE PacketSize
          /\ count = IF ctl.wLength - ctl.wCount < 2 THEN ctl.wLength ELSE ctl.wCount + 2
    OBVIOUS
  <2>2. chip'.out = chip.out /\ chip'.ints = chip.ints \ {"in"} /\ chip'.fifo = chip.fifo
    BY <1>0, <1>2, <2>1, TxDoneEffect
  <2>3. UNCHANGED <<main, upg, host, aborts, peer, seen>>
    BY <1>2 DEF TxDone
  <2> QED BY <2>2, <2>3, FiledKept DEF InHand
<1>3. CASE RxSetup
  <2>1. PICK q : q = chip.out.req
    OBVIOUS
  <2>2. /\ chip.out.setup /\ chip'.out = NoPacket /\ chip'.ints = chip.ints \ {"out"} /\ chip'.fifo = chip.fifo
        /\ q.kind # "status" => seen' = seen
        /\ UNCHANGED <<main, host, aborts, peer>>
    BY <1>0, <1>3, <2>1, RxSetupEffect
  <2>3. /\ upg'.status = upg.status /\ upg'.len = upg.len /\ upg'.header = upg.header /\ upg'.buf = upg.buf
        /\ seen'.clobbered = seen.clobbered
    <3>1. upg' = upg \/ upg' = [upg EXCEPT !.errorno = 0]
      BY <1>0, <1>3, <2>1, RxSetupEffect
    <3>2. seen' = seen \/ seen' = [seen EXCEPT !.handled = @ + 1]
      BY <1>0, <1>3, <2>1, RxSetupEffect
    <3> QED BY <1>0, <3>1, <3>2 DEF Upgs, Histories
  <2>4. q = host.req /\ seen.handled = 0
    BY <2>1, <2>2 DEF Requested, SetupInv
  <2>5. host.req.kind \in {"header", "end"} => seen'.handled = 0
    BY <2>2, <2>4
  <2>6. ~InHand
    BY <2>2 DEF InHand
  <2> QED BY <2>2, <2>3, <2>5, <2>6, FiledKept
<1>4. CASE RxData
  <2>1. PICK n : n = IF chip.out = NoPacket THEN 0 ELSE chip.out.len
    OBVIOUS
  <2>2. PICK last \in BOOLEAN : last <=> n # PacketSize \/ ctl.wCount + n >= ctl.wLength
    BY Zenon
  <2>3. /\ ~chip.out.setup /\ chip'.out \in {chip.out, NoPacket}
        /\ chip'.ints = chip.ints \ {"out"} /\ chip'.fifo = chip.fifo
        /\ UNCHANGED <<main, upg, host, aborts, peer, seen>>
    BY <1>0, <1>4, <2>1, <2>2, RxDataEffect
  <2>4. InHand' = InHand
    BY <2>3, NoPacketIs DEF InHand
  <2> QED BY <2>3, <2>4, FiledKept
<1> QED BY <1>1, <1>2, <1>3, <1>4

LEMMA FiledMainRxDone ==
    ASSUME TypeInv, Requested, main.pc # "off", Filed, MainRxDone
    PROVE  Filed'
<1>0. TypeOK /\ upg \in Upgs /\ LenBound \in Nat
  BY TypeParts, FileFacts DEF TypeInv
<1>1. PICK n : n = Len(chip.fifo)
  OBVIOUS
<1>2. /\ n \in 0 .. FifoDepth /\ chip' \in Chips /\ chip'.out = chip.out /\ chip'.ints = chip.ints \ {"main"}
      /\ upg' \in Upgs
      /\ upg'.status = upg.status /\ upg'.header = upg.header
      /\ upg.status # "DOWNLOAD" => upg' = upg /\ chip'.fifo = chip.fifo
      /\ upg.status = "DOWNLOAD" =>
            /\ chip'.fifo = <<>>
            /\ upg'.len = IF upg.len + n <= LenBound THEN upg.len + n ELSE LenBound
            /\ \A k \in 1 .. LenBound :
                  upg'.buf[k] = IF k - upg.len \in 1 .. n THEN chip.fifo[k - upg.len] ELSE upg.buf[k]
      /\ UNCHANGED <<ctl, main, host, aborts, peer, seen>>
  BY <1>0, <1>1, MainRxDoneEffect
<1>3. chip.fifo \in Seq(Contents) /\ upg.len \in Nat /\ upg.len <= LenBound
  BY <1>0, TypeParts DEF Chips, Upgs
<1>4. n \in Nat
  BY <1>2 DEF FifoDepth
<1>5. n = 0 <=> chip.fifo = <<>>
  BY <1>1, <1>3
<1>6. CASE upg.status # "DOWNLOAD"
  <2>1. chip.fifo = <<>>
    BY <1>6 DEF Filed, FifoInv
  <2>2. PlaceInv' /\ FifoInv' /\ HeaderInv' /\ CountInv'
    BY <1>2, <1>6, <2>1 DEF Filed, PlaceInv, FifoInv, HeaderInv, CountInv, Ending, InHand
  <2>3. (Arriving => Arriving') /\ (Complete => Complete')
    BY <1>2, <1>6 DEF Arriving, Complete, Stored
  <2> QED BY <1>2, <1>6, <2>2, <2>3 DEF Filed, ContentsInv
<1>7. CASE upg.status = "DOWNLOAD" /\ main.pc = "len"
  <2>1. n = 0
    BY <1>5, <1>7 DEF Filed, FifoInv
  <2>2. upg'.len = upg.len /\ chip'.fifo = <<>>
    BY <1>2, <1>3, <1>7, <2>1
  <2> QED BY <1>2, <1>7, <2>2 DEF Filed, PlaceInv, FifoInv, HeaderInv, CountInv, ContentsInv, Ending, InHand
<1>8. CASE upg.status = "DOWNLOAD" /\ main.pc # "len"
  <2>1. Arriving /\ upg.header \in Files /\ Size[upg.header] \in Nat /\ Size[upg.header] < LenBound
    BY <1>8, FileFacts DEF Filed, ContentsInv, Arriving
  <2>2. upg'.len = upg.len + n /\ upg.len + n <= Size[upg.header] /\ chip'.fifo = <<>> /\ Len(chip'.fifo) = 0
    <3>1. upg.len + n <= Size[upg.header]
      BY <1>1, <2>1 DEF Arriving
    <3>2. upg.len + n <= LenBound
      BY <1>0, <1>3, <1>4, <2>1, <3>1
    <3> QED BY <1>2, <1>8, <3>1, <3>2
  <2>3. Stored'
    <3> SUFFICES ASSUME NEW k \in 1 .. upg.len + n
                 PROVE  upg'.buf[k] = <<upg.header, k>> \/ (k = 1 /\ upg'.buf[1] = Foreign /\ seen.clobbered)
      BY <1>2, <2>2 DEF Stored
    <3>0. k \in 1 .. LenBound /\ 1 \in 1 .. LenBound
      BY <1>0, <1>3, <1>4, <2>1, <2>2
    <3>1. CASE k \in 1 .. upg.len
      <4>1. upg'.buf[k] = upg.buf[k]
        BY <1>2, <1>3, <1>4, <1>8, <3>0, <3>1
      <4>2. upg.buf[k] = <<upg.header, k>> \/ (k = 1 /\ upg.buf[1] = Foreign /\ seen.clobbered)
        BY <2>1, <3>1 DEF Arriving, Stored
      <4> QED BY <4>1, <4>2
    <3>2. CASE k \notin 1 .. upg.len
      <4>1. PICK j \in 1 .. n : j = k - upg.len /\ upg.len + j = k
        BY <1>3, <1>4, <3>2
      <4>2. upg'.buf[k] = chip.fifo[j]
        BY <1>2, <1>8, <3>0, <4>1
      <4>3. chip.fifo[j] = <<upg.header, upg.len + j>>
        BY <1>1, <2>1 DEF Arriving
      <4> QED BY <4>1, <4>2, <4>3
    <3> QED BY <3>1, <3>2
  <2>4. Arriving'
    <3>1. 1 .. Len(chip'.fifo) = {}
      BY <2>2
    <3>2. upg'.len + Len(chip'.fifo) <= Size[upg'.header]
      BY <1>2, <1>3, <1>4, <2>1, <2>2
    <3> QED BY <1>2, <2>1, <2>3, <3>1, <3>2 DEF Arriving
  <2>5. PlaceInv' /\ FifoInv'
    BY <1>2, <2>2 DEF Filed, PlaceInv, FifoInv
  <2>6. HeaderInv'
    <3>1. InHand /\ host.req.kind = "header" /\ seen.handled # 0 => n = 0
      BY <1>5 DEF Filed, HeaderInv
    <3> QED BY <1>2, <1>3, <2>2, <3>1 DEF Filed, HeaderInv, InHand
  <2>7. CountInv'
    BY <1>1, <1>2, <1>3, <1>4, <2>2 DEF Filed, CountInv, Ending, InHand
  <2>8. ContentsInv'
    BY <1>2, <1>8, <2>4 DEF Filed, PlaceInv, ContentsInv
  <2> QED BY <2>5, <2>6, <2>7, <2>8 DEF Filed
<1> QED BY <1>6, <1>7, <1>8

\* Steps of the main loop that leave the buffer alone.
LEMMA FiledPlace ==
    ASSUME Filed, upg \in Upgs, NEW from, NEW to, main.pc = from, main'.pc = to, UNCHANGED <<upg, host>>,
           chip'.out = chip.out, chip'.fifo = chip.fifo, chip'.ints = chip.ints,
           seen'.clobbered = seen.clobbered,
           seen'.handled = seen.handled,
           \/ from = "loop" /\ to = "handle"
           \/ from = "ack" /\ to = "check"
           \/ from = "answer" /\ to = "count"
           \/ from = "count" /\ to = "state"
           \/ from = "state" /\ to = "check"
           \/ from = "check" /\ to = IF upg.status = "WRITE" THEN "burn" ELSE "loop"
           \/ from = "write" /\ to = "burnt"
    PROVE  Filed'
<1>1. PlaceInv' /\ FifoInv'
  <2>1. upg.status \in {"UNUSED", "DOWNLOAD", "ERASE", "WRITE"}
    BY DEF Upgs, Statuses
  <2> QED BY <2>1 DEF Filed, PlaceInv, FifoInv, Burning
<1>2. HeaderInv'
  BY DEF Filed, FifoInv, HeaderInv, Burning, InHand, PlaceInv
<1>3. CountInv'
  BY DEF Filed, CountInv, Ending, InHand, Burning, PlaceInv
<1>4. (Arriving => Arriving') /\ (Complete => Complete')
  BY DEF Arriving, Complete, Stored
<1>5. ContentsInv'
  BY <1>4 DEF Filed, ContentsInv, PlaceInv
<1> QED BY <1>1, <1>2, <1>3, <1>5 DEF Filed

\* What is handled is the request of the host, and nothing is left in the chip.
LEMMA HandlesIts ==
    ASSUME Requested, Filed, NEW kinds, NEW place, Handles(kinds, place)
    PROVE  /\ InHand /\ seen.handled = 0 /\ ctl.req = host.req /\ host.req.kind \in kinds
           /\ chip.fifo = <<>> /\ seen'.handled = 1
           /\ host.req.kind = "header" => ctl.file = host.req.file
           /\ main.pc = "handle" /\ main'.pc = place /\ main'.req = ctl.req
           /\ UNCHANGED <<isr, ctl, host, aborts, peer>>
<1>1. /\ main.pc = "handle" /\ Undisturbed /\ ctl.req.kind \in kinds
      /\ main'.pc = place /\ main'.req = ctl.req
      /\ seen'.handled = seen.handled + 1
      /\ UNCHANGED <<isr, ctl, host, aborts, peer>>
  BY DEF Handles
<1>2. InHand /\ seen.handled = 0
  BY <1>1 DEF Requested, ChipInv, IdleInv, SetupInv, TakenInv, HandledInv, InHand, Free, Busy
<1>3. chip.fifo = <<>>
  BY <1>1 DEF Filed, FifoInv, Undisturbed
<1> QED BY <1>1, <1>2, <1>3 DEF Requested, TakenInv

LEMMA FiledHandle ==
    ASSUME Requested, Filed, NEW kinds, NEW place, Handles(kinds, place),
           kinds \cap {"header", "end"} = {}, place \in {"ack", "check"}, UNCHANGED upg,
           chip'.out = chip.out, chip'.fifo = chip.fifo, seen'.clobbered = seen.clobbered
    PROVE  Filed'
<1>1. /\ InHand /\ seen.handled = 0 /\ host.req.kind \notin {"header", "end"}
      /\ main.pc = "handle" /\ main'.pc = place /\ chip.fifo = <<>>
      /\ UNCHANGED <<isr, ctl, host, aborts, peer>>
  BY HandlesIts
<1>2. PlaceInv' /\ FifoInv' /\ HeaderInv' /\ CountInv'
  BY <1>1 DEF Filed, PlaceInv, FifoInv, HeaderInv, CountInv, Ending, Burning
<1>3. (Arriving => Arriving') /\ (Complete => Complete')
  BY DEF Arriving, Complete, Stored
<1>4. ContentsInv'
  BY <1>1, <1>3 DEF Filed, PlaceInv, ContentsInv
<1> QED BY <1>2, <1>4 DEF Filed

LEMMA FiledDescriptor ==
    ASSUME TypeInv, Requested, Filed, HandleDescriptor
    PROVE  Filed'
<1>0. TypeOK /\ upg \in Upgs /\ seen \in Histories /\ LenBound \in Nat
  BY TypeParts, FileFacts DEF TypeInv
<1>1. /\ Handles({"device", "config", "vendor"}, "answer") /\ UNCHANGED chip
      /\ upg'.status = upg.status /\ upg'.len = upg.len /\ upg'.header = upg.header
      /\ ctl.req.kind \in InBuffer => upg'.buf[1] = Foreign
      /\ ctl.req.kind \notin InBuffer => upg' = upg
      /\ \A k \in 1 .. LenBound : k # 1 => upg'.buf[k] = upg.buf[k]
      /\ seen'.clobbered <=> seen.clobbered \/ (ctl.req.kind \in InBuffer /\ upg.status = "DOWNLOAD")
  BY <1>0, HandleDescriptorEffect
<1>2. /\ InHand /\ seen.handled = 0 /\ host.req.kind \notin {"header", "end"}
      /\ main.pc = "handle" /\ main'.pc = "answer" /\ chip.fifo = <<>>
      /\ UNCHANGED <<isr, ctl, host, aborts, peer>>
  BY <1>1, HandlesIts
<1>3. PlaceInv' /\ FifoInv' /\ HeaderInv' /\ CountInv'
  BY <1>1, <1>2 DEF Filed, PlaceInv, FifoInv, HeaderInv, CountInv, Ending, Burning
<1>4. upg.status = "DOWNLOAD" => Arriving'
  <2> SUFFICES ASSUME upg.status = "DOWNLOAD"
               PROVE  Arriving'
    OBVIOUS
  <2>1. Arriving
    BY <1>2 DEF Filed, ContentsInv
  <2>2. Stored'
    <3> SUFFICES ASSUME NEW k \in 1 .. upg.len
                 PROVE  upg'.buf[k] = <<upg.header, k>> \/ (k = 1 /\ upg'.buf[1] = Foreign /\ seen'.clobbered)
      BY <1>1 DEF Stored
    <3>1. k \in 1 .. LenBound
      BY <1>0 DEF Upgs
    <3>2. upg.buf[k] = <<upg.header, k>> \/ (k = 1 /\ upg.buf[1] = Foreign /\ seen.clobbered)
      BY <2>1 DEF Arriving, Stored
    <3>3. CASE ctl.req.kind \notin InBuffer
      BY <1>1, <3>2, <3>3
    <3>4. CASE ctl.req.kind \in InBuffer /\ k = 1
      BY <1>1, <3>4
    <3>5. CASE k # 1
      BY <1>1, <3>1, <3>2, <3>5
    <3> QED BY <3>3, <3>4, <3>5
  <2> QED BY <1>1, <2>1, <2>2 DEF Arriving
<1>5. ContentsInv'
  BY <1>1, <1>2, <1>4 DEF ContentsInv
<1> QED BY <1>3, <1>5 DEF Filed

LEMMA FiledHeader ==
    ASSUME TypeInv, Requested, Filed, HandleHeader, ~seen'.refused
    PROVE  Filed'
<1>0. TypeOK
  BY DEF TypeInv
<1>1. /\ upg'.header = ctl.file /\ upg'.len = upg.len /\ UNCHANGED chip
      /\ Handles({"header"}, "len") /\ upg'.status = "DOWNLOAD"
  BY <1>0, HandleHeaderEffect
<1>2. /\ InHand /\ seen.handled = 0 /\ host.req.kind = "header" /\ ctl.file = host.req.file
      /\ main.pc = "handle" /\ main'.pc = "len" /\ chip.fifo = <<>>
      /\ UNCHANGED <<isr, ctl, host, aborts, peer>>
  BY <1>1, HandlesIts
<1>3. host.pc # "idle" /\ host.file = NoFile
  BY <1>2 DEF Filed, FifoInv, InHand
<1> QED BY <1>1, <1>2, <1>3 DEF Filed, PlaceInv, FifoInv, HeaderInv, CountInv, ContentsInv, Burning

LEMMA FiledResetLen ==
    ASSUME TypeInv, Requested, Filed, ResetLen
    PROVE  Filed'
<1>0. TypeOK /\ host.req \in Requests
  BY TypeParts DEF TypeInv, HostStates
<1>1. /\ Moves("len", "ack") /\ UNCHANGED <<ctl, seen>>
      /\ upg' \in Upgs /\ upg'.status = upg.status /\ upg'.len = 0 /\ upg'.header = upg.header
  BY <1>0, ResetLenEffect
<1>2. main.pc = "len" /\ main'.pc = "ack" /\ UNCHANGED <<chip, isr, host, aborts, peer>>
  BY <1>1 DEF Moves
<1>3. InHand /\ seen.handled # 0 /\ host.req.kind = "header"
  BY <1>2 DEF Requested, IdleInv, SetupInv, TakenInv, HandledInv, InHand, Free, Busy
<1>4. /\ upg.status = "DOWNLOAD" /\ upg.header = host.req.file /\ chip.fifo = <<>> /\ host.file = NoFile
      /\ host.req.file \in Files
  BY <1>0, <1>3, RequestShape DEF Filed, FifoInv, HeaderInv, InHand
<1>5. PlaceInv' /\ FifoInv' /\ HeaderInv' /\ CountInv'
  BY <1>1, <1>2, <1>3, <1>4 DEF Filed, PlaceInv, FifoInv, HeaderInv, CountInv, Burning, InHand
<1>6. Arriving'
  <2>1. Len(<<>>) = 0 /\ 1 .. 0 = {} /\ Size[upg.header] \in Nat
    BY <1>4, FileFacts
  <2>2. chip'.fifo = <<>> /\ upg'.len = 0 /\ upg'.header = upg.header
    BY <1>1, <1>2, <1>4
  <2>3. Stored'
    BY <2>1, <2>2 DEF Stored
  <2> QED BY <1>4, <2>1, <2>2, <2>3 DEF Arriving
<1> QED BY <1>1, <1>2, <1>4, <1>5, <1>6 DEF Filed, ContentsInv

LEMMA FiledEnd ==
    ASSUME TypeInv, Requested, Filed, HandleEnd
    PROVE  Filed'
<1>0. TypeOK /\ upg \in Upgs
  BY TypeParts DEF TypeInv
<1>1. /\ upg'.header = upg.header /\ upg'.len = upg.len /\ upg'.buf = upg.buf
      /\ seen'.clobbered = seen.clobbered /\ UNCHANGED chip
      /\ \/ /\ Handles({"end"}, "size") /\ upg.status = "DOWNLOAD" /\ upg'.status = "WRITE"
         \/ /\ Handles({"end"}, "ack") /\ upg.status # "DOWNLOAD" /\ upg'.status = upg.status
  BY <1>0, HandleEndEffect
<1>2. /\ InHand /\ seen.handled = 0 /\ host.req.kind = "end" /\ main.pc = "handle" /\ chip.fifo = <<>>
      /\ seen'.handled = 1 /\ UNCHANGED <<isr, ctl, host, aborts, peer>>
  BY <1>1, HandlesIts
<1>3. upg.status \in {"UNUSED", "DOWNLOAD"} /\ InHand'
  BY <1>1, <1>2 DEF Filed, PlaceInv, InHand
<1>4. (Arriving => Arriving')
  BY <1>1, <1>2 DEF Arriving, Stored
<1>5. CASE Handles({"end"}, "size") /\ upg.status = "DOWNLOAD" /\ upg'.status = "WRITE"
  <2>1. main'.pc = "size"
    BY <1>5 DEF Handles
  <2>2. PlaceInv' /\ FifoInv' /\ HeaderInv' /\ CountInv'
    BY <1>1, <1>2, <1>3, <1>5, <2>1 DEF Filed, PlaceInv, FifoInv, HeaderInv, CountInv, Ending, Burning
  <2>3. ContentsInv'
    BY <1>2, <1>4, <1>5, <2>1 DEF Filed, ContentsInv
  <2> QED BY <2>2, <2>3 DEF Filed
<1>6. CASE Handles({"end"}, "ack") /\ upg.status # "DOWNLOAD" /\ upg'.status = upg.status
  <2>1. main'.pc = "ack" /\ upg'.status = "UNUSED"
    BY <1>3, <1>6 DEF Handles
  <2>2. PlaceInv' /\ FifoInv' /\ HeaderInv' /\ CountInv'
    BY <1>1, <1>2, <1>3, <1>6, <2>1 DEF Filed, PlaceInv, FifoInv, HeaderInv, CountInv, Ending, Burning
  <2>3. ContentsInv'
    BY <1>6, <2>1 DEF ContentsInv
  <2> QED BY <2>2, <2>3 DEF Filed
<1> QED BY <1>1, <1>5, <1>6

LEMMA FiledCheckSize ==
    ASSUME TypeInv, Requested, Filed, CheckSize
    PROVE  Filed'
<1>0. TypeOK
  BY DEF TypeInv
<1>1. /\ Moves("size", "ack") /\ UNCHANGED <<ctl, seen>>
      /\ upg'.len = upg.len /\ upg'.header = upg.header /\ upg'.buf = upg.buf
      /\ upg.header # NoFile /\ upg.len = Size[upg.header] => upg'.status = upg.status
      /\ upg.header = NoFile \/ upg.len # Size[upg.header] => upg'.status = "UNUSED"
  BY <1>0, CheckSizeEffect
<1>2. main.pc = "size" /\ main'.pc = "ack" /\ UNCHANGED <<chip, isr, host, aborts, peer, seen>>
  BY <1>1 DEF Moves
<1>3. InHand /\ seen.handled # 0 /\ host.req.kind = "end" /\ upg.status = "WRITE" /\ chip.fifo = <<>> /\ Arriving
  <2>1. InHand /\ seen.handled # 0 /\ main.pc \in Busy
    BY <1>2 DEF Requested, IdleInv, SetupInv, TakenInv, InHand, Free, Busy
  <2>2. host.req.kind = "end"
    BY <1>2, <2>1 DEF Requested, HandledInv
  <2> QED BY <1>2, <2>1, <2>2 DEF Filed, PlaceInv, FifoInv, ContentsInv
<1>4. PlaceInv' /\ FifoInv' /\ HeaderInv' /\ CountInv'
  BY <1>1, <1>2, <1>3 DEF Filed, PlaceInv, FifoInv, HeaderInv, CountInv, Ending, Burning, InHand
<1>5. ContentsInv'
  <2>1. upg'.status = "UNUSED" \/ (upg'.status = "WRITE" /\ Complete')
    BY <1>1, <1>2, <1>3 DEF Arriving, Complete, Stored
  <2> QED BY <1>2, <2>1 DEF ContentsInv
<1> QED BY <1>4, <1>5 DEF Filed

LEMMA FiledBurn ==
    ASSUME TypeInv, Filed, BurnFails \/ BurnErase \/ BurnWrite \/ BurnReturns
    PROVE  Filed'
<1>0. TypeOK
  BY DEF TypeInv
<1>1. /\ UNCHANGED <<ctl, seen>>
      /\ upg'.len = upg.len /\ upg'.header = upg.header /\ upg'.buf = upg.buf
      /\ \/ /\ Moves("burn", "burnt") \/ Moves("erase", "burnt") \/ Moves("write", "burnt")
            /\ upg'.status = upg.status
         \/ Moves("burn", "erase") /\ upg'.status = "ERASE"
         \/ Moves("erase", "write") /\ upg'.status = "WRITE"
         \/ Moves("burnt", "loop") /\ upg'.status = "UNUSED"
  BY <1>0, BurnEffect
<1>2. /\ main.pc \in Burning /\ main'.pc \in {"erase", "write", "burnt", "loop"}
      /\ UNCHANGED <<chip, isr, host, aborts, peer, seen>>
  BY <1>1 DEF Moves, Burning
<1>3. PlaceInv'
  BY <1>1 DEF Filed, PlaceInv, Moves
<1>4. FifoInv' /\ HeaderInv' /\ CountInv'
  BY <1>1, <1>2 DEF Filed, FifoInv, HeaderInv, CountInv, Ending, Burning, InHand
<1>5. ContentsInv'
  <2>1. Complete => Complete'
    BY <1>1, <1>2 DEF Complete, Stored
  <2>2. main'.pc \in {"erase", "write"} => main.pc \in {"burn", "erase"}
    BY <1>1 DEF Moves
  <2>3. main'.pc = "loop" => upg'.status = "UNUSED"
    BY <1>1 DEF Moves
  <2> QED BY <1>2, <1>3, <2>1, <2>2, <2>3 DEF Filed, PlaceInv, ContentsInv
<1> QED BY <1>3, <1>4, <1>5 DEF Filed

LEMMA FiledMoves ==
    ASSUME TypeInv, Filed, Loop \/ SingleTransmit \/ FirstPacket \/ CountPacket \/ SetState \/ Check \/ BurnDone
    PROVE  Filed'
<1>0. TypeOK /\ upg \in Upgs
  BY TypeParts DEF TypeInv
<1>1. CASE Loop
  BY <1>0, <1>1, LoopEffect, FiledPlace
<1>2. CASE SingleTransmit
  <2>1. PICK n : (ToHost(main.req) => n = 1) /\ (~ToHost(main.req) => n = 0)
    BY Zenon
  <2>2. PICK s : s = IF main.req.kind # "status" THEN ""
                     ELSE IF upg.status = "UNUSED" THEN "idle" ELSE "write"
    BY Zenon
  <2>3. PICK p : p = Answer(main.req.kind, 0, n, s)
    BY Zenon
  <2>4. /\ main.pc = "ack" /\ main'.pc = "check"
        /\ chip'.out = chip.out /\ chip'.ints = chip.ints /\ chip'.fifo = chip.fifo
        /\ UNCHANGED <<upg, host, seen>>
    BY <1>2, <2>1, <2>2, <2>3, SingleTransmitEffect DEF At
  <2> QED BY <1>0, <2>4, FiledPlace
<1>3. CASE FirstPacket
  <2>1. PICK n : n = IF ctl.wLength <= Descriptor[main.req.kind] THEN ctl.wLength ELSE Descriptor[main.req.kind]
    BY Zenon
  <2>2. PICK sent : sent = IF n <= PacketSize THEN n ELSE PacketSize
    BY Zenon
  <2>3. /\ main.pc = "answer" /\ main'.pc = "count"
        /\ chip'.out = chip.out /\ chip'.ints = chip.ints /\ chip'.fifo = chip.fifo
        /\ UNCHANGED <<upg, host, seen>>
    BY <1>3, <2>1, <2>2, FirstPacketEffect DEF At
  <2> QED BY <1>0, <2>3, FiledPlace
<1>4. CASE CountPacket
  <2>1. /\ main.pc = "count" /\ main'.pc = "state" /\ UNCHANGED <<chip, upg, host, seen>>
    BY <1>0, <1>4, CountPacketEffect DEF Moves
  <2> QED BY <1>0, <2>1, FiledPlace
<1>5. CASE SetState
  <2>1. /\ main.pc = "state" /\ main'.pc = "check" /\ UNCHANGED <<chip, upg, host, seen>>
    BY <1>0, <1>5, SetStateEffect DEF Moves
  <2> QED BY <1>0, <2>1, FiledPlace
<1>6. CASE Check
  <2>1. /\ main.pc = "check" /\ main'.pc = IF upg.status = "WRITE" THEN "burn" ELSE "loop"
        /\ UNCHANGED <<chip, upg, host, seen>>
    BY <1>0, <1>6, CheckEffect
  <2> QED BY <1>0, <2>1, FiledPlace
<1>7. CASE BurnDone
  <2>1. /\ main.pc = "write" /\ main'.pc = "burnt" /\ UNCHANGED <<chip, upg, host>>
        /\ seen'.handled = seen.handled /\ seen'.clobbered = seen.clobbered
    BY <1>0, <1>7, BurnDoneEffect DEF Moves
  <2> QED BY <1>0, <2>1, FiledPlace
<1> QED BY <1>1, <1>2, <1>3, <1>4, <1>5, <1>6, <1>7

LEMMA FiledNewRequest ==
    ASSUME TypeInv, Requested, Filed, NewRequest
    PROVE  Filed'
<1>0. TypeOK /\ host \in HostStates
  BY TypeParts DEF TypeInv
<1>1. PICK q \in Requests :
         /\ Allowed(q) /\ host.pc = "idle"
         /\ chip'.out = Setup(q) /\ chip'.ints = chip.ints \cup {"out"} /\ chip'.fifo = chip.fifo
         /\ host'.req = q /\ host'.bulk = host.bulk
         /\ host'.file = IF q.kind = "header" THEN NoFile ELSE host.file
         /\ host'.next = IF q.kind = "header" THEN 1 ELSE host.next
         /\ seen'.clobbered = seen.clobbered
         /\ UNCHANGED <<isr, ctl, main, upg, aborts, peer>>
  BY <1>0, NewRequestEffect
<1>2. /\ q.kind \in {"block", "end", "header", "status"} => host.bulk = 0
      /\ q.kind \in {"block", "end"} => host.file # NoFile
  BY <1>0, <1>1, AllowedIs DEF HostStates
<1>3. chip'.out.setup /\ ~InHand' /\ ~InHand
  BY <1>1, SetupPacket DEF InHand
<1>4. PlaceInv' /\ FifoInv' /\ HeaderInv'
  BY <1>1, <1>2, <1>3 DEF Filed, PlaceInv, FifoInv, HeaderInv
<1>5. CountInv'
  BY <1>1, <1>3 DEF Filed, CountInv, Ending
<1>6. (Arriving => Arriving') /\ (Complete => Complete')
  BY <1>1 DEF Arriving, Complete, Stored
<1>7. ContentsInv'
  BY <1>1, <1>6 DEF Filed, ContentsInv
<1> QED BY <1>4, <1>5, <1>7 DEF Filed

\* Steps of the host that leave its download alone.
LEMMA FiledHost ==
    ASSUME Filed, UNCHANGED <<main, upg>>, chip'.fifo = chip.fifo, chip.ints \subseteq chip'.ints,
           host'.file = host.file, host'.next = host.next, host'.bulk = host.bulk,
           seen'.clobbered = seen.clobbered, seen'.handled = seen.handled,
           \/ host'.pc = "idle" /\ (Ending => host.file = NoFile)
           \/ host.pc # "idle" /\ host'.req = host.req /\ (InHand <=> InHand')
    PROVE  Filed'
<1>1. PlaceInv' /\ FifoInv'
  BY DEF Filed, PlaceInv, FifoInv
<1>2. HeaderInv'
  BY DEF Filed, HeaderInv, InHand
<1>3. CountInv'
  BY DEF Filed, CountInv, Ending, InHand
<1>4. (Arriving => Arriving') /\ (Complete => Complete')
  BY DEF Arriving, Complete, Stored
<1>5. ContentsInv'
  BY <1>4 DEF Filed, ContentsInv
<1> QED BY <1>1, <1>2, <1>3, <1>5 DEF Filed

LEMMA FiledHostSend ==
    ASSUME TypeInv, Requested, Filed, HostSend
    PROVE  Filed'
<1>0. host.req \in Requests
  BY TypeParts DEF TypeInv, HostStates
<1>1. PICK n : n = IF PacketSize <= host.req.wLength - host.count
                   THEN PacketSize ELSE host.req.wLength - host.count
  BY Zenon
<1>2. /\ host.pc = "send" /\ chip.out = NoPacket /\ n \in 1 .. PacketSize
      /\ chip'.out = Data(n, host.req.file)
      /\ chip'.ints = chip.ints \cup {"out"} /\ chip'.fifo = chip.fifo
      /\ host'.req = host.req /\ host'.pc \in {"ack", "send"}
      /\ host'.file = host.file /\ host'.next = host.next /\ host'.bulk = host.bulk
      /\ UNCHANGED <<isr, ctl, main, upg, aborts, peer, seen>>
  BY <1>1, HostSendEffect
<1>3. n \in 0 .. PacketSize /\ host.req.file \in Files \cup {NoFile}
  BY <1>0, <1>2, RequestShape DEF PacketSize
<1>4. ~chip'.out.setup /\ ~chip.out.setup
  BY <1>2, <1>3, DataPacket, NoPacketIs
<1>5. InHand /\ InHand'
  BY <1>2, <1>4 DEF InHand
<1> QED BY <1>2, <1>5, FiledHost

LEMMA FiledHostRead ==
    ASSUME TypeInv, Requested, Filed, HostRead
    PROVE  Filed'
<1>1. PICK p : p = chip.in
  OBVIOUS
<1>2. /\ host.pc = "read" /\ chip'.ints = chip.ints \cup {"in"}
      /\ chip'.out = chip.out /\ chip'.fifo = chip.fifo
      /\ host'.req = host.req /\ host'.pc \in {"status", "read"}
      /\ host'.file = host.file /\ host'.next = host.next /\ host'.bulk = host.bulk
      /\ seen'.handled = seen.handled /\ seen'.clobbered = seen.clobbered
      /\ UNCHANGED <<isr, ctl, main, upg, aborts, peer>>
  BY <1>1, HostReadEffect
<1>3. InHand <=> InHand'
  BY <1>2 DEF InHand
<1> QED BY <1>2, <1>3, FiledHost

LEMMA FiledHostStatus ==
    ASSUME TypeInv, Requested, Filed, HostStatus \/ HostStalled
    PROVE  Filed'
<1>0. TypeOK /\ host \in HostStates /\ host.req \in Requests
  BY TypeParts DEF TypeInv, HostStates
<1>1. /\ host' = Idle /\ chip.ints \subseteq chip'.ints /\ chip'.fifo = chip.fifo
      /\ UNCHANGED <<isr, ctl, main, upg, aborts, peer, seen>>
  BY HostStatusEffect DEF HostStalled
<1>2. host.req.kind # "end"
  <2>1. CASE HostStatus
    <3>1. host.pc = "status"
      BY <2>1 DEF HostStatus
    <3>2. ToHost(host.req)
      BY <3>1 DEF Requested, HostInv
    <3> QED BY <1>0, <3>2, RequestShape
  <2>2. CASE HostStalled
    BY <2>2 DEF HostStalled, Requested, HostInv
  <2> QED BY <2>1, <2>2
<1>3. ~Ending
  BY <1>2 DEF Ending
<1>4. host'.pc = "idle" /\ host'.file = host.file /\ host'.next = host.next /\ host'.bulk = host.bulk
  BY <1>0, <1>1, IdleIs
<1> QED BY <1>1, <1>3, <1>4, FiledHost

LEMMA FiledHostAck ==
    ASSUME TypeInv, Requested, Filed, HostAck
    PROVE  Filed'
<1>0. TypeOK /\ host \in HostStates /\ host.req \in Requests /\ upg \in Upgs
  BY TypeParts DEF TypeInv, HostStates
<1>1. PICK kind : kind = host.req.kind
  OBVIOUS
<1>2. /\ host.pc = "ack" /\ chip.in # NoPacket
      /\ chip'.in = NoPacket /\ chip'.ints = chip.ints \cup {"in"}
      /\ chip'.out = chip.out /\ chip'.fifo = chip.fifo
      /\ host'.pc = "idle"
      /\ host'.file = IF kind = "header" THEN host.req.file
                      ELSE IF kind = "end" THEN NoFile ELSE host.file
      /\ host'.next = IF kind \in {"header", "end"} THEN 1 ELSE host.next
      /\ host'.bulk = IF kind = "block" THEN BlockOf ELSE host.bulk
      /\ seen'.handled = seen.handled /\ seen'.clobbered = seen.clobbered
      /\ UNCHANGED <<isr, ctl, main, upg, aborts, peer>>
  BY <1>1, HostAckEffect
<1>3. InHand /\ seen.handled # 0 /\ main.pc \notin Busy
  <2>1. ~chip.out.setup
    BY <1>2 DEF Requested, SetupInv
  <2>2. InHand
    BY <1>2, <2>1 DEF InHand
  <2>3. seen.handled # 0
    BY <1>2, <2>2 DEF Requested, TakenInv
  <2>4. main.pc \notin Busy
    BY <1>2, <2>2, <2>3 DEF Requested, HandledInv
  <2> QED BY <2>2, <2>3, <2>4
<1>4. (Arriving => Arriving') /\ (Complete => Complete')
  BY <1>2 DEF Arriving, Complete, Stored
<1>5. PlaceInv' /\ FifoInv' /\ HeaderInv' /\ ContentsInv'
  BY <1>2, <1>4 DEF Filed, PlaceInv, FifoInv, HeaderInv, InHand, ContentsInv
<1>6. CASE kind = "header"
  <2>1. /\ upg.status = "DOWNLOAD" /\ upg.header = host.req.file /\ chip.fifo = <<>>
        /\ upg.len = 0 /\ main.pc \notin Burning /\ main.pc \notin {"len", "size"}
        /\ host.bulk = 0
    BY <1>1, <1>2, <1>3, <1>6 DEF Filed, HeaderInv, FifoInv, Busy
  <2>2. /\ host'.file = host.req.file /\ host'.file \in Files /\ host'.next = 1 /\ host'.bulk = 0
        /\ Size[host'.file] \in Nat \ {0}
    <3>1. host'.file = host.req.file /\ host'.next = 1 /\ host'.bulk = 0
      BY <1>2, <1>6, <2>1
    <3>2. host.req.file \in Files
      BY <1>0, <1>1, <1>6, RequestShape
    <3> QED BY <3>1, <3>2, FileFacts
  <2>3. Len(<<>>) = 0
    OBVIOUS
  <2>4. CountInv'
    BY <1>2, <2>1, <2>2, <2>3 DEF CountInv
  <2> QED BY <1>5, <2>4 DEF Filed
<1>7. CASE kind = "block"
  <2>1. /\ host.file # NoFile /\ host.file \in Files /\ host.next <= Size[host.file] /\ ~Ending
        /\ Size[host.file] \in Nat /\ BlockSize \in Nat /\ host.next \in Nat
    BY <1>0, <1>1, <1>2, <1>7, FileFacts DEF TypeInv, HostStates, Ending
  <2>2. host'.file = host.file /\ host'.next = host.next /\ host'.bulk = BlockOf
    BY <1>2, <1>7
  <2>3. host'.next + host'.bulk <= Size[host'.file] + 1
    BY <2>1, <2>2 DEF BlockOf
  <2>4. CountInv'
    BY <1>2, <2>1, <2>2, <2>3 DEF Filed, CountInv
  <2> QED BY <1>5, <2>4 DEF Filed
<1>8. CASE kind = "end"
  BY <1>2, <1>5, <1>8 DEF Filed, CountInv
<1>9. CASE kind \notin {"header", "block", "end"}
  <2>1. ~Ending
    BY <1>1, <1>9 DEF Ending
  <2>2. CountInv'
    BY <1>2, <1>9, <2>1 DEF Filed, CountInv
  <2> QED BY <1>5, <2>2 DEF Filed
<1> QED BY <1>6, <1>7, <1>8, <1>9

LEMMA FiledBulkSend ==
    ASSUME TypeInv, Requested, Filed, BulkSend
    PROVE  Filed'
<1>0. TypeOK /\ host \in HostStates /\ upg \in Upgs /\ chip.fifo \in Seq(Contents)
  BY TypeParts DEF TypeInv, Chips
<1>1. PICK n : n = Len(chip.fifo)
  OBVIOUS
<1>2. PICK m : m = Len(chip'.fifo)
  OBVIOUS
<1>3. /\ host.bulk > 0 /\ n \in 0 .. FifoDepth - 1
      /\ host.file \in Files /\ host.next + 1 <= Size[host.file] + 1
      /\ m = n + 1
      /\ \A j \in 1 .. n : chip'.fifo[j] = chip.fifo[j]
      /\ chip'.fifo[n + 1] = <<host.file, host.next>>
      /\ chip'.ints = chip.ints \cup {"main"} /\ chip'.out = chip.out
      /\ host'.pc = host.pc /\ host'.req = host.req /\ host'.file = host.file
      /\ host'.next = host.next + 1 /\ host'.bulk = host.bulk - 1
      /\ UNCHANGED <<isr, ctl, main, upg, aborts, peer, seen>>
  BY <1>1, <1>2, BulkSendEffect
<1>4. n \in Nat /\ upg.len \in Nat /\ host.next \in Nat /\ host.bulk \in Nat /\ Size[host.file] \in Nat
      /\ host.file # NoFile
  BY <1>0, <1>3, FileFacts DEF FifoDepth, HostStates, Upgs
<1>5. host.pc # "idle" => host.req.kind \notin {"header", "block", "end"}
  BY <1>3 DEF Filed, FifoInv
<1>6. ~Ending /\ ~Ending'
  BY <1>3, <1>5 DEF Ending, InHand
<1>7. /\ upg.header = host.file /\ host.next = upg.len + n + 1
      /\ host.next + host.bulk <= Size[host.file] + 1
      /\ main.pc # "len" /\ upg.status = "DOWNLOAD" /\ main.pc \notin Burning \cup {"size"}
  BY <1>1, <1>4, <1>6 DEF Filed, CountInv
<1>8. PlaceInv'
  BY <1>3 DEF Filed, PlaceInv
<1>9. FifoInv'
  BY <1>3, <1>5, <1>7 DEF Filed, FifoInv
<1>10. HeaderInv'
  BY <1>3, <1>5 DEF HeaderInv, InHand
<1>11. CountInv'
  <2>1. host'.next = upg'.len + m + 1 /\ host'.next + host'.bulk <= Size[host'.file] + 1
    BY <1>3, <1>4, <1>7
  <2> QED BY <1>2, <1>3, <1>7, <2>1 DEF CountInv
<1>12. Arriving'
  <2>1. Arriving
    BY <1>7 DEF Filed, ContentsInv
  <2>2. \A j \in 1 .. m : chip'.fifo[j] = <<upg'.header, upg'.len + j>>
    <3> SUFFICES ASSUME NEW j \in 1 .. m
                 PROVE  chip'.fifo[j] = <<upg.header, upg.len + j>>
      BY <1>3
    <3>1. CASE j \in 1 .. n
      <4>1. chip.fifo[j] = <<upg.header, upg.len + j>>
        BY <1>1, <2>1, <3>1 DEF Arriving
      <4> QED BY <1>3, <3>1, <4>1
    <3>2. CASE j \notin 1 .. n
      <4>1. j = n + 1 /\ host.next = upg.len + j
        BY <1>3, <1>4, <1>7, <3>2
      <4> QED BY <1>3, <1>7, <4>1
    <3> QED BY <3>1, <3>2
  <2>3. upg'.len + m <= Size[upg'.header]
    BY <1>3, <1>4, <1>7
  <2>4. Stored'
    BY <1>3, <2>1 DEF Arriving, Stored
  <2> QED BY <1>2, <1>3, <2>1, <2>2, <2>3, <2>4 DEF Arriving
<1>13. ContentsInv'
  <2>1. main'.pc # "size" /\ upg'.status = "DOWNLOAD" /\ main'.pc \notin {"burn", "erase", "write"}
    BY <1>3, <1>7 DEF Burning
  <2> QED BY <1>12, <2>1 DEF ContentsInv
<1> QED BY <1>8, <1>9, <1>10, <1>11, <1>13 DEF Filed

LEMMA FiledStep ==
    ASSUME TypeInv, Requested, Filed, main.pc # "off", Next, ~Abort, ~PowerKey, ~seen'.refused
    PROVE  Filed'
<1>0. TypeOK /\ upg \in Upgs
  BY TypeParts DEF TypeInv
<1>1. CASE HandleShort
  <2>1. /\ Handles({"short", "status", "set", "block"}, "ack") /\ UNCHANGED <<chip, upg>>
        /\ seen'.clobbered = seen.clobbered
    BY <1>0, <1>1, HandleShortEffect
  <2>2. {"short", "status", "set", "block"} \cap {"header", "end"} = {}
    OBVIOUS
  <2> QED BY <2>1, <2>2, FiledHandle
<1>2. CASE HandleClear
  <2>1. Handles({"clear"}, "check") /\ UNCHANGED <<chip, upg>> /\ seen'.clobbered = seen.clobbered
    BY <1>0, <1>2, HandleClearEffect
  <2>2. {"clear"} \cap {"header", "end"} = {}
    OBVIOUS
  <2> QED BY <2>1, <2>2, FiledHandle
<1>3. CASE HandleReserved
  <2>1. /\ Handles({"reserved", "long"}, "check") /\ UNCHANGED upg
        /\ chip'.out = chip.out /\ chip'.fifo = chip.fifo /\ seen'.clobbered = seen.clobbered
    BY <1>0, <1>3, HandleReservedEffect
  <2>2. {"reserved", "long"} \cap {"header", "end"} = {}
    OBVIOUS
  <2> QED BY <2>1, <2>2, FiledHandle
<1>4. CASE HandleDescriptor \/ HandleHeader \/ HandleEnd \/ ResetLen \/ CheckSize
  BY <1>4, FiledDescriptor, FiledHeader, FiledEnd, FiledResetLen, FiledCheckSize
<1>5. CASE BurnFails \/ BurnErase \/ BurnWrite \/ BurnReturns
  BY <1>5, FiledBurn
<1>6. CASE Loop \/ SingleTransmit \/ FirstPacket \/ CountPacket \/ SetState \/ Check \/ BurnDone
  BY <1>6, FiledMoves
<1>7. CASE Isr
  BY <1>7, FiledIsr, FiledMainRxDone DEF Isr
<1>8. CASE NewRequest \/ BulkSend
  BY <1>8, FiledNewRequest, FiledBulkSend
<1>9. CASE HostGoesOn
  BY <1>9, FiledHostSend, FiledHostAck, FiledHostRead, FiledHostStatus DEF HostGoesOn
<1> QED BY <1>1, <1>2, <1>3, <1>4, <1>5, <1>6, <1>7, <1>8, <1>9 DEF Next, Main

LEMMA RefusedGrows ==
    ASSUME TypeInv, Next, ~Abort, seen.refused
    PROVE  seen'.refused
<1>0. TypeOK /\ seen \in Histories
  BY TypeParts DEF TypeInv
<1>1. CASE Interrupt \/ HandleShort \/ HandleClear \/ HandleReserved \/ HandleDescriptor \/ HandleHeader \/ HandleEnd
  BY <1>0, <1>1 DEF Histories, Interrupt, HandleShort, HandleClear, HandleReserved, HandleDescriptor, HandleHeader,
     HandleEnd, Handled
<1>2. CASE RxSetup
  BY <1>0, <1>2 DEF Histories, RxSetup
<1>3. CASE BurnDone
  BY <1>0, <1>3, BurnDoneEffect
<1>4. CASE NewRequest
  BY <1>0, <1>4, NewRequestEffect
<1>5. CASE HostAck \/ HostRead
  BY <1>0, <1>5 DEF Histories, HostAck, HostRead
<1>6. CASE ~(\/ Interrupt \/ HandleShort \/ HandleClear \/ HandleReserved \/ HandleDescriptor \/ HandleHeader
             \/ HandleEnd \/ RxSetup \/ BurnDone \/ NewRequest \/ HostAck \/ HostRead)
  BY <1>6 DEF Next, Isr, Main, HostGoesOn, TxDone, RxData, MainRxDone, Loop, PowerKey,
     ResetLen, CheckSize, SingleTransmit, FirstPacket, CountPacket, SetState, Check, BurnFails, BurnErase, BurnWrite,
     BurnReturns, HostSend, HostStatus, HostStalled, BulkSend
<1> QED BY <1>1, <1>2, <1>3, <1>4, <1>5, <1>6

LEMMA FileInit ==
    ASSUME Init
    PROVE  FileInv
<1>1. chip = [out |-> NoPacket, in |-> NoPacket, locked |-> FALSE, stall |-> FALSE,
              ints |-> {}, fifo |-> <<>>]
  BY DEF Init
<1>2. main.pc = "loop" /\ upg.status = "UNUSED" /\ host.pc = "idle" /\ host.file = NoFile
  BY DEF Init
<1>3. chip.fifo = <<>>
  BY <1>1
<1> QED BY <1>2, <1>3 DEF FileInv, Filed, PlaceInv, FifoInv, HeaderInv, CountInv, ContentsInv, InHand

LEMMA FileStep ==
    ASSUME TypeInv, RequestInv, FileInv, [Next]_vars
    PROVE  FileInv'
<1>1. CASE UNCHANGED vars
  <2>1. UNCHANGED <<chip, isr, ctl, main, upg, host, aborts, peer, seen>>
    BY <1>1 DEF vars
  <2> QED BY <2>1 DEF FileInv, Filed, PlaceInv, FifoInv, HeaderInv, CountInv, ContentsInv, Arriving, Complete,
                      Stored, Ending, InHand
<1>2. CASE Next
  <2> SUFFICES ASSUME aborts' = 0, main'.pc # "off", ~seen'.refused
               PROVE  Filed'
    BY DEF FileInv
  <2>1. ~Abort /\ aborts = 0
    BY <1>2, AbortsGrow
  <2>2. OffInv /\ (main.pc # "off" => Requested)
    BY <2>1 DEF RequestInv
  <2>3. main.pc # "off" /\ Requested
    BY <1>2, <2>2, OffStep DEF OffInv
  <2>4. ~PowerKey
    BY PowerKeyEffect DEF TypeInv
  <2>5. ~seen.refused
    BY <1>2, <2>1, RefusedGrows
  <2>6. Filed
    BY <2>1, <2>3, <2>5 DEF FileInv
  <2> QED BY <1>2, <2>1, <2>3, <2>4, <2>6, FiledStep
<1> QED BY <1>1, <1>2

LEMMA FileOfHeader ==
    ASSUME TypeInv, FileInv
    PROVE  WholeFile
<1> SUFFICES ASSUME aborts = 0, ~seen.clobbered, ~seen.refused, main.pc = "burn",
                    NEW k \in 1 .. Size[upg.header]
             PROVE  upg.buf[k] = <<upg.header, k>>
  BY DEF WholeFile, Orderly, Holds
<1>1. Complete
  BY DEF FileInv, Filed, ContentsInv
<1> QED BY <1>1 DEF Complete, Stored

\* While the host gives nothing up and no file was refused, what burn_flash is given
\* is the file of the last header, each packet in its place: for files of any sizes,
\* a buffer and blocks of any length, and any hosts.
THEOREM BurnsWholeFile == Spec => []WholeFile
<1>1. Init => TypeInv /\ RequestInv /\ FileInv
  BY TypeInit, RequestInit, FileInit
<1>2. TypeInv /\ RequestInv /\ FileInv /\ [Next]_vars => TypeInv' /\ RequestInv' /\ FileInv'
  BY TypeStep, RequestStep, FileStep
<1>3. TypeInv /\ FileInv => WholeFile
  BY FileOfHeader
<1> QED BY <1>1, <1>2, <1>3, PTL DEF Spec

-----------------------------------------------------------------------------
\* What the host is told of the flash.
Direct == {"block", "set", "clear", "end", "long"}
\* A request with one packet of data, or none, is taken for complete when the host
\* has sent all of it.
LateInv ==
    /\ InHand /\ host.req.kind \in Direct /\ (ctl.setup \/ main.pc = "handle" \/ seen.handled # 0) =>
          host.pc = "ack" /\ "out" \notin chip.ints
    /\ ctl.state = "RECEIVE" /\ host.req.kind = "block" /\ chip.out # NoPacket => host.pc = "ack"

LEMMA LateKept ==
    ASSUME LateInv, host'.pc = host.pc, host'.req = host.req,
           InHand' => InHand, chip'.out # NoPacket => chip'.out = chip.out,
           "out" \in chip'.ints => "out" \in chip.ints,
           ctl'.setup \/ main'.pc = "handle" \/ seen'.handled # 0 =>
              ctl.setup \/ main.pc = "handle" \/ seen.handled # 0,
           ctl'.state = "RECEIVE" => ctl.state = "RECEIVE"
    PROVE  LateInv'
BY NoPacketIs DEF LateInv

\* No data is asked for or sent with some requests.
LEMMA NoData ==
    ASSUME TypeInv, Requested
    PROVE  /\ host.pc # "idle" /\ host.req.kind \in {"set", "clear", "end"} => host.pc = "ack"
           /\ host.pc \in {"read", "status"} => host.req.kind \notin Direct \cup {"header"}
           /\ host.pc \in {"send", "ack"} => host.req.kind \in Direct \cup {"header"}
<1>0. host \in HostStates /\ host.req \in Requests
  BY TypeParts DEF TypeInv, HostStates
<1>1. /\ host.req.kind \in {"set", "clear", "end"} => host.req.wLength = 0 /\ ~ToHost(host.req)
      /\ ToHost(host.req) => host.req.kind \notin Direct \cup {"header"}
      /\ ~ToHost(host.req) => host.req.kind \in Direct \cup {"header"}
  BY <1>0, RequestShape DEF Direct, Kinds
<1>2. host.pc = "send" => host.count < host.req.wLength /\ host.count \in Nat
  BY <1>0 DEF TypeInv, HostStates
<1> QED BY <1>0, <1>1, <1>2 DEF Requested, HostInv, HostStates

LEMMA LateIsr ==
    ASSUME TypeInv, Requested, main.pc # "off", LateInv, Isr
    PROVE  LateInv'
<1>0. TypeOK /\ ctl \in Ctls /\ chip \in Chips /\ upg \in Upgs /\ seen \in Histories
  BY TypeParts DEF TypeInv
<1>1. CASE Interrupt
  <2>1. /\ chip'.ints = chip.ints \ {"reset"} /\ chip'.out = chip.out
        /\ seen'.handled = seen.handled
        /\ UNCHANGED <<ctl, main, host>>
    BY <1>0, <1>1, InterruptEffect
  <2> QED BY <2>1, LateKept DEF InHand
<1>2. CASE TxDone
  <2>1. PICK len, count :
          /\ len = IF ctl.wLength - ctl.wCount \in 0 .. 1 THEN ctl.wLength - ctl.wCount ELSE PacketSize
          /\ count = IF ctl.wLength - ctl.wCount < 2 THEN ctl.wLength ELSE ctl.wCount + 2
    OBVIOUS
  <2>2. /\ chip'.out = chip.out /\ chip'.ints = chip.ints \ {"in"}
        /\ ctl'.setup = ctl.setup /\ (ctl'.state = "RECEIVE" => ctl.state = "RECEIVE")
    BY <1>0, <1>2, <2>1, TxDoneEffect
  <2>3. UNCHANGED <<main, host, seen>>
    BY <1>2 DEF TxDone
  <2> QED BY <2>2, <2>3, LateKept DEF InHand
<1>3. CASE RxSetup
  <2>1. PICK q : q = chip.out.req
    OBVIOUS
  <2>2. /\ chip.out.setup /\ chip'.out = NoPacket /\ chip'.ints = chip.ints \ {"out"}
        /\ q.kind # "status" => seen' = seen
        /\ q.kind \in WithData \cup {"status", "long"} => ctl'.setup = ctl.setup
        /\ UNCHANGED <<main, host>>
    <3>1. q.kind \in WithData \cup {"status", "long"} => ctl'.setup = ctl.setup
      BY <1>0, <1>3, <2>1, RxSetupEffect DEF Ctls
    <3> QED BY <1>0, <1>3, <2>1, <3>1, RxSetupEffect
  <2>3. q = host.req /\ host.pc # "idle" /\ seen.handled = 0 /\ ~ctl.setup /\ main.pc # "handle"
    BY <2>1, <2>2 DEF Requested, SetupInv, Free
  <2>4. q.kind \in Direct /\ (ctl'.setup \/ main'.pc = "handle" \/ seen'.handled # 0) =>
           q.kind \in {"set", "clear", "end"}
    BY <2>2, <2>3 DEF Direct, WithData
  <2>5. q.kind \in {"set", "clear", "end"} => host.pc = "ack"
    BY <2>3, NoData
  <2> QED BY <2>2, <2>3, <2>4, <2>5 DEF LateInv
<1>4. CASE RxData
  <2>1. PICK n : n = IF chip.out = NoPacket THEN 0 ELSE chip.out.len
    OBVIOUS
  <2>2. PICK last \in BOOLEAN : last <=> n # PacketSize \/ ctl.wCount + n >= ctl.wLength
    BY Zenon
  <2>3. /\ ~chip.out.setup /\ chip'.out \in {chip.out, NoPacket} /\ "out" \in isr
        /\ chip'.ints = chip.ints \ {"out"}
        /\ ctl.state = "RECEIVE" => chip'.out = NoPacket
        /\ ctl.state # "RECEIVE" => ctl'.setup = ctl.setup /\ ctl'.state # "RECEIVE"
        /\ UNCHANGED <<main, host, seen>>
    <3>1. ctl.state # "RECEIVE" => ctl' = [ctl EXCEPT !.state = "IDLE"]
      BY <1>0, <1>4, <2>1, <2>2, RxDataEffect
    <3>2. ctl.state # "RECEIVE" => ctl'.setup = ctl.setup /\ ctl'.state # "RECEIVE"
      BY <1>0, <3>1 DEF Ctls
    <3> QED BY <1>0, <1>4, <2>1, <2>2, <3>2, RxDataEffect
  <2>4. InHand' <=> InHand
    BY <2>3, NoPacketIs DEF InHand
  <2>5. CASE ctl.state # "RECEIVE"
    BY <2>3, <2>4, <2>5, LateKept
  <2>6. CASE ctl.state = "RECEIVE"
    <3>1. InHand => host.req.kind \in WithData
      BY <2>6 DEF Requested, TakenInv, HandledInv
    <3>2. chip.out # NoPacket
      BY <2>3 DEF Requested, ChipInv
    <3>3. "out" \notin chip'.ints /\ chip'.out = NoPacket
      BY <2>3, <2>6
    <3>4. InHand /\ host.req.kind \in Direct => host.pc = "ack"
      BY <2>6, <3>1, <3>2 DEF LateInv, Direct, WithData
    <3> QED BY <2>3, <2>4, <3>3, <3>4 DEF LateInv
  <2> QED BY <2>5, <2>6
<1>5. CASE MainRxDone
  <2>1. PICK n : n = Len(chip.fifo)
    OBVIOUS
  <2>2. chip'.out = chip.out /\ chip'.ints = chip.ints \ {"main"} /\ UNCHANGED <<ctl, main, host, seen>>
    BY <1>0, <1>5, <2>1, MainRxDoneEffect
  <2> QED BY <2>2, LateKept DEF InHand
<1> QED BY <1>1, <1>2, <1>3, <1>4, <1>5 DEF Isr

LEMMA LateMain ==
    ASSUME TypeInv, Requested, LateInv, Main
    PROVE  LateInv'
<1>0. TypeOK
  BY DEF TypeInv
<1>1. CASE Loop
  BY <1>0, <1>1, LoopEffect, LateKept DEF InHand
<1>2. ASSUME NEW kinds, NEW place, Handles(kinds, place), place # "handle", chip'.out = chip.out, chip'.ints = chip.ints
      PROVE  LateInv'
  BY <1>2, LateKept DEF InHand, Handles
<1>3. CASE HandleShort \/ HandleClear
  BY <1>0, <1>2, <1>3, HandleShortEffect, HandleClearEffect
<1>4. CASE HandleReserved
  BY <1>0, <1>2, <1>4, HandleReservedEffect
<1>5. CASE HandleDescriptor \/ HandleHeader \/ HandleEnd
  BY <1>0, <1>2, <1>5, HandleDescriptorEffect, HandleHeaderEffect, HandleEndEffect
<1>6. ASSUME NEW from, NEW to, Moves(from, to), to # "handle", ctl'.setup = ctl.setup, seen'.handled = seen.handled,
             ctl'.state = "RECEIVE" => ctl.state = "RECEIVE"
      PROVE  LateInv'
  BY <1>6, LateKept DEF InHand, Moves
<1>7. CASE ResetLen \/ CheckSize
  BY <1>0, <1>6, <1>7, ResetLenEffect, CheckSizeEffect
<1>8. CASE CountPacket
  BY <1>0, <1>6, <1>8, CountPacketEffect
<1>9. CASE SetState
  <2>1. /\ Moves("state", "check") /\ UNCHANGED seen /\ ctl'.setup = ctl.setup
        /\ ctl'.state = IF main.sent = PacketSize THEN "TRANSMIT" ELSE "IDLE"
    BY <1>0, <1>9, SetStateEffect
  <2> QED BY <1>6, <2>1
<1>10. CASE BurnFails \/ BurnErase \/ BurnWrite \/ BurnReturns
  BY <1>0, <1>6, <1>10, BurnEffect
<1>11. CASE BurnDone
  BY <1>0, <1>6, <1>11, BurnDoneEffect
<1>12. CASE Check
  <2>1. main'.pc # "handle" /\ UNCHANGED <<chip, ctl, host, seen>>
    BY <1>0, <1>12, CheckEffect
  <2> QED BY <2>1, LateKept DEF InHand
<1>13. CASE SingleTransmit
  <2>1. PICK n : (ToHost(main.req) => n = 1) /\ (~ToHost(main.req) => n = 0)
    BY Zenon
  <2>2. PICK s : s = IF main.req.kind # "status" THEN ""
                     ELSE IF upg.status = "UNUSED" THEN "idle" ELSE "write"
    BY Zenon
  <2>3. PICK p : p = Answer(main.req.kind, 0, n, s)
    BY Zenon
  <2>4. /\ main'.pc = "check" /\ chip'.out = chip.out /\ chip'.ints = chip.ints
        /\ UNCHANGED <<ctl, host, seen>>
    BY <1>13, <2>1, <2>2, <2>3, SingleTransmitEffect
  <2> QED BY <2>4, LateKept DEF InHand
<1>14. CASE FirstPacket
  <2>1. PICK n : n = IF ctl.wLength <= Descriptor[main.req.kind] THEN ctl.wLength ELSE Descriptor[main.req.kind]
    BY Zenon
  <2>2. PICK sent : sent = IF n <= PacketSize THEN n ELSE PacketSize
    BY Zenon
  <2>3. /\ main'.pc = "count" /\ ctl'.setup = ctl.setup /\ ctl'.state = ctl.state
        /\ chip'.out = chip.out /\ chip'.ints = chip.ints /\ UNCHANGED <<host, seen>>
    BY <1>14, <2>1, <2>2, FirstPacketEffect
  <2> QED BY <2>3, LateKept DEF InHand
<1> QED BY <1>1, <1>3, <1>4, <1>5, <1>7, <1>8, <1>9, <1>10, <1>11, <1>12, <1>13, <1>14 DEF Main

LEMMA LateHost ==
    ASSUME TypeInv, Requested, Requested', LateInv, NewRequest \/ HostGoesOn \/ BulkSend
    PROVE  LateInv'
<1>0. TypeOK /\ host \in HostStates /\ host.req \in Requests
  BY TypeParts DEF TypeInv, HostStates
<1>1. ASSUME host'.pc = "idle"
      PROVE  LateInv'
  BY <1>1 DEF LateInv, InHand, Requested, IdleInv
<1>2. CASE NewRequest
  <2>1. PICK q \in Requests : host.pc = "idle" /\ chip'.out = Setup(q) /\ UNCHANGED ctl
    BY <1>0, <1>2, NewRequestEffect
  <2>2. chip'.out.setup /\ ctl'.state # "RECEIVE"
    BY <2>1, SetupPacket DEF Requested, IdleInv
  <2> QED BY <2>2 DEF LateInv, InHand
<1>3. CASE HostSend
  <2>1. PICK n : n = IF PacketSize <= host.req.wLength - host.count
                     THEN PacketSize ELSE host.req.wLength - host.count
    BY Zenon
  <2>2. /\ host.pc = "send" /\ chip.out = NoPacket /\ n \in 1 .. PacketSize
        /\ host'.req = host.req
        /\ host'.pc = IF host.count + n = host.req.wLength THEN "ack" ELSE "send"
        /\ UNCHANGED <<isr, ctl, main, upg, aborts, peer, seen>>
    BY <1>3, <2>1, HostSendEffect
  <2>3. InHand
    BY <2>2, NoPacketIs DEF InHand
  <2>4. host.req.kind \in Direct => ~(ctl.setup \/ main.pc = "handle" \/ seen.handled # 0)
    BY <2>2, <2>3 DEF LateInv
  <2>5. host.req.kind = "block" => host'.pc = "ack"
    <3>1. host.req.kind = "block" => host.req.wLength = 1 /\ host.count \in Nat /\ host.count < host.req.wLength
      BY <1>0, <2>2, RequestShape DEF TypeInv, HostStates
    <3> QED BY <2>1, <2>2, <3>1 DEF PacketSize
  <2> QED BY <2>2, <2>4, <2>5 DEF LateInv
<1>4. CASE HostAck
  <2>1. PICK kind : kind = host.req.kind
    OBVIOUS
  <2> QED BY <1>1, <1>4, <2>1, HostAckEffect
<1>5. CASE HostRead
  <2>1. PICK p : p = chip.in
    OBVIOUS
  <2>2. /\ host.pc = "read" /\ host'.req = host.req /\ chip.in # NoPacket
    BY <1>5, <2>1, HostReadEffect
  <2>3. host.req.kind \notin Direct
    BY <2>2, NoData
  <2> QED BY <2>2, <2>3 DEF LateInv, Direct
<1>6. CASE HostStatus \/ HostStalled
  <2>1. host' = Idle
    BY <1>6, HostStatusEffect DEF HostStalled
  <2> QED BY <1>0, <1>1, <2>1, IdleIs
<1>7. CASE BulkSend
  <2>1. PICK n : n = Len(chip.fifo)
    OBVIOUS
  <2>2. /\ chip'.ints = chip.ints \cup {"main"} /\ chip'.out = chip.out
        /\ host'.pc = host.pc /\ host'.req = host.req
        /\ UNCHANGED <<isr, ctl, main, upg, aborts, peer, seen>>
    BY <1>7, <2>1, BulkSendEffect
  <2> QED BY <2>2, LateKept DEF InHand
<1> QED BY <1>2, <1>3, <1>4, <1>5, <1>6, <1>7 DEF HostGoesOn

\* The download that is acknowledged, or will be as soon as the host reads so.
Due == IF Ending /\ host.next > Size[host.file] THEN host.file ELSE seen.ended
\* It is on its way into the flash.
Queued ==
    main.pc \in {"size", "burn", "erase", "write"} \/ (main.pc \in {"ack", "check"} /\ upg.status = "WRITE")
ErrorAnswered == chip.in # NoPacket /\ chip.in.status = "error" /\ "in" \notin chip.ints
IdleTold == (chip.in # NoPacket /\ chip.in.status = "idle") \/ seen.told = "idle"
StartInv ==
    /\ host.file # NoFile \/ (host.pc # "idle" /\ host.req.kind = "header") => seen.ended = NoFile
    /\ host.pc \in {"send", "ack"} => seen.told = ""
    /\ chip.in # NoPacket /\ chip.in.status # "" => host.pc = "read" /\ host.req.kind = "status"
\* The handler will not overwrite the answer to the next request.
LastInv == "out" \in isr /\ "in" \in chip.ints \ isr => Due = NoFile
DueInv ==
    Due # NoFile =>
       /\ Queued => upg.header = Due /\ (main.pc = "size" => upg.len = Size[Due])
       /\ Queued \/ seen.burnt = Due \/ upg.errorno = 1 \/ ErrorAnswered
       /\ IdleTold => seen.burnt = Due
Truthful == StartInv /\ LastInv /\ DueInv
TruthInv == aborts = 0 /\ main.pc # "off" => LateInv /\ (~seen.refused => Truthful)

LEMMA DueKept ==
    ASSUME DueInv, NEW due, due = Due, NEW new, new = Due', new \in {due, NoFile},
           new # NoFile =>
              /\ Queued => Queued' \/ seen'.burnt = new \/ upg'.errorno = 1
              /\ Queued' => Queued /\ upg'.header = upg.header
              /\ main'.pc = "size" => main.pc = "size" /\ upg'.len = upg.len
              /\ seen.burnt = new => seen'.burnt = new
              /\ upg.errorno = 1 => upg'.errorno = 1
              /\ ErrorAnswered => ErrorAnswered'
              /\ IdleTold' => IdleTold
    PROVE  DueInv'
<1>1. CASE new = NoFile
  BY <1>1 DEF DueInv
<1>2. CASE new # NoFile
  <2>1. new = due
    BY <1>2
  <2>2. /\ Queued => upg.header = new /\ (main.pc = "size" => upg.len = Size[new])
        /\ Queued \/ seen.burnt = new \/ upg.errorno = 1 \/ ErrorAnswered
        /\ IdleTold => seen.burnt = new
    BY <1>2, <2>1 DEF DueInv
  <2>3. main'.pc = "size" => Queued
    BY <1>2 DEF Queued
  <2>4. /\ Queued' => upg'.header = new /\ (main'.pc = "size" => upg'.len = Size[new])
        /\ Queued' \/ seen'.burnt = new \/ upg'.errorno = 1 \/ ErrorAnswered'
        /\ IdleTold' => seen'.burnt = new
    BY <1>2, <2>2, <2>3
  <2> QED BY <2>4 DEF DueInv
<1> QED BY <1>1, <1>2

\* Steps of the box that answer nothing of the flash.
LEMMA TruthKept ==
    ASSUME Truthful, NEW due, due = Due, Due' = due, UNCHANGED host,
           seen'.told = seen.told, seen'.ended = seen.ended,
           chip'.in = chip.in \/ ((chip.in = NoPacket \/ "in" \in chip.ints) /\ chip'.in.status = ""),
           "in" \in chip'.ints => "in" \in chip.ints,
           "out" \in isr' /\ "in" \in chip'.ints \ isr' => "out" \in isr /\ "in" \in chip.ints \ isr,
           due # NoFile => /\ Queued => Queued' \/ seen'.burnt = due \/ upg'.errorno = 1
                           /\ Queued' => Queued /\ upg'.header = upg.header
                           /\ main'.pc = "size" => main.pc = "size" /\ upg'.len = upg.len
                           /\ seen.burnt = due => seen'.burnt = due
                           /\ upg.errorno = 1 => upg'.errorno = 1
    PROVE  Truthful'
<1>1. StartInv'
  BY DEF Truthful, StartInv
<1>2. LastInv'
  BY DEF Truthful, LastInv
<1>3. DueInv'
  <2>1. ErrorAnswered => ErrorAnswered'
    BY DEF ErrorAnswered
  <2>2. IdleTold' => IdleTold
    BY DEF IdleTold
  <2> QED BY <2>1, <2>2, DueKept DEF Truthful
<1> QED BY <1>1, <1>2, <1>3 DEF Truthful

LEMMA PieceTellsNothing == \A kind, from, n : Piece(kind, from, n).status = ""
BY DEF Piece, Answer

LEMMA TruthIsr ==
    ASSUME TypeInv, Requested, Filed, Truthful, main.pc # "off", Interrupt \/ TxDone \/ RxData \/ MainRxDone
    PROVE  Truthful'
<1>0. TypeOK /\ ctl \in Ctls /\ chip \in Chips /\ upg \in Upgs /\ seen \in Histories
  BY TypeParts DEF TypeInv
<1>1. PICK due : due = Due
  OBVIOUS
<1>2. CASE Interrupt
  <2>1. /\ chip'.ints = chip.ints \ {"reset"} /\ chip'.out = chip.out /\ chip'.in = chip.in
        /\ isr' = {} \/ isr' = chip.ints
        /\ seen'.handled = seen.handled /\ seen'.told = seen.told /\ seen'.ended = seen.ended
        /\ seen'.burnt = seen.burnt
        /\ UNCHANGED <<ctl, main, upg, host, aborts, peer>>
    BY <1>0, <1>2, InterruptEffect
  <2>2. Due' = due
    BY <1>1, <2>1 DEF Due, Ending, InHand
  <2>3. Queued' = Queued
    BY <2>1 DEF Queued
  <2>4. ~("out" \in isr' /\ "in" \in chip'.ints \ isr')
    BY <2>1
  <2> QED BY <1>1, <2>1, <2>2, <2>3, <2>4, TruthKept
<1>3. CASE TxDone
  <2>1. PICK len, count :
          /\ len = IF ctl.wLength - ctl.wCount \in 0 .. 1 THEN ctl.wLength - ctl.wCount ELSE PacketSize
          /\ count = IF ctl.wLength - ctl.wCount < 2 THEN ctl.wLength ELSE ctl.wCount + 2
    OBVIOUS
  <2>2. PICK p : p = Piece(ctl.pData, ctl.wCount, len)
    OBVIOUS
  <2>3. /\ chip'.out = chip.out /\ chip'.ints = chip.ints \ {"in"}
        /\ chip'.in \in {chip.in, p}
    BY <1>0, <1>3, <2>1, <2>2, TxDoneEffect
  <2>4. "in" \in isr /\ isr' = isr \ {"in"} /\ UNCHANGED <<main, upg, host, aborts, peer, seen>>
    BY <1>3 DEF TxDone
  <2>5. "in" \in chip.ints
    BY <2>4 DEF Requested, ChipInv
  <2>6. p.status = ""
    BY <2>2, PieceTellsNothing
  <2>7. Due' = due
    BY <1>1, <2>3, <2>4 DEF Due, Ending, InHand
  <2>8. Queued' = Queued
    BY <2>4 DEF Queued
  <2>9. "in" \notin chip'.ints
    BY <2>3
  <2> QED BY <1>1, <2>3, <2>4, <2>5, <2>6, <2>7, <2>8, <2>9, TruthKept
<1>4. CASE RxData
  <2>1. PICK n : n = IF chip.out = NoPacket THEN 0 ELSE chip.out.len
    OBVIOUS
  <2>2. PICK last \in BOOLEAN : last <=> n # PacketSize \/ ctl.wCount + n >= ctl.wLength
    BY Zenon
  <2>3. /\ ~chip.out.setup /\ chip'.out \in {chip.out, NoPacket}
        /\ chip'.ints = chip.ints \ {"out"} /\ chip'.in = chip.in /\ isr' = isr \ {"out"}
        /\ UNCHANGED <<main, upg, host, aborts, peer, seen>>
    BY <1>0, <1>4, <2>1, <2>2, RxDataEffect
  <2>4. InHand' <=> InHand
    BY <2>3, NoPacketIs DEF InHand
  <2>5. Due' = due
    BY <1>1, <2>3, <2>4 DEF Due, Ending
  <2>6. Queued' = Queued
    BY <2>3 DEF Queued
  <2>7. "out" \notin isr' /\ ("in" \in chip'.ints => "in" \in chip.ints)
    BY <2>3
  <2> QED BY <1>1, <2>3, <2>5, <2>6, <2>7, TruthKept
<1>5. CASE MainRxDone
  <2>1. PICK n : n = Len(chip.fifo)
    OBVIOUS
  <2>2. /\ isr' = {} /\ chip'.out = chip.out /\ chip'.ints = chip.ints \ {"main"} /\ chip'.in = chip.in
        /\ upg'.status = upg.status /\ upg'.errorno = upg.errorno /\ upg'.header = upg.header
        /\ upg.status # "DOWNLOAD" => upg' = upg
        /\ UNCHANGED <<ctl, main, host, aborts, peer, seen>>
    BY <1>0, <1>5, <2>1, MainRxDoneEffect
  <2>3. Due' = due
    BY <1>1, <2>2 DEF Due, Ending, InHand
  <2>4. Queued' = Queued
    BY <2>2 DEF Queued
  <2>5. main.pc = "size" => upg' = upg
    BY <2>2 DEF Filed, PlaceInv
  <2>6. "out" \notin isr' /\ ("in" \in chip'.ints => "in" \in chip.ints)
    BY <2>2
  <2> QED BY <1>1, <2>2, <2>3, <2>4, <2>5, <2>6, TruthKept
<1> QED BY <1>2, <1>3, <1>4, <1>5

LEMMA TruthRxSetup ==
    ASSUME TypeInv, Requested, Filed, Truthful, main.pc # "off", RxSetup
    PROVE  Truthful'
<1>0. TypeOK /\ ctl \in Ctls /\ chip \in Chips /\ upg \in Upgs /\ seen \in Histories
  BY TypeParts DEF TypeInv
<1>1. PICK due : due = Due
  OBVIOUS
<1>2. PICK q : q = chip.out.req
  OBVIOUS
<1>3. /\ chip.out.setup /\ chip'.out = NoPacket /\ chip'.ints = chip.ints \ {"out"}
      /\ "out" \in isr /\ "in" \notin isr /\ isr' = isr \ {"out"}
      /\ chip'.in = IF q.kind = "status" THEN StatusAnswer ELSE chip.in
      /\ upg' = IF q.kind = "status" /\ FlashStatus = "error" THEN [upg EXCEPT !.errorno = 0] ELSE upg
      /\ q.kind # "status" => seen' = seen
      /\ q.kind = "status" => seen' = [seen EXCEPT !.handled = @ + 1]
      /\ UNCHANGED <<main, host, aborts, peer>>
  BY <1>0, <1>2, RxSetupEffect
<1>4. q = host.req /\ host.pc # "idle" /\ seen.handled = 0 /\ chip.in = NoPacket
  BY <1>2, <1>3 DEF Requested, SetupInv
<1>5. seen'.told = seen.told /\ seen'.ended = seen.ended /\ seen'.burnt = seen.burnt
  BY <1>0, <1>3 DEF Histories
<1>6. ~Ending /\ ~Ending'
  BY <1>3, <1>4 DEF Ending, InHand
<1>7. due = seen.ended /\ Due' = due
  BY <1>1, <1>3, <1>5, <1>6 DEF Due
<1>8. "out" \notin isr' /\ ("in" \in chip'.ints => "in" \in chip.ints)
  BY <1>3
<1>9. CASE q.kind # "status"
  <2>1. Queued' = Queued
    BY <1>3, <1>9 DEF Queued
  <2> QED BY <1>1, <1>3, <1>5, <1>7, <1>8, <1>9, <2>1, TruthKept
<1>10. CASE q.kind = "status"
  <2>1. host.pc = "read"
    <3>1. ToHost(q)
      BY <1>10 DEF ToHost
    <3>2. host \in HostStates
      BY <1>0, TypeParts
    <3> QED BY <1>4, <3>1, <3>2 DEF Requested, HostInv, HostStates
  <2>2. PICK f : f = FlashStatus
    OBVIOUS
  <2>3. /\ f \in {"idle", "error", "erase", "write", "unknown"}
        /\ f = "idle" <=> upg.status = "UNUSED" /\ upg.errorno = 0
        /\ f = "error" <=> upg.status = "UNUSED" /\ upg.errorno = 1
    BY <1>0, <2>2, FlashStatusIs
  <2>4. chip'.in # NoPacket /\ chip'.in.status = f
    <3>1. chip'.in = [to |-> "status", from |-> 0, len |-> 1, status |-> f]
      BY <1>3, <1>10, <2>2 DEF StatusAnswer, Answer
    <3>2. chip'.in # NoPacket
      BY <3>1 DEF NoPacket
    <3> QED BY <3>1, <3>2
  <2>5. /\ upg'.status = upg.status /\ upg'.len = upg.len /\ upg'.header = upg.header
        /\ f # "error" => upg' = upg
    BY <1>0, <1>3, <2>2 DEF Upgs
  <2>6. StartInv'
    BY <1>3, <1>4, <1>5, <1>10, <2>1 DEF Truthful, StartInv
  <2>7. LastInv'
    BY <1>8 DEF LastInv
  <2>8. DueInv'
    <3> SUFFICES ASSUME due # NoFile
                 PROVE  /\ Queued' => upg'.header = due /\ (main'.pc = "size" => upg'.len = Size[due])
                        /\ Queued' \/ seen'.burnt = due \/ upg'.errorno = 1 \/ ErrorAnswered'
                        /\ IdleTold' => seen'.burnt = due
      BY <1>7 DEF DueInv
    <3>1. /\ Queued => upg.header = due /\ (main.pc = "size" => upg.len = Size[due])
          /\ Queued \/ seen.burnt = due \/ upg.errorno = 1 \/ ErrorAnswered
          /\ IdleTold => seen.burnt = due
      BY <1>1 DEF Truthful, DueInv
    <3>2. Queued' = Queued
      BY <1>3, <2>5 DEF Queued
    <3>3. ~ErrorAnswered
      BY <1>4 DEF ErrorAnswered
    <3>4. f = "error" => ErrorAnswered'
      <4>1. "in" \notin chip.ints
        BY <1>1, <1>3 DEF Truthful, LastInv
      <4> QED BY <1>3, <2>4, <4>1 DEF ErrorAnswered
    <3>5. Queued' \/ seen'.burnt = due \/ upg'.errorno = 1 \/ ErrorAnswered'
      BY <1>5, <2>5, <3>1, <3>2, <3>3, <3>4
    <3>6. IdleTold' => seen'.burnt = due
      <4>1. CASE f = "idle"
        <5>1. ~Queued
          BY <2>3, <4>1 DEF Filed, PlaceInv, Queued
        <5>2. upg.errorno # 1
          BY <2>3, <4>1
        <5> QED BY <1>5, <3>1, <3>3, <5>1, <5>2
      <4>2. CASE f # "idle"
        <5>1. IdleTold' => IdleTold
          BY <1>5, <2>4, <4>2 DEF IdleTold
        <5> QED BY <1>5, <3>1, <5>1
      <4> QED BY <4>1, <4>2
    <3> QED BY <1>3, <2>5, <3>1, <3>2, <3>5, <3>6
  <2> QED BY <2>6, <2>7, <2>8 DEF Truthful
<1> QED BY <1>9, <1>10

\* Steps of the main loop that keep the place of what waits to be burnt.
LEMMA TruthMoves ==
    ASSUME TypeInv, Requested, Filed, Truthful,
           Loop \/ SingleTransmit \/ FirstPacket \/ CountPacket \/ SetState \/ Check \/ ResetLen \/ CheckSize
           \/ BurnFails \/ BurnErase \/ BurnWrite \/ BurnReturns
    PROVE  Truthful'
<1>0. TypeOK /\ upg \in Upgs /\ seen \in Histories
  BY TypeParts DEF TypeInv
<1>1. PICK due : due = Due
  OBVIOUS
\* What they have in common.
<1>2. ASSUME UNCHANGED <<isr, host, seen>>, chip'.out = chip.out, chip'.ints = chip.ints,
             chip'.in = chip.in \/ (chip.in = NoPacket /\ chip'.in.status = ""),
             due # NoFile => /\ Queued => Queued' \/ upg'.errorno = 1
                             /\ Queued' => Queued /\ upg'.header = upg.header
                             /\ main'.pc = "size" => main.pc = "size" /\ upg'.len = upg.len
                             /\ upg.errorno = 1 => upg'.errorno = 1
      PROVE  Truthful'
  <2>1. Due' = due
    BY <1>1, <1>2 DEF Due, Ending, InHand
  <2>2. "out" \in isr' /\ "in" \in chip'.ints \ isr' => "out" \in isr /\ "in" \in chip.ints \ isr
    BY <1>2
  <2> QED BY <1>1, <1>2, <2>1, <2>2, TruthKept
<1>3. CASE Loop
  <2>1. main.pc = "loop" /\ main'.pc = "handle" /\ UNCHANGED <<chip, isr, upg, host, seen>>
    BY <1>0, <1>3, LoopEffect
  <2> QED BY <1>2, <2>1 DEF Queued
<1>4. CASE SingleTransmit
  <2>1. PICK n : (ToHost(main.req) => n = 1) /\ (~ToHost(main.req) => n = 0)
    BY Zenon
  <2>2. PICK s : s = IF main.req.kind # "status" THEN ""
                     ELSE IF upg.status = "UNUSED" THEN "idle" ELSE "write"
    BY Zenon
  <2>3. PICK p : p = Answer(main.req.kind, 0, n, s)
    BY Zenon
  <2>4. /\ main.pc = "ack" /\ main'.pc = "check" /\ p.status = s
        /\ chip'.in \in {chip.in, p}
        /\ chip'.out = chip.out /\ chip'.ints = chip.ints
        /\ UNCHANGED <<isr, upg, host, seen>>
    <3>1. /\ main.pc = "ack" /\ main'.pc = "check"
          /\ chip'.out = chip.out /\ chip'.ints = chip.ints
          /\ UNCHANGED <<isr, upg, host, seen>>
      BY <1>4, <2>1, <2>2, <2>3, SingleTransmitEffect DEF At
    <3>2. chip'.in \in {chip.in, p}
      <4>1. n = IF ToHost(main.req) THEN 1 ELSE 0
        BY Zenon, <2>1
      <4>2. chip' = Put(chip, p)
        BY Zenon, <1>4, <2>2, <2>3, <4>1 DEF SingleTransmit
      <4>3. chip \in Chips
        BY <1>0, TypeParts
      <4> QED BY ONLY <4>2, <4>3 DEF Put, Chips
    <3>3. p.status = s
      BY <2>3 DEF Answer
    <3> QED BY <3>1, <3>2, <3>3
  <2>5. chip.in = NoPacket /\ main.req.kind # "status"
    BY <2>4 DEF Requested, IdleInv, SetupInv, TakenInv, HandledInv, InHand, Free, Busy
  <2>6. s = ""
    BY <2>2, <2>5
  <2>7. Queued' = Queued
    BY <2>4 DEF Queued
  <2> QED BY <1>2, <2>4, <2>5, <2>6, <2>7
<1>5. CASE FirstPacket
  <2>1. PICK n : n = IF ctl.wLength <= Descriptor[main.req.kind] THEN ctl.wLength ELSE Descriptor[main.req.kind]
    BY Zenon
  <2>2. PICK sent : sent = IF n <= PacketSize THEN n ELSE PacketSize
    BY Zenon
  <2>3. PICK p : p = Piece(main.req.kind, 0, sent)
    OBVIOUS
  <2>4. /\ main.pc = "answer" /\ main'.pc = "count"
        /\ chip'.in = IF chip.locked THEN chip.in ELSE p
        /\ chip'.out = chip.out /\ chip'.ints = chip.ints
        /\ UNCHANGED <<isr, upg, host, seen>>
    BY <1>5, <2>1, <2>2, <2>3, FirstPacketEffect DEF At
  <2>5. chip.in = NoPacket
    BY <2>4 DEF Requested, IdleInv, SetupInv, TakenInv, HandledInv, InHand, Free, Busy
  <2>6. p.status = ""
    BY <2>3, PieceTellsNothing
  <2>7. ~Queued /\ ~Queued'
    BY <2>4 DEF Queued
  <2> QED BY <1>2, <2>4, <2>5, <2>6, <2>7
<1>6. CASE CountPacket \/ SetState
  <2>1. /\ \/ main.pc = "count" /\ main'.pc = "state"
           \/ main.pc = "state" /\ main'.pc = "check"
        /\ UNCHANGED <<chip, isr, upg, host, seen>>
    BY <1>0, <1>6, CountPacketEffect, SetStateEffect DEF Moves
  <2>2. upg.status # "WRITE"
    BY <2>1 DEF Filed, PlaceInv
  <2>3. ~Queued /\ ~Queued' /\ main'.pc # "size"
    BY <2>1, <2>2 DEF Queued
  <2> QED BY <1>2, <2>1, <2>3
<1>7. CASE Check
  <2>1. /\ main.pc = "check" /\ main'.pc = IF upg.status = "WRITE" THEN "burn" ELSE "loop"
        /\ UNCHANGED <<chip, isr, upg, host, seen>>
    BY <1>0, <1>7, CheckEffect
  <2>2. Queued' <=> Queued
    BY <2>1 DEF Queued
  <2> QED BY <1>2, <2>1, <2>2
<1>8. CASE ResetLen
  <2>1. /\ main.pc = "len" /\ main'.pc = "ack" /\ UNCHANGED <<chip, isr, host, seen>>
        /\ upg'.status = upg.status /\ upg'.errorno = upg.errorno
    BY <1>0, <1>8, ResetLenEffect DEF Moves
  <2>2. ~Queued /\ ~Queued'
    BY <2>1 DEF Queued, Filed, PlaceInv
  <2> QED BY <1>2, <2>1, <2>2
<1>9. CASE CheckSize
  <2>1. /\ main.pc = "size" /\ main'.pc = "ack" /\ UNCHANGED <<chip, isr, host, seen>>
        /\ upg'.errorno = upg.errorno /\ upg'.header = upg.header
        /\ upg.header # NoFile /\ upg.len = Size[upg.header] => upg'.status = upg.status
    BY <1>0, <1>9, CheckSizeEffect DEF Moves
  <2>2. Queued /\ upg.status = "WRITE"
    BY <2>1 DEF Queued, Filed, PlaceInv
  <2>3. due # NoFile => upg.header = due /\ upg.len = Size[due]
    BY <1>1, <2>1, <2>2 DEF Truthful, DueInv
  <2>4. due # NoFile => Queued'
    BY <2>1, <2>2, <2>3 DEF Queued
  <2> QED BY <1>2, <2>1, <2>2, <2>4
<1>10. CASE BurnFails \/ BurnErase \/ BurnWrite \/ BurnReturns
  <2>1. /\ UNCHANGED seen
        /\ upg'.header = upg.header
        /\ \/ Moves("burn", "burnt") /\ upg'.errorno = 1
           \/ Moves("erase", "burnt") /\ upg'.errorno = 1
           \/ Moves("write", "burnt") /\ upg'.errorno = 1
           \/ Moves("burn", "erase") /\ upg'.errorno = upg.errorno
           \/ Moves("erase", "write") /\ upg'.errorno = upg.errorno
           \/ Moves("burnt", "loop") /\ upg'.errorno = upg.errorno
    BY <1>0, <1>10, BurnEffect
  <2>2. UNCHANGED <<chip, isr, host>>
    BY <2>1 DEF Moves
  <2>3. /\ Queued => Queued' \/ upg'.errorno = 1
        /\ Queued' => Queued
        /\ main'.pc # "size"
        /\ upg.errorno = 1 => upg'.errorno = 1
    BY <2>1 DEF Moves, Queued
  <2> QED BY <1>2, <2>1, <2>2, <2>3
<1> QED BY <1>3, <1>4, <1>5, <1>6, <1>7, <1>8, <1>9, <1>10

LEMMA TruthHandle ==
    ASSUME TypeInv, Requested, Filed, Truthful, ~seen'.refused,
           HandleShort \/ HandleClear \/ HandleReserved \/ HandleDescriptor \/ HandleHeader
    PROVE  Truthful'
<1>0. TypeOK
  BY DEF TypeInv
<1>1. PICK due : due = Due
  OBVIOUS
<1>2. ASSUME NEW kinds, NEW place, Handles(kinds, place), "end" \notin kinds, place \in {"ack", "check", "answer", "len"},
             chip'.out = chip.out, chip'.in = chip.in, chip'.ints = chip.ints,
             upg'.status = upg.status \/ upg'.status = "DOWNLOAD", upg'.errorno = upg.errorno,
             seen'.burnt = seen.burnt \/ kinds = {"header"}
      PROVE  Truthful'
  <2>1. /\ InHand /\ seen.handled = 0 /\ host.req.kind \in kinds
        /\ main.pc = "handle" /\ main'.pc = place
        /\ UNCHANGED <<isr, ctl, host, aborts, peer>>
    BY <1>2, HandlesIts
  <2>2. seen'.told = seen.told /\ seen'.ended = seen.ended
    BY <1>2 DEF Handles
  <2>3. ~Ending /\ ~Ending'
    BY <1>2, <2>1 DEF Ending
  <2>4. due = seen.ended /\ Due' = due
    BY <1>1, <2>1, <2>2, <2>3 DEF Due
  <2>5. kinds = {"header"} => due = NoFile
    BY <2>1, <2>4 DEF Truthful, StartInv, InHand
  <2>6. ~Queued /\ ~Queued'
    BY <1>2, <2>1 DEF Queued, Filed, PlaceInv
  <2>7. "out" \in isr' /\ "in" \in chip'.ints \ isr' => "out" \in isr /\ "in" \in chip.ints \ isr
    BY <1>2, <2>1
  <2>8. main'.pc # "size"
    BY <1>2, <2>1
  <2> QED BY <1>1, <1>2, <2>1, <2>2, <2>4, <2>5, <2>6, <2>7, <2>8, TruthKept
<1>3. CASE HandleShort
  <2>1. /\ Handles({"short", "status", "set", "block"}, "ack") /\ UNCHANGED <<chip, upg>>
        /\ seen'.burnt = seen.burnt
    BY <1>0, <1>3, HandleShortEffect
  <2> QED BY <1>2, <2>1
<1>4. CASE HandleClear
  <2>1. Handles({"clear"}, "check") /\ UNCHANGED <<chip, upg>> /\ seen'.burnt = seen.burnt
    BY <1>0, <1>4, HandleClearEffect
  <2> QED BY <1>2, <2>1
<1>5. CASE HandleReserved
  <2>1. /\ Handles({"reserved", "long"}, "check") /\ UNCHANGED upg /\ seen'.burnt = seen.burnt
        /\ chip'.out = chip.out /\ chip'.in = chip.in /\ chip'.ints = chip.ints
    BY <1>0, <1>5, HandleReservedEffect
  <2> QED BY <1>2, <2>1
<1>6. CASE HandleDescriptor
  <2>1. /\ Handles({"device", "config", "vendor"}, "answer") /\ UNCHANGED chip /\ seen'.burnt = seen.burnt
        /\ upg'.status = upg.status /\ upg'.errorno = upg.errorno
    BY <1>0, <1>6, HandleDescriptorEffect
  <2> QED BY <1>2, <2>1
<1>7. CASE HandleHeader
  <2>1. Handles({"header"}, "len") /\ UNCHANGED chip /\ upg'.status = "DOWNLOAD" /\ upg'.errorno = upg.errorno
    BY <1>0, <1>7, HandleHeaderEffect
  <2> QED BY <1>2, <2>1
<1> QED BY <1>3, <1>4, <1>5, <1>6, <1>7

LEMMA TruthEnd ==
    ASSUME TypeInv, Requested, Filed, Truthful, HandleEnd
    PROVE  Truthful'
<1>0. TypeOK /\ upg \in Upgs /\ host \in HostStates /\ chip.fifo \in Seq(Contents)
  BY TypeParts DEF TypeInv, Chips
<1>1. /\ upg'.header = upg.header /\ upg'.len = upg.len /\ upg'.errorno = upg.errorno
      /\ seen'.burnt = seen.burnt /\ UNCHANGED chip
      /\ \/ Handles({"end"}, "size") /\ upg.status = "DOWNLOAD"
         \/ Handles({"end"}, "ack") /\ upg.status # "DOWNLOAD"
  BY <1>0, HandleEndEffect
<1>2. /\ InHand /\ seen.handled = 0 /\ host.req.kind = "end" /\ chip.fifo = <<>>
      /\ seen'.handled = 1 /\ UNCHANGED <<isr, ctl, host, aborts, peer>>
  BY <1>1, HandlesIts
<1>3. seen'.told = seen.told /\ seen'.ended = seen.ended /\ Undisturbed
  BY <1>1 DEF Handles
<1>4. ~Ending /\ InHand'
  BY <1>1, <1>2 DEF Ending, InHand
<1>5. host.file # NoFile /\ host.file \in Files
  BY <1>0, <1>2 DEF Filed, FifoInv, InHand, HostStates
<1>6. /\ upg.header = host.file /\ host.next = upg.len + Len(chip.fifo) + 1
      /\ host.next + host.bulk <= Size[host.file] + 1 /\ upg.status = "DOWNLOAD"
  BY <1>4, <1>5 DEF Filed, CountInv
<1>7. main'.pc = "size"
  BY <1>1, <1>6 DEF Handles
<1>8. seen.ended = NoFile /\ seen.told = "" /\ chip.in = NoPacket
  <2>1. host.pc = "ack"
    BY <1>2, NoData DEF InHand
  <2>2. chip.in = NoPacket
    BY <1>2 DEF Requested, TakenInv
  <2> QED BY <1>5, <2>1, <2>2 DEF Truthful, StartInv
<1>9. Due' # NoFile => Due' = host.file /\ host.next > Size[host.file]
  BY <1>2, <1>3, <1>8 DEF Due
<1>10. host.next > Size[host.file] => upg.len = Size[host.file]
  <2>1. Len(chip.fifo) = 0
    BY <1>2
  <2>2. host.next \in Nat /\ host.bulk \in Nat /\ upg.len \in Nat /\ Size[host.file] \in Nat
    BY <1>0, <1>5, FileFacts DEF HostStates, Upgs
  <2>3. host.next = upg.len + 1
    BY <1>6, <2>1, <2>2
  <2> QED BY <1>6, <2>2, <2>3
<1>11. StartInv'
  BY <1>1, <1>2, <1>3, <1>8 DEF Truthful, StartInv
<1>12. LastInv'
  BY <1>2, <1>3 DEF LastInv, Undisturbed
<1>13. DueInv'
  <2>1. Queued' /\ ~IdleTold'
    BY <1>1, <1>3, <1>7, <1>8 DEF Queued, IdleTold
  <2>2. Due' # NoFile => upg'.header = Due' /\ upg'.len = Size[Due']
    BY <1>1, <1>6, <1>9, <1>10
  <2> QED BY <2>1, <2>2 DEF DueInv
<1> QED BY <1>11, <1>12, <1>13 DEF Truthful

LEMMA TruthBurnDone ==
    ASSUME TypeInv, Requested, Filed, Truthful, BurnDone
    PROVE  Truthful'
<1>0. TypeOK
  BY DEF TypeInv
<1>1. PICK due : due = Due
  OBVIOUS
<1>2. /\ Moves("write", "burnt") /\ UNCHANGED <<ctl, upg>>
      /\ seen'.handled = seen.handled /\ seen'.told = seen.told /\ seen'.ended = seen.ended
  BY <1>0, BurnDoneEffect
<1>3. PICK f \in Files : Holds(f) /\ seen'.burnt = f
  BY <1>0, BurnDoneEffect
<1>4. main.pc = "write" /\ main'.pc = "burnt" /\ UNCHANGED <<chip, isr, host>>
  BY <1>2 DEF Moves
<1>5. f = upg.header
  <2>1. Complete
    BY <1>4 DEF Filed, ContentsInv
  <2>2. upg.header \in Files /\ upg.len = Size[upg.header]
    BY <2>1 DEF Complete
  <2>3. Size[f] \in Nat \ {0} /\ Size[upg.header] \in Nat \ {0}
    BY <2>2, FileFacts
  <2>4. 1 \in 1 .. Size[f] /\ 1 \in 1 .. upg.len
    BY <2>2, <2>3
  <2>5. upg.buf[1] = <<f, 1>>
    BY <1>3, <2>4 DEF Holds
  <2>6. upg.buf[1] = <<upg.header, 1>> \/ upg.buf[1] = Foreign
    BY <2>1, <2>4 DEF Complete, Stored
  <2>7. <<f, 1>> # Foreign
    BY DEF Foreign
  <2> QED BY <2>5, <2>6, <2>7
<1>6. due # NoFile => seen'.burnt = due
  BY <1>1, <1>3, <1>4, <1>5 DEF Truthful, DueInv, Queued
<1>7. Due' = due
  BY <1>1, <1>2, <1>4 DEF Due, Ending, InHand
<1>8. ~Queued' /\ main'.pc # "size"
  BY <1>4 DEF Queued
<1>9. "out" \in isr' /\ "in" \in chip'.ints \ isr' => "out" \in isr /\ "in" \in chip.ints \ isr
  BY <1>4
<1> QED BY <1>1, <1>2, <1>4, <1>6, <1>7, <1>8, <1>9, TruthKept

\* Steps of the host: the box is where it was.
LEMMA TruthHost ==
    ASSUME Truthful, UNCHANGED <<main, upg, isr>>, seen'.burnt = seen.burnt,
           NEW due, due = Due, NEW new, new = Due', new \in {due, NoFile},
           new # NoFile => ~ErrorAnswered \/ ErrorAnswered',
           new # NoFile => (IdleTold' => IdleTold)
    PROVE  DueInv'
<1>1. Queued' = Queued
  BY DEF Queued
<1> QED BY <1>1, DueKept DEF Truthful

LEMMA TruthNewRequest ==
    ASSUME TypeInv, Requested, Truthful, NewRequest
    PROVE  Truthful'
<1>0. TypeOK
  BY DEF TypeInv
<1>1. PICK due, new : due = Due /\ new = Due'
  OBVIOUS
<1>2. PICK q \in Requests :
         /\ host.pc = "idle"
         /\ chip'.out = Setup(q) /\ chip'.in = NoPacket /\ chip'.ints = chip.ints \cup {"out"}
         /\ host'.req = q
         /\ host'.file = IF q.kind = "header" THEN NoFile ELSE host.file
         /\ seen'.told = ""
         /\ seen'.ended = IF q.kind = "header" THEN NoFile ELSE seen.ended
         /\ seen'.burnt = seen.burnt
         /\ UNCHANGED <<isr, ctl, main, upg, aborts, peer>>
  BY <1>0, NewRequestEffect
<1>3. ~Ending /\ ~Ending'
  BY <1>2, SetupPacket DEF Ending, InHand
<1>4. due = seen.ended /\ new = seen'.ended
  BY <1>1, <1>3 DEF Due
<1>5. StartInv'
  BY <1>2 DEF Truthful, StartInv
<1>6. LastInv'
  BY <1>1, <1>2, <1>4 DEF Truthful, LastInv
<1>7. ~ErrorAnswered
  BY <1>2 DEF Truthful, StartInv, ErrorAnswered
<1>8. ~IdleTold'
  BY <1>2 DEF IdleTold
<1>9. DueInv'
  BY <1>1, <1>2, <1>4, <1>7, <1>8, TruthHost
<1> QED BY <1>5, <1>6, <1>9 DEF Truthful

LEMMA TruthHostSend ==
    ASSUME TypeInv, Requested, Truthful, HostSend
    PROVE  Truthful'
<1>0. host \in HostStates /\ host.req \in Requests
  BY TypeParts DEF TypeInv, HostStates
<1>1. PICK due, new : due = Due /\ new = Due'
  OBVIOUS
<1>2. PICK n : n = IF PacketSize <= host.req.wLength - host.count
                   THEN PacketSize ELSE host.req.wLength - host.count
  BY Zenon
<1>3. /\ host.pc = "send" /\ chip'.in = chip.in /\ chip'.ints = chip.ints \cup {"out"}
      /\ host'.req = host.req /\ host'.pc \in {"send", "ack"} /\ host'.file = host.file
      /\ UNCHANGED <<isr, ctl, main, upg, aborts, peer, seen>>
  BY <1>2, HostSendEffect
<1>4. host.req.kind # "end"
  BY <1>3, NoData
<1>5. due = seen.ended /\ new = due
  BY <1>1, <1>3, <1>4 DEF Due, Ending
<1>6. StartInv'
  BY <1>3 DEF Truthful, StartInv
<1>7. LastInv'
  BY <1>1, <1>3, <1>5 DEF Truthful, LastInv
<1>8. ErrorAnswered' = ErrorAnswered /\ IdleTold' = IdleTold
  BY <1>3 DEF ErrorAnswered, IdleTold
<1>9. DueInv'
  BY <1>1, <1>3, <1>5, <1>8, TruthHost
<1> QED BY <1>6, <1>7, <1>9 DEF Truthful

LEMMA TruthHostAck ==
    ASSUME TypeInv, Requested, LateInv, Truthful, HostAck
    PROVE  Truthful'
<1>1. PICK due, new : due = Due /\ new = Due'
  OBVIOUS
<1>2. PICK kind : kind = host.req.kind
  OBVIOUS
<1>3. /\ host.pc = "ack" /\ chip.in # NoPacket
      /\ chip'.in = NoPacket /\ chip'.ints = chip.ints \cup {"in"} /\ chip'.out = chip.out
      /\ host'.pc = "idle"
      /\ host'.file = IF kind = "header" THEN host.req.file
                      ELSE IF kind = "end" THEN NoFile ELSE host.file
      /\ kind = "end" /\ host.next > Size[host.file] => seen'.ended = host.file
      /\ ~(kind = "end" /\ host.next > Size[host.file]) => seen'.ended = seen.ended
      /\ seen'.told = seen.told /\ seen'.burnt = seen.burnt
      /\ UNCHANGED <<isr, ctl, main, upg, aborts, peer>>
  BY <1>2, HostAckEffect
<1>4. InHand /\ seen.handled # 0
  <2>1. ~chip.out.setup
    BY <1>3 DEF Requested, SetupInv
  <2>2. InHand
    BY <1>3, <2>1 DEF InHand
  <2> QED BY <1>3, <2>2 DEF Requested, TakenInv
<1>5. new = seen'.ended /\ new = due
  BY <1>1, <1>2, <1>3, <1>4 DEF Due, Ending, InHand
<1>6. StartInv'
  BY <1>2, <1>3 DEF Truthful, StartInv
<1>7. LastInv'
  <2>1. CASE kind = "header"
    BY <1>1, <1>2, <1>3, <1>5, <2>1 DEF Truthful, StartInv, LastInv
  <2>2. CASE kind # "header"
    <3>1. kind \in Direct
      BY <1>2, <1>3, <2>2, NoData
    <3>2. "out" \notin isr
      BY <1>2, <1>4, <3>1 DEF LateInv, Requested, ChipInv
    <3> QED BY <1>3, <3>2 DEF LastInv
  <2> QED BY <2>1, <2>2
<1>8. ~ErrorAnswered
  BY <1>3 DEF Truthful, StartInv, ErrorAnswered
<1>9. ~IdleTold'
  BY <1>3 DEF Truthful, StartInv, IdleTold
<1>10. DueInv'
  BY <1>1, <1>3, <1>5, <1>8, <1>9, TruthHost
<1> QED BY <1>6, <1>7, <1>10 DEF Truthful

LEMMA TruthHostRead ==
    ASSUME TypeInv, Requested, Truthful, HostRead
    PROVE  Truthful'
<1>1. PICK due, new : due = Due /\ new = Due'
  OBVIOUS
<1>2. PICK p : p = chip.in
  OBVIOUS
<1>3. /\ host.pc = "read" /\ p # NoPacket
      /\ chip'.in = NoPacket /\ chip'.ints = chip.ints \cup {"in"}
      /\ host'.req = host.req /\ host'.pc \in {"status", "read"} /\ host'.file = host.file
      /\ seen'.told = p.status
      /\ seen'.ended = IF p.status = "error" THEN NoFile ELSE seen.ended
      /\ seen'.burnt = seen.burnt
      /\ UNCHANGED <<isr, ctl, main, upg, aborts, peer>>
  BY <1>2, HostReadEffect
<1>4. host.req.kind \notin {"end", "header"}
  BY <1>3, NoData DEF Direct
<1>5. due = seen.ended /\ new = seen'.ended
  BY <1>1, <1>3, <1>4 DEF Due, Ending
<1>6. StartInv'
  BY <1>3, <1>4 DEF Truthful, StartInv
<1>7. LastInv'
  <2>1. ~chip.out.setup
    BY <1>2, <1>3 DEF Requested, SetupInv
  <2>2. "out" \notin isr
    BY <1>3, <2>1 DEF Requested, HostInv, ChipInv
  <2> QED BY <1>3, <2>2 DEF LastInv
<1>8. new # NoFile => ~ErrorAnswered
  BY <1>2, <1>3, <1>5 DEF ErrorAnswered
<1>9. IdleTold' => IdleTold
  BY <1>2, <1>3 DEF IdleTold
<1>10. DueInv'
  BY <1>1, <1>3, <1>5, <1>8, <1>9, TruthHost
<1> QED BY <1>6, <1>7, <1>10 DEF Truthful

LEMMA TruthHostStatus ==
    ASSUME TypeInv, Requested, Truthful, HostStatus \/ HostStalled
    PROVE  Truthful'
<1>0. host \in HostStates /\ host.req \in Requests
  BY TypeParts DEF TypeInv, HostStates
<1>1. PICK due, new : due = Due /\ new = Due'
  OBVIOUS
<1>2. /\ host' = Idle /\ chip'.in = chip.in /\ chip'.ints \subseteq chip.ints \cup {"out"}
      /\ UNCHANGED <<isr, ctl, main, upg, aborts, peer, seen>>
  BY HostStatusEffect DEF HostStalled
<1>3. host'.pc = "idle" /\ host'.file = host.file
  BY <1>0, <1>2, IdleIs
<1>4. host.req.kind # "end" /\ (host.pc # "read" \/ host.req.kind # "status")
  <2>1. CASE HostStatus
    <3>1. host.pc = "status"
      BY <2>1 DEF HostStatus
    <3> QED BY <3>1, NoData DEF Direct
  <2>2. CASE HostStalled
    BY <2>2 DEF HostStalled, Requested, HostInv
  <2> QED BY <2>1, <2>2
<1>5. due = seen.ended /\ new = due
  BY <1>1, <1>2, <1>3, <1>4 DEF Due, Ending, InHand
<1>6. chip.in # NoPacket => chip.in.status = ""
  BY <1>4 DEF Truthful, StartInv
<1>7. StartInv'
  BY <1>2, <1>3, <1>6 DEF Truthful, StartInv
<1>8. LastInv'
  BY <1>1, <1>2, <1>5 DEF Truthful, LastInv
<1>9. ~ErrorAnswered /\ (IdleTold' => IdleTold)
  BY <1>2, <1>6 DEF ErrorAnswered, IdleTold
<1>10. DueInv'
  BY <1>1, <1>2, <1>5, <1>9, TruthHost
<1> QED BY <1>7, <1>8, <1>10 DEF Truthful

LEMMA TruthBulkSend ==
    ASSUME TypeInv, Requested, Truthful, BulkSend
    PROVE  Truthful'
<1>0. host \in HostStates
  BY TypeParts DEF TypeInv
<1>1. PICK due, new : due = Due /\ new = Due'
  OBVIOUS
<1>2. PICK n : n = Len(chip.fifo)
  OBVIOUS
<1>3. /\ host.bulk > 0 /\ chip'.ints = chip.ints \cup {"main"} /\ chip'.out = chip.out /\ chip'.in = chip.in
      /\ host'.pc = host.pc /\ host'.req = host.req /\ host'.file = host.file
      /\ UNCHANGED <<isr, ctl, main, upg, aborts, peer, seen>>
  BY <1>2, BulkSendEffect
<1>4. ~Ending /\ ~Ending'
  <2>1. host.pc # "idle" => host.req.kind # "end"
    BY <1>3 DEF TypeInv
  <2> QED BY <1>3, <2>1 DEF Ending, InHand
<1>5. due = seen.ended /\ new = due
  BY <1>1, <1>3, <1>4 DEF Due
<1>6. StartInv'
  BY <1>3 DEF Truthful, StartInv
<1>7. LastInv'
  BY <1>1, <1>3, <1>5 DEF Truthful, LastInv
<1>8. ErrorAnswered' = ErrorAnswered /\ IdleTold' = IdleTold
  BY <1>3 DEF ErrorAnswered, IdleTold
<1>9. DueInv'
  BY <1>1, <1>3, <1>5, <1>8, TruthHost
<1> QED BY <1>6, <1>7, <1>9 DEF Truthful

LEMMA TruthInit ==
    ASSUME Init
    PROVE  TruthInv
<1>1. /\ chip = [out |-> NoPacket, in |-> NoPacket, locked |-> FALSE, stall |-> FALSE,
                 ints |-> {}, fifo |-> <<>>]
      /\ isr = {}
  BY DEF Init
<1>2. /\ ctl.state = "IDLE" /\ host.pc = "idle" /\ host.file = NoFile
      /\ seen.ended = NoFile /\ seen.told = ""
  BY DEF Init
<1>3. chip.in = NoPacket
  BY <1>1
<1>4. Due = NoFile
  BY <1>2 DEF Due, Ending, InHand
<1> QED BY <1>1, <1>2, <1>3, <1>4 DEF TruthInv, LateInv, InHand, Truthful, StartInv, LastInv, DueInv

LEMMA TruthStep ==
    ASSUME TypeInv, RequestInv, FileInv, TruthInv, [Next]_vars
    PROVE  TruthInv'
<1>1. CASE UNCHANGED vars
  <2>1. UNCHANGED <<chip, isr, ctl, main, upg, host, aborts, peer, seen>>
    BY <1>1 DEF vars
  <2> QED BY <2>1 DEF TruthInv, LateInv, InHand, Truthful, StartInv, LastInv, DueInv, Due, Ending, Queued,
                      ErrorAnswered, IdleTold
<1>2. CASE Next
  <2> SUFFICES ASSUME aborts' = 0, main'.pc # "off"
               PROVE  LateInv' /\ (~seen'.refused => Truthful')
    BY DEF TruthInv
  <2>1. ~Abort /\ aborts = 0
    BY <1>2, AbortsGrow
  <2>2. OffInv /\ (main.pc # "off" => Requested)
    BY <2>1 DEF RequestInv
  <2>3. main.pc # "off" /\ Requested /\ LateInv
    BY <1>2, <2>1, <2>2, OffStep DEF OffInv, TruthInv
  <2>4. ~PowerKey
    BY PowerKeyEffect DEF TypeInv
  <2>5. Requested'
    BY <1>2, <2>1, <2>3, <2>4, RequestedStep
  <2>6. LateInv'
    BY <1>2, <2>1, <2>3, <2>4, <2>5, LateIsr, LateMain, LateHost DEF Next
  <2>7. ASSUME ~seen'.refused
        PROVE  Truthful'
    <3>1. ~seen.refused
      BY <1>2, <2>1, <2>7, RefusedGrows
    <3>2. Filed /\ Truthful
      BY <2>1, <2>3, <3>1 DEF FileInv, TruthInv
    <3>3. CASE Isr
      BY <2>3, <3>2, <3>3, TruthIsr, TruthRxSetup DEF Isr
    <3>4. CASE Main
      BY <2>3, <2>7, <3>2, <3>4, TruthMoves, TruthHandle, TruthEnd, TruthBurnDone DEF Main
    <3>5. CASE NewRequest \/ HostGoesOn \/ BulkSend
      BY <2>3, <3>2, <3>5, TruthNewRequest, TruthHostSend, TruthHostAck, TruthHostRead, TruthHostStatus,
         TruthBulkSend DEF HostGoesOn
    <3> QED BY <1>2, <2>1, <2>4, <3>3, <3>4, <3>5 DEF Next
  <2> QED BY <2>6, <2>7
<1> QED BY <1>1, <1>2

\* The steps to a box that is switched off.
LEMMA OffByKey ==
    ASSUME TypeInv, RequestInv, Next, aborts' = 0, main'.pc = "off"
    PROVE  aborts = 0 /\ UNCHANGED seen
<1>1. ~Abort /\ aborts = 0
  BY AbortsGrow
<1>2. main.pc # "off" /\ Requested
  BY <1>1, OffStep DEF RequestInv, OffInv
<1>3. PowerKey
  <2> SUFFICES ASSUME ~PowerKey
               PROVE  FALSE
    OBVIOUS
  <2>1. Requested'
    BY <1>1, <1>2, RequestedStep
  <2> QED BY <2>1 DEF Requested, IdleInv, SetupInv, TakenInv, HandledInv, InHand, Free, Busy
<1> QED BY <1>1, <1>3 DEF PowerKey

LEMMA ToldByTruth ==
    ASSUME TypeInv, RequestInv, TruthInv, main.pc # "off"
    PROVE  ToldTruth
<1> SUFFICES ASSUME aborts = 0, ~seen.refused, seen.ended # NoFile, seen.told = "idle"
             PROVE  seen.burnt = seen.ended
  BY DEF ToldTruth, Orderly
<1>1. Requested /\ Truthful
  BY DEF RequestInv, TruthInv
<1>2. ~Ending
  <2>1. host.pc # "ack"
    BY <1>1 DEF Truthful, StartInv
  <2> QED BY <1>1, <2>1, NoData DEF Ending, InHand
<1>3. Due = seen.ended
  BY <1>2 DEF Due
<1> QED BY <1>1, <1>3 DEF Truthful, DueInv, IdleTold

\* While the host gives nothing up and no file was refused: one that sent a whole file
\* and its end, has since been told of no error, and is told that the box is idle, is
\* told so of a box whose flash holds the file, wherever in download_completed,
\* burn_flash or ep0_rxdone the question came.
THEOREM ToldTheTruth == Spec => []ToldTruth
<1> DEFINE Inv == TypeInv /\ RequestInv /\ FileInv /\ TruthInv /\ ToldTruth
<1>1. TypeInv /\ RequestInv /\ TruthInv /\ main.pc # "off" => ToldTruth
  BY ToldByTruth
<1>2. (TypeInv /\ RequestInv /\ TruthInv /\ main.pc # "off" => ToldTruth)'
  BY <1>1, PTL
<1>3. Init => Inv
  <2> SUFFICES ASSUME Init
               PROVE  Inv
    OBVIOUS
  <2>1. main.pc # "off"
    BY DEF Init
  <2> QED BY <1>1, <2>1, TypeInit, RequestInit, FileInit, TruthInit
<1>4. Inv /\ [Next]_vars => Inv'
  <2> SUFFICES ASSUME Inv, [Next]_vars
               PROVE  Inv'
    OBVIOUS
  <2>1. TypeInv' /\ RequestInv' /\ FileInv' /\ TruthInv'
    BY TypeStep, RequestStep, FileStep, TruthStep
  <2>2. ToldTruth'
    <3> SUFFICES ASSUME aborts' = 0
                 PROVE  ToldTruth'
      BY DEF ToldTruth, Orderly
    <3>1. CASE main'.pc # "off"
      BY <1>2, <2>1, <3>1
    <3>2. CASE main'.pc = "off" /\ Next
      BY <3>2, OffByKey DEF ToldTruth, Orderly
    <3>3. CASE UNCHANGED vars
      BY <3>3 DEF vars, ToldTruth, Orderly
    <3> QED BY <3>1, <3>2, <3>3
  <2> QED BY <2>1, <2>2
<1>5. Inv => ToldTruth
  OBVIOUS
<1> QED BY <1>3, <1>4, <1>5, PTL DEF Spec

-----------------------------------------------------------------------------
\* The answer, packet by packet.
Answering == main.pc \in {"count", "state"}
AskedInv ==
    /\ (InHand /\ seen.handled = 0) \/ main.pc = "answer" => ctl.wLength = host.req.wLength
    /\ host.pc = "read" /\ (seen.handled = 0 \/ main.pc \in Busy) => host.count = 0
    /\ host.pc = "ack" => host.count = host.req.wLength
    /\ host.pc \in {"send", "ack"} => seen.good
\* While no interrupt came into code_transmit: who may write to the endpoint.
AloneInv ==
    /\ isr \cap {"in", "out"} # {} => ~Answering
    /\ "out" \in isr /\ "in" \in chip.ints => "in" \in isr
    /\ InHand /\ seen.handled = 0 => ~Answering /\ ctl.state # "TRANSMIT"
    /\ main.pc \in Busy \/ Answering => ctl.state = "IDLE"
    /\ InHand /\ host.req.kind = "header" /\ (ctl.setup \/ main.pc = "handle" \/ seen.handled # 0) =>
          host.pc = "ack" /\ "out" \notin chip.ints
\* Data of the host, counted by ep0_rxdone.
ReceiveInv ==
    ctl.state = "RECEIVE" =>
       /\ chip.out = NoPacket => ctl.wCount = host.count
       /\ chip.out # NoPacket =>
             ctl.wCount + chip.out.len = host.count /\ (host.pc = "ack" \/ chip.out.len = PacketSize)
\* The first packet is out and not yet read.
FirstInv ==
    Answering /\ "in" \notin chip.ints =>
       /\ InHand /\ host.pc = "read" /\ host.count = 0
       /\ chip.in # NoPacket /\ chip.in.len = main.sent
       /\ ctl.pData = host.req.kind /\ ctl.wLength <= host.req.wLength /\ main.sent <= ctl.wLength
       /\ ctl.wCount = IF main.pc = "count" THEN 0 ELSE main.sent
\* The packets that ep0_txdone sends.
TransmitInv ==
    ctl.state = "TRANSMIT" =>
       /\ ctl.wCount <= ctl.wLength
       /\ chip.out.setup \/ host.pc # "read" => "in" \in chip.ints /\ ctl.wLength - ctl.wCount < PacketSize
       /\ InHand /\ host.pc = "read" =>
             /\ ctl.pData = host.req.kind /\ ctl.wLength <= host.req.wLength
             /\ chip.in # NoPacket =>
                   ctl.wCount = host.count + PacketSize /\ chip.in.len = PacketSize /\ "in" \notin chip.ints
             /\ chip.in = NoPacket => ctl.wCount = host.count
InInv ==
    chip.in # NoPacket /\ host.pc = "read" =>
       chip.in.from = host.count /\ (~seen.clobbered => chip.in.to = host.req.kind)
\* The descriptor stays in the upgrade buffer while it is sent.
Built == upg.buf[1] = Foreign /\ upg.status # "DOWNLOAD"
BufferInv ==
    ~seen.clobbered =>
       /\ main.pc = "answer" /\ main.req.kind \in InBuffer => Built
       /\ (ctl.state = "TRANSMIT" \/ (Answering /\ "in" \notin chip.ints)) /\ ctl.pData \in InBuffer => Built
GoodInv == ~seen.clobbered => seen.good
Alone == AloneInv /\ ReceiveInv /\ FirstInv /\ TransmitInv /\ InInv /\ BufferInv /\ GoodInv
AnswerInv == aborts = 0 /\ main.pc # "off" => AskedInv /\ (~seen.raced => Alone)

LEMMA AskedKept ==
    ASSUME AskedInv, UNCHANGED host, ctl'.wLength = ctl.wLength, seen'.good = seen.good,
           InHand' /\ seen'.handled = 0 => InHand /\ seen.handled = 0,
           main'.pc = "answer" => main.pc = "answer" \/ (InHand /\ seen.handled = 0),
           seen'.handled = 0 \/ main'.pc \in Busy => seen.handled = 0 \/ main.pc \in Busy
    PROVE  AskedInv'
BY DEF AskedInv

LEMMA AskedIsr ==
    ASSUME TypeInv, Requested, AskedInv, Isr
    PROVE  AskedInv'
<1>0. TypeOK /\ ctl \in Ctls /\ chip \in Chips /\ upg \in Upgs /\ seen \in Histories
  BY TypeParts DEF TypeInv
<1>1. CASE Interrupt
  <2>1. /\ chip'.out = chip.out /\ seen'.handled = seen.handled /\ seen'.good = seen.good
        /\ UNCHANGED <<ctl, main, host>>
    BY <1>0, <1>1, InterruptEffect
  <2> QED BY <2>1, AskedKept DEF InHand
<1>2. CASE TxDone
  <2>1. PICK len, count :
          /\ len = IF ctl.wLength - ctl.wCount \in 0 .. 1 THEN ctl.wLength - ctl.wCount ELSE PacketSize
          /\ count = IF ctl.wLength - ctl.wCount < 2 THEN ctl.wLength ELSE ctl.wCount + 2
    OBVIOUS
  <2>2. chip'.out = chip.out /\ ctl'.wLength = ctl.wLength
    BY <1>0, <1>2, <2>1, TxDoneEffect
  <2>3. UNCHANGED <<main, host, seen>>
    BY <1>2 DEF TxDone
  <2> QED BY <2>2, <2>3, AskedKept DEF InHand
<1>3. CASE RxSetup
  <2>1. PICK q : q = chip.out.req
    OBVIOUS
  <2>2. /\ chip.out.setup /\ ctl'.wLength = q.wLength
        /\ q.kind # "status" => seen' = seen
        /\ q.kind = "status" => seen' = [seen EXCEPT !.handled = @ + 1]
        /\ UNCHANGED <<main, host>>
    BY <1>0, <1>3, <2>1, RxSetupEffect
  <2>3. q = host.req /\ host.count = 0 /\ main.pc \in Free
    BY <2>1, <2>2 DEF Requested, SetupInv
  <2>4. seen'.good = seen.good
    BY <1>0, <2>2 DEF Histories
  <2> QED BY <2>2, <2>3, <2>4 DEF AskedInv, Free
<1>4. CASE RxData
  <2>1. PICK n : n = IF chip.out = NoPacket THEN 0 ELSE chip.out.len
    OBVIOUS
  <2>2. PICK last \in BOOLEAN : last <=> n # PacketSize \/ ctl.wCount + n >= ctl.wLength
    BY Zenon
  <2>3. /\ ~chip.out.setup /\ chip'.out \in {chip.out, NoPacket} /\ ctl'.wLength = ctl.wLength
        /\ UNCHANGED <<main, host, seen>>
    BY <1>0, <1>4, <2>1, <2>2, RxDataEffect
  <2>4. InHand' <=> InHand
    BY <2>3, NoPacketIs DEF InHand
  <2> QED BY <2>3, <2>4, AskedKept
<1>5. CASE MainRxDone
  <2>1. PICK n : n = Len(chip.fifo)
    OBVIOUS
  <2>2. chip'.out = chip.out /\ UNCHANGED <<ctl, main, host, seen>>
    BY <1>0, <1>5, <2>1, MainRxDoneEffect
  <2> QED BY <2>2, AskedKept DEF InHand
<1> QED BY <1>1, <1>2, <1>3, <1>4, <1>5 DEF Isr

LEMMA AskedMain ==
    ASSUME TypeInv, Requested, AskedInv, Main
    PROVE  AskedInv'
<1>0. TypeOK
  BY DEF TypeInv
<1>1. CASE Loop
  <2>1. main'.pc = "handle" /\ ctl'.wLength = ctl.wLength /\ UNCHANGED <<chip, host, seen>>
    BY <1>0, <1>1, LoopEffect
  <2> QED BY <2>1, AskedKept DEF InHand, Busy
<1>2. ASSUME NEW kinds, NEW place, Handles(kinds, place), chip'.out = chip.out
      PROVE  AskedInv'
  <2>1. /\ main.pc = "handle" /\ seen'.handled = seen.handled + 1 /\ seen'.good = seen.good
        /\ UNCHANGED <<isr, ctl, host, aborts, peer>>
    BY <1>2 DEF Handles
  <2>2. InHand /\ seen.handled = 0
    BY <2>1 DEF Requested, ChipInv, IdleInv, SetupInv, TakenInv, HandledInv, InHand, Free, Busy
  <2> QED BY <2>1, <2>2, AskedKept
<1>3. CASE HandleShort \/ HandleClear
  BY <1>0, <1>2, <1>3, HandleShortEffect, HandleClearEffect
<1>4. CASE HandleReserved
  BY <1>0, <1>2, <1>4, HandleReservedEffect
<1>5. CASE HandleDescriptor \/ HandleHeader \/ HandleEnd
  BY <1>0, <1>2, <1>5, HandleDescriptorEffect, HandleHeaderEffect, HandleEndEffect
<1>6. ASSUME NEW from, NEW to, Moves(from, to), to # "answer", to \in Busy => from \in Busy,
             ctl'.wLength = ctl.wLength, seen'.handled = seen.handled, seen'.good = seen.good
      PROVE  AskedInv'
  BY <1>6, AskedKept DEF InHand, Moves
<1>7. CASE ResetLen \/ CheckSize
  BY <1>0, <1>6, <1>7, ResetLenEffect, CheckSizeEffect DEF Busy
<1>8. CASE CountPacket \/ SetState
  BY <1>0, <1>6, <1>8, CountPacketEffect, SetStateEffect DEF Busy
<1>9. CASE BurnFails \/ BurnErase \/ BurnWrite \/ BurnReturns
  BY <1>0, <1>6, <1>9, BurnEffect DEF Busy
<1>10. CASE BurnDone
  BY <1>0, <1>6, <1>10, BurnDoneEffect DEF Busy
<1>11. CASE Check
  <2>1. main'.pc \in {"burn", "loop"} /\ UNCHANGED <<chip, ctl, host, seen>>
    BY <1>0, <1>11, CheckEffect
  <2> QED BY <2>1, AskedKept DEF InHand, Busy
<1>12. CASE SingleTransmit
  <2>1. PICK n : (ToHost(main.req) => n = 1) /\ (~ToHost(main.req) => n = 0)
    BY Zenon
  <2>2. PICK s : s = IF main.req.kind # "status" THEN ""
                     ELSE IF upg.status = "UNUSED" THEN "idle" ELSE "write"
    BY Zenon
  <2>3. PICK p : p = Answer(main.req.kind, 0, n, s)
    BY Zenon
  <2>4. main'.pc = "check" /\ chip'.out = chip.out /\ UNCHANGED <<ctl, host, seen>>
    BY <1>12, <2>1, <2>2, <2>3, SingleTransmitEffect
  <2> QED BY <2>4, AskedKept DEF InHand, Busy
<1>13. CASE FirstPacket
  <2>1. PICK n : n = IF ctl.wLength <= Descriptor[main.req.kind] THEN ctl.wLength ELSE Descriptor[main.req.kind]
    BY Zenon
  <2>2. PICK sent : sent = IF n <= PacketSize THEN n ELSE PacketSize
    BY Zenon
  <2>3. /\ main.pc = "answer" /\ main'.pc = "count" /\ chip'.out = chip.out /\ UNCHANGED <<host, seen>>
    BY <1>13, <2>1, <2>2, FirstPacketEffect DEF At
  <2>4. InHand /\ seen.handled # 0
    BY <2>3 DEF Requested, IdleInv, SetupInv, TakenInv, InHand, Free
  <2> QED BY <2>3, <2>4 DEF AskedInv, Busy
<1> QED BY <1>1, <1>3, <1>4, <1>5, <1>7, <1>8, <1>9, <1>10, <1>11, <1>12, <1>13 DEF Main

LEMMA AskedHost ==
    ASSUME TypeInv, Requested, LateInv, AskedInv, ~seen.raced => Alone,
           NewRequest \/ HostGoesOn \/ BulkSend
    PROVE  AskedInv'
<1>0. TypeOK /\ ctl \in Ctls /\ chip \in Chips /\ host \in HostStates /\ seen \in Histories
  BY TypeParts DEF TypeInv
<1>1. CASE NewRequest
  <2>1. PICK q \in Requests :
          /\ Allowed(q) /\ host.pc = "idle" /\ main.pc # "off"
          /\ chip' \in Chips /\ chip'.out = Setup(q)
          /\ host'.req = q /\ host'.count = 0
          /\ host'.pc = IF q.kind \in {"device", "config", "vendor", "short", "status", "reserved"} THEN "read"
                        ELSE IF q.kind \in {"header", "block", "long"} THEN "send" ELSE "ack"
          /\ seen'.handled = 0 /\ seen'.good
          /\ UNCHANGED <<ctl, main>>
    BY <1>0, <1>1, NewRequestEffect
  <2>2. Setup(q).setup
    BY SetupPacket
  <2>3. main'.pc # "answer"
    BY <2>1 DEF Requested, IdleInv, Free
  <2>4. host'.pc = "ack" => q.wLength = 0
    BY <2>1, RequestShape DEF Kinds
  <2> QED BY <2>1, <2>2, <2>3, <2>4 DEF AskedInv, InHand
<1>2. CASE HostSend
  <2>1. PICK n : n = IF PacketSize <= host.req.wLength - host.count
                     THEN PacketSize ELSE host.req.wLength - host.count
    OBVIOUS
  <2>2. /\ host.pc = "send" /\ n \in 1 .. PacketSize
        /\ chip'.out = Data(n, host.req.file)
        /\ host'.req = host.req /\ host'.count = host.count + n
        /\ host'.pc = IF host.count + n = host.req.wLength THEN "ack" ELSE "send"
        /\ chip.out = NoPacket
        /\ UNCHANGED <<isr, ctl, main, upg, aborts, peer, seen>>
    BY <1>0, <1>2, <2>1, HostSendEffect
  <2>3. ~chip.out.setup
    BY <2>2, NoPacketIs
  <2> QED BY <2>2, <2>3 DEF AskedInv, InHand
<1>3. CASE HostAck
  <2>1. PICK kind : kind = host.req.kind
    OBVIOUS
  <2>2. host'.pc = "idle" /\ chip'.out = chip.out /\ UNCHANGED <<main, ctl>> /\ host.pc = "ack" /\ chip.in # NoPacket
    BY <1>0, <1>3, <2>1, HostAckEffect
  <2>3. main.pc # "answer"
    BY <2>2 DEF Requested, SetupInv, TakenInv, HandledInv, InHand, Free, Busy
  <2> QED BY <2>2, <2>3 DEF AskedInv, InHand
<1>4. CASE HostRead
  <2>1. PICK p : p = chip.in
    OBVIOUS
  <2>2. /\ host.pc = "read" /\ p # NoPacket
        /\ chip'.out = chip.out
        /\ host'.pc \in {"read", "status"}
        /\ seen'.handled = seen.handled
        /\ UNCHANGED <<ctl, main>>
    BY <1>0, <1>4, <2>1, HostReadEffect
  <2>3. InHand /\ seen.handled # 0 /\ main.pc \notin Busy
    BY <2>1, <2>2 DEF Requested, SetupInv, TakenInv, HandledInv, InHand
  <2> QED BY <2>2, <2>3 DEF AskedInv, Busy
<1>5. CASE HostStatus
  <2>1. host' = Idle /\ host.pc = "status" /\ UNCHANGED main
    BY <1>0, <1>5, HostStatusEffect
  <2>2. main.pc \in Free
    BY <2>1 DEF Requested, HostInv
  <2> QED BY <1>0, <2>1, <2>2, IdleIs DEF AskedInv, InHand, Free
<1>6. CASE HostStalled
  <2>1. host' = Idle /\ host.pc # "idle" /\ chip.stall /\ UNCHANGED <<main, chip>>
    BY <1>6 DEF HostStalled
  <2>2. main.pc # "answer"
    BY <2>1 DEF Requested, SetupInv, TakenInv, HandledInv, InHand, Free, Busy
  <2> QED BY <1>0, <2>1, <2>2, IdleIs DEF AskedInv, InHand
<1>7. CASE BulkSend
  <2>1. PICK n : n = Len(chip.fifo)
    OBVIOUS
  <2>2. /\ chip'.out = chip.out
        /\ host'.pc = host.pc /\ host'.req = host.req /\ host'.count = host.count
        /\ UNCHANGED <<ctl, main, seen>>
    BY <1>0, <1>7, <2>1, BulkSendEffect
  <2> QED BY <2>2 DEF AskedInv, InHand
<1> QED BY <1>1, <1>2, <1>3, <1>4, <1>5, <1>6, <1>7 DEF HostGoesOn

\* Steps that leave the endpoints to the host alone.
LEMMA AloneKept ==
    ASSUME Alone, UNCHANGED <<isr, host>>,
           chip'.out = chip.out, chip'.in = chip.in, chip'.ints = chip.ints,
           ctl'.state = ctl.state, ctl'.wCount = ctl.wCount, ctl'.wLength = ctl.wLength,
           ctl'.pData = ctl.pData,
           ~Answering', main'.pc \in Busy => ctl.state = "IDLE",
           ctl'.setup \/ main'.pc = "handle" \/ seen'.handled # 0 =>
              ctl.setup \/ main.pc = "handle" \/ seen.handled # 0,
           seen'.handled = 0 => seen.handled = 0,
           seen'.good = seen.good,
           seen.clobbered /\ ~seen'.clobbered => seen.good /\ host.pc # "read",
           BufferInv'
    PROVE  Alone'
<1>1. AloneInv'
  BY DEF Alone, AloneInv, InHand
<1>2. ReceiveInv'
  BY DEF Alone, ReceiveInv
<1>3. FirstInv'
  BY DEF FirstInv
<1>4. TransmitInv'
  BY DEF Alone, TransmitInv, InHand
<1>5. InInv' /\ GoodInv'
  BY DEF Alone, InInv, GoodInv
<1> QED BY <1>1, <1>2, <1>3, <1>4, <1>5 DEF Alone

LEMMA AloneInterrupt ==
    ASSUME TypeInv, Requested, Alone, Interrupt, ~seen'.raced
    PROVE  Alone'
<1>1. /\ isr = {} /\ isr' = chip.ints /\ chip'.ints = chip.ints
      /\ chip'.out = chip.out /\ chip'.in = chip.in
      /\ Answering => chip.ints = {"main"}
      /\ seen'.handled = seen.handled /\ seen'.good = seen.good /\ seen'.clobbered = seen.clobbered
      /\ UNCHANGED <<ctl, main, upg, host>>
  BY InterruptEffect DEF TypeInv, Requested, ChipInv, Answering
<1>2. AloneInv'
  BY <1>1 DEF Alone, AloneInv, InHand, Answering
<1>3. ReceiveInv' /\ FirstInv'
  BY <1>1 DEF Alone, ReceiveInv, FirstInv, InHand, Answering
<1>4. TransmitInv' /\ InInv' /\ GoodInv'
  BY <1>1 DEF Alone, TransmitInv, InInv, GoodInv, InHand
<1>5. BufferInv'
  BY <1>1 DEF Alone, BufferInv, Built, Answering
<1> QED BY <1>2, <1>3, <1>4, <1>5 DEF Alone

LEMMA AloneMainRxDone ==
    ASSUME TypeInv, Requested, Alone, MainRxDone
    PROVE  Alone'
<1>0. PICK n : n = Len(chip.fifo)
  OBVIOUS
<1>1. /\ isr' = {} /\ chip'.ints = chip.ints \ {"main"}
      /\ chip'.out = chip.out /\ chip'.in = chip.in
      /\ upg'.status = upg.status /\ (upg.status # "DOWNLOAD" => upg' = upg)
      /\ UNCHANGED <<ctl, main, host, seen>>
  BY <1>0, MainRxDoneEffect DEF TypeInv
<1>2. AloneInv'
  BY <1>1 DEF Alone, AloneInv, InHand, Answering
<1>3. ReceiveInv' /\ FirstInv'
  BY <1>1 DEF Alone, ReceiveInv, FirstInv, InHand, Answering
<1>4. TransmitInv' /\ InInv' /\ GoodInv'
  BY <1>1 DEF Alone, TransmitInv, InInv, GoodInv, InHand
<1>5. Built => Built'
  BY <1>1 DEF Built
<1>6. BufferInv'
  BY <1>1, <1>5 DEF Alone, BufferInv, Answering
<1> QED BY <1>2, <1>3, <1>4, <1>6 DEF Alone

LEMMA AloneRxSetup ==
    ASSUME TypeInv, Requested, Alone, RxSetup
    PROVE  Alone'
<1>0. ctl \in Ctls /\ chip \in Chips /\ upg \in Upgs /\ seen \in Histories
  BY TypeParts DEF TypeInv
<1>1. PICK q : q = chip.out.req
  OBVIOUS
<1>2. /\ chip.out.setup /\ "out" \in isr /\ "in" \notin isr /\ isr' = isr \ {"out"}
      /\ chip'.out = NoPacket /\ chip'.ints = chip.ints \ {"out"}
      /\ chip'.in = IF q.kind = "status" THEN StatusAnswer ELSE chip.in
      /\ ctl'.wCount = 0
      /\ ctl'.setup = (ctl.setup \/ q.kind \notin WithData \cup {"status", "long"})
      /\ ctl'.state = IF q.kind = "status" THEN ctl.state
                      ELSE IF q.kind \in WithData THEN "RECEIVE" ELSE "IDLE"
      /\ q.kind # "status" => seen' = seen
      /\ q.kind = "status" => seen' = [seen EXCEPT !.handled = @ + 1]
      /\ UNCHANGED <<main, host>>
  BY <1>0, <1>1, RxSetupEffect
<1>3. /\ q = host.req /\ host.count = 0 /\ chip.in = NoPacket
      /\ seen.handled = 0 /\ ~ctl.setup /\ ctl.state # "RECEIVE" /\ main.pc \in Free
  BY <1>1, <1>2 DEF Requested, SetupInv
<1>4. ~Answering /\ "in" \notin chip.ints /\ ctl.state # "TRANSMIT"
  BY <1>2 DEF Alone, AloneInv, TransmitInv
<1>5. /\ seen'.good = seen.good /\ seen'.clobbered = seen.clobbered
      /\ q.kind # "status" => seen'.handled = 0
  BY <1>0, <1>2, <1>3 DEF Histories
<1>6. main.pc \notin Busy \cup {"handle"} /\ ~Answering'
  BY <1>2, <1>3, <1>4 DEF Free, Busy, Answering
<1>7. ctl'.state # "TRANSMIT"
  BY <1>2, <1>4
<1>8. "in" \notin isr' /\ "out" \notin isr'
  BY <1>2
<1>9. q.kind = "header" => ~ctl'.setup
  BY <1>2, <1>3 DEF WithData
<1>10. AloneInv'
  BY <1>2, <1>3, <1>5, <1>6, <1>7, <1>8, <1>9 DEF AloneInv
<1>11. ReceiveInv' /\ FirstInv' /\ TransmitInv'
  BY <1>2, <1>3, <1>6, <1>7 DEF ReceiveInv, FirstInv, TransmitInv
<1>12. StatusAnswer.from = 0 /\ StatusAnswer.to = "status"
  BY DEF StatusAnswer, Answer
<1>13. InInv'
  BY <1>2, <1>3, <1>12 DEF InInv
<1>14. BufferInv' /\ GoodInv'
  BY <1>2, <1>5, <1>6, <1>7 DEF Alone, BufferInv, GoodInv, Busy
<1> QED BY <1>10, <1>11, <1>13, <1>14 DEF Alone

LEMMA AloneRxData ==
    ASSUME TypeInv, Requested, AskedInv, Alone, RxData
    PROVE  Alone'
<1>0. ctl \in Ctls /\ chip \in Chips
  BY TypeParts DEF TypeInv
<1>1. PICK n : n = IF chip.out = NoPacket THEN 0 ELSE chip.out.len
  OBVIOUS
<1>2. PICK last \in BOOLEAN : last <=> n # PacketSize \/ ctl.wCount + n >= ctl.wLength
  BY Zenon
<1>3. /\ ~chip.out.setup /\ n \in 0 .. PacketSize
      /\ "out" \in isr /\ "in" \notin isr /\ isr' = isr \ {"out"}
      /\ chip'.out = IF ctl.state = "RECEIVE" THEN NoPacket ELSE chip.out
      /\ chip'.ints = chip.ints \ {"out"} /\ chip'.in = chip.in
      /\ ctl'.wLength = ctl.wLength /\ ctl'.pData = ctl.pData
      /\ ctl.state # "RECEIVE" => ctl' = [ctl EXCEPT !.state = "IDLE"]
      /\ ctl.state = "RECEIVE" =>
            /\ ctl'.wCount = ctl.wCount + n
            /\ ctl'.setup = (ctl.setup \/ last)
            /\ ctl'.state = IF last THEN "IDLE" ELSE "RECEIVE"
      /\ UNCHANGED <<main, upg, host, seen>>
  BY <1>0, <1>1, <1>2, RxDataEffect
<1>4. ~Answering /\ ~Answering' /\ chip.out # NoPacket
  BY <1>3 DEF Alone, AloneInv, Answering, Requested, ChipInv
<1>5. chip'.out.setup = FALSE /\ (InHand <=> InHand')
  BY <1>0, <1>3, OutPacket, NoPacketIs DEF InHand
<1>6. ctl'.state # "TRANSMIT"
  <2>1. ctl.state # "RECEIVE" => ctl'.state = "IDLE"
    BY <1>0, <1>3 DEF Ctls
  <2> QED BY <1>3, <2>1
<1>7. "in" \notin isr' /\ "out" \notin isr'
  BY <1>3
<1>8. ctl.state = "RECEIVE" =>
         /\ InHand /\ seen.handled = 0 /\ ~ctl.setup /\ main.pc \in Free \cup {"handle"} /\ main.pc # "handle"
         /\ ctl.wLength = host.req.wLength
         /\ ctl.wCount + n = host.count /\ (host.pc = "ack" \/ n = PacketSize)
  <2>1. SUFFICES ASSUME ctl.state = "RECEIVE"
                 PROVE  /\ InHand /\ seen.handled = 0 /\ ~ctl.setup /\ main.pc \in Free \cup {"handle"}
                        /\ main.pc # "handle" /\ ctl.wLength = host.req.wLength
                        /\ ctl.wCount + n = host.count /\ (host.pc = "ack" \/ n = PacketSize)
    OBVIOUS
  <2>2. InHand /\ seen.handled = 0
    BY <1>3, <2>1 DEF Requested, IdleInv, HandledInv, InHand
  <2>3. ~ctl.setup /\ main.pc \in Free \cup {"handle"} /\ main.pc # "handle"
    BY <2>1, <2>2 DEF Requested, TakenInv
  <2>4. ctl.wLength = host.req.wLength
    BY <2>2 DEF AskedInv
  <2>5. ctl.wCount + n = host.count /\ (host.pc = "ack" \/ n = PacketSize)
    BY <1>1, <1>4, <2>1 DEF Alone, ReceiveInv
  <2> QED BY <2>2, <2>3, <2>4, <2>5
<1>9. ctl.state = "RECEIVE" /\ last /\ host.req.kind = "header" => host.pc = "ack"
  <2>1. SUFFICES ASSUME ctl.state = "RECEIVE", last, host.req.kind = "header"
                 PROVE  host.pc = "ack"
    OBVIOUS
  <2>2. host.pc \in {"send", "ack"}
    <3>1. host \in HostStates
      BY TypeParts DEF TypeInv
    <3> QED BY <1>8, <2>1, <3>1, NoData DEF InHand, HostStates
  <2>3. host.pc = "send" => host.count < host.req.wLength /\ host.count \in Nat /\ host.req.wLength \in Nat
    <3>1. host \in HostStates
      BY TypeParts DEF TypeInv
    <3> QED BY <3>1, RequestShape DEF TypeInv, HostStates
  <2> QED BY <1>2, <1>8, <2>1, <2>2, <2>3
<1>10. ctl.state # "RECEIVE" => ctl'.setup = ctl.setup
  BY <1>0, <1>3 DEF Ctls
<1>11. AloneInv'
  <2>1. (InHand /\ host.req.kind = "header" /\ (ctl.setup \/ main.pc = "handle" \/ seen.handled # 0) =>
            host.pc = "ack" /\ "out" \notin chip.ints)'
    <3>1. CASE ctl.state = "RECEIVE"
      BY <1>3, <1>5, <1>8, <1>9, <3>1
    <3>2. CASE ctl.state # "RECEIVE"
      BY <1>3, <1>5, <1>10, <3>2 DEF Alone, AloneInv
    <3> QED BY <3>1, <3>2
  <2>2. main.pc \in Busy => ctl'.state = "IDLE"
    <3>1. main.pc \in Busy => ctl.state # "RECEIVE"
      BY DEF Alone, AloneInv
    <3> QED BY <1>0, <1>3, <3>1 DEF Ctls
  <2> QED BY <1>3, <1>4, <1>6, <1>7, <2>1, <2>2 DEF AloneInv
<1>12. ReceiveInv'
  <2>1. ctl'.state = "RECEIVE" => ctl.state = "RECEIVE"
    BY <1>0, <1>3 DEF Ctls
  <2> QED BY <1>3, <1>8, <2>1 DEF ReceiveInv
<1>13. FirstInv' /\ TransmitInv'
  BY <1>4, <1>6 DEF FirstInv, TransmitInv
<1>14. InInv' /\ GoodInv' /\ BufferInv'
  BY <1>3, <1>4, <1>6 DEF Alone, InInv, GoodInv, BufferInv, Built
<1> QED BY <1>11, <1>12, <1>13, <1>14 DEF Alone

\* A piece of a descriptor that is whole.
LEMMA WholePiece ==
    ASSUME NEW kind \in DOMAIN Descriptor, NEW from \in Nat, NEW n \in 0 .. PacketSize,
           NEW p, p = Piece(kind, from, n)
    PROVE  /\ p # NoPacket /\ p.from = from /\ p.len = n
           /\ kind \notin InBuffer \/ upg.buf[1] = Foreign => p.to = kind
<1>1. PICK to \in Kinds \cup {"junk"} :
        to = IF kind \in InBuffer /\ upg.buf[1] # Foreign THEN "junk" ELSE kind
  BY Descriptors DEF Kinds
<1>2. PICK s \in Answers : s = ""
  BY DEF Answers
<1>3. p = Answer(to, from, n, s)
  BY <1>1, <1>2 DEF Piece
<1>4. p # NoPacket /\ p.to = to /\ p.from = from /\ p.len = n
  <2>1. \A x \in 0 .. PacketSize : x # -1
    BY DEF PacketSize
  <2> QED BY ONLY <1>1, <1>2, <1>3, <2>1, from \in Nat, n \in 0 .. PacketSize DEF Answer, NoPacket
<1> QED BY <1>1, <1>4

LEMMA AloneTxDone ==
    ASSUME TypeInv, Requested, Alone, TxDone
    PROVE  Alone'
<1>0. ctl \in Ctls /\ chip \in Chips /\ host \in HostStates
  BY TypeParts DEF TypeInv
<1>1. PICK len, count :
        /\ len = IF ctl.wLength - ctl.wCount \in 0 .. 1 THEN ctl.wLength - ctl.wCount ELSE PacketSize
        /\ count = IF ctl.wLength - ctl.wCount < 2 THEN ctl.wLength ELSE ctl.wCount + 2
  OBVIOUS
<1>2. PICK p : p = Piece(ctl.pData, ctl.wCount, len)
  OBVIOUS
<1>3. /\ chip'.out = chip.out /\ chip'.locked = chip.locked
      /\ chip'.ints = chip.ints \ {"in"} /\ "in" \in isr /\ isr' = isr \ {"in"}
      /\ ctl'.setup = ctl.setup /\ ctl'.wLength = ctl.wLength /\ ctl'.pData = ctl.pData
      /\ ctl.state # "TRANSMIT" => ctl' = ctl /\ chip'.in = chip.in
      /\ ctl.state = "TRANSMIT" =>
            /\ ctl'.wCount = count /\ ctl'.state \in {"TRANSMIT", "IDLE"}
            /\ ctl'.state = "TRANSMIT" <=> ctl.wLength - ctl.wCount >= 2
            /\ chip'.in = IF chip.locked THEN chip.in ELSE p
      /\ UNCHANGED <<main, upg, host, seen>>
  <2>1. "in" \in isr /\ isr' = isr \ {"in"} /\ UNCHANGED <<main, upg, host, seen>>
    BY DEF TxDone
  <2> QED BY <1>0, <1>1, <1>2, <2>1, TxDoneEffect
<1>4. ~Answering /\ ~Answering' /\ "in" \in chip.ints
  BY <1>3 DEF Alone, AloneInv, Answering, Requested, ChipInv
<1>5. "in" \notin chip'.ints
  BY <1>3
<1>6. InHand <=> InHand'
  BY <1>3 DEF InHand
<1>7. GoodInv'
  BY <1>3 DEF Alone, GoodInv
<1>8. CASE ctl.state # "TRANSMIT"
  <2>1. AloneInv'
    BY <1>3, <1>4, <1>5, <1>6, <1>8 DEF Alone, AloneInv
  <2>2. ReceiveInv' /\ FirstInv' /\ TransmitInv'
    BY <1>3, <1>4, <1>8 DEF Alone, ReceiveInv, FirstInv, TransmitInv
  <2>3. InInv'
    BY <1>3, <1>8 DEF Alone, InInv
  <2>4. BufferInv'
    BY <1>3, <1>4, <1>8 DEF Alone, BufferInv, Built
  <2> QED BY <1>7, <2>1, <2>2, <2>3, <2>4 DEF Alone
<1>9. CASE ctl.state = "TRANSMIT"
  <2> DEFINE i == ctl.wLength - ctl.wCount
  <2>1. /\ ctl.wCount <= ctl.wLength /\ ctl.wCount \in Nat /\ ctl.wLength \in Nat /\ i \in Nat
        /\ ctl.pData \in DOMAIN Descriptor
        /\ chip.out.setup \/ host.pc # "read" => i < PacketSize
        /\ InHand /\ host.pc = "read" =>
             ctl.pData = host.req.kind /\ ctl.wLength <= host.req.wLength
             /\ chip.in = NoPacket /\ ctl.wCount = host.count
    BY <1>0, <1>4, <1>9 DEF Alone, TransmitInv, Ctls
  <2>2. main.pc \notin Busy /\ ~(InHand /\ seen.handled = 0)
    BY <1>9 DEF Alone, AloneInv
  <2>3. len \in 0 .. PacketSize /\ count \in Nat /\ count <= ctl.wLength
        /\ (i >= 2 => len = PacketSize /\ count = ctl.wCount + PacketSize)
    BY <1>1, <2>1 DEF PacketSize
  <2>4. /\ p # NoPacket /\ p.from = ctl.wCount /\ p.len = len
        /\ ctl.pData \notin InBuffer \/ upg.buf[1] = Foreign => p.to = ctl.pData
    <3>1. PICK kind, from : kind = ctl.pData /\ from = ctl.wCount
      OBVIOUS
    <3>2. p = Piece(kind, from, len) /\ kind \in DOMAIN Descriptor /\ from \in Nat
      BY <1>2, <2>1, <3>1
    <3> QED BY <2>3, <3>1, <3>2, WholePiece
  <2>5. AloneInv'
    BY <1>3, <1>4, <1>5, <1>6, <2>2 DEF Alone, AloneInv
  <2>6. ReceiveInv' /\ FirstInv'
    BY <1>3, <1>4, <1>9 DEF ReceiveInv, FirstInv
  <2>7. TransmitInv'
    <3> SUFFICES ASSUME ctl'.state = "TRANSMIT"
                 PROVE  TransmitInv'
      BY DEF TransmitInv
    <3>1. i >= 2
      BY <1>3, <1>9
    <3>2. ~chip.out.setup /\ host.pc = "read"
      BY <2>1, <3>1 DEF PacketSize
    <3>3. InHand /\ ~chip.locked
      BY <1>0, <3>2 DEF InHand, Requested, ChipInv
    <3>4. /\ chip'.in = p /\ ctl'.wCount = ctl.wCount + PacketSize /\ p.len = PacketSize
          /\ ctl'.wCount <= ctl'.wLength
      BY <1>3, <1>9, <2>3, <2>4, <3>1, <3>3
    <3> QED BY <1>3, <1>5, <2>1, <2>4, <3>2, <3>3, <3>4 DEF TransmitInv
  <2>8. InInv'
    <3>1. CASE chip.locked
      <4>1. chip'.in = NoPacket
        BY <1>3, <1>9, <3>1 DEF Requested, ChipInv, SetupInv
      <4> QED BY <4>1 DEF InInv
    <3>2. CASE ~chip.locked
      <4>1. chip'.in = p /\ ~chip.out.setup
        BY <1>3, <1>9, <3>2 DEF Requested, ChipInv
      <4>2. ~seen.clobbered /\ ctl.pData \in InBuffer => upg.buf[1] = Foreign
        BY <1>9 DEF Alone, BufferInv, Built
      <4>3. host.pc = "read" => p.from = host.count /\ (~seen.clobbered => p.to = host.req.kind)
        BY <2>1, <2>4, <4>1, <4>2 DEF InHand
      <4> QED BY <1>3, <4>1, <4>3 DEF InInv
    <3> QED BY <3>1, <3>2
  <2>9. BufferInv'
    BY <1>3, <1>4, <1>9 DEF Alone, BufferInv, Built
  <2> QED BY <1>7, <2>5, <2>6, <2>7, <2>8, <2>9 DEF Alone
<1> QED BY <1>8, <1>9

LEMMA AloneLoop ==
    ASSUME TypeInv, Requested, Alone, Loop
    PROVE  Alone'
<1>1. /\ main.pc = "loop" /\ ctl.setup /\ main'.pc = "handle"
      /\ ctl'.state = ctl.state /\ ctl'.wCount = ctl.wCount /\ ctl'.wLength = ctl.wLength
      /\ ctl'.pData = ctl.pData
      /\ UNCHANGED <<chip, isr, upg, host, seen>>
  BY LoopEffect DEF TypeInv
<1>2. ~Answering /\ ~Answering' /\ main'.pc \notin Busy
  BY <1>1 DEF Answering, Busy
<1>3. BufferInv'
  BY <1>1, <1>2 DEF Alone, BufferInv, Built, Busy
<1> QED BY <1>1, <1>2, <1>3, AloneKept

\* control_handler, with the request in hand.
LEMMA AloneHandle ==
    ASSUME TypeInv, Requested, Alone, NEW kinds, NEW place, Handles(kinds, place),
           place \in Busy \cup {"check"},
           chip'.out = chip.out, chip'.in = chip.in, chip'.ints = chip.ints,
           seen.clobbered /\ ~seen'.clobbered => seen.good /\ host.pc # "read",
           ~seen'.clobbered /\ place = "answer" /\ ctl.req.kind \in InBuffer => Built'
    PROVE  Alone'
<1>0. ctl \in Ctls
  BY TypeParts DEF TypeInv
<1>1. /\ main.pc = "handle" /\ main'.pc = place /\ main'.req = ctl.req
      /\ seen'.handled = seen.handled + 1 /\ seen'.good = seen.good
      /\ UNCHANGED <<isr, ctl, host>>
  BY DEF Handles
<1>2. InHand /\ seen.handled = 0 /\ ctl.state # "RECEIVE"
  BY <1>1 DEF Requested, ChipInv, IdleInv, SetupInv, TakenInv, HandledInv, InHand, Free, Busy
<1>3. ctl.state = "IDLE"
  BY <1>0, <1>2 DEF Alone, AloneInv, Ctls
<1>4. ~Answering'
  BY <1>1 DEF Answering, Busy
<1>5. BufferInv'
  BY <1>1, <1>3, <1>4 DEF BufferInv
<1> QED BY <1>1, <1>2, <1>3, <1>4, <1>5, AloneKept

LEMMA AloneHandlers ==
    ASSUME TypeInv, Requested, AskedInv, Alone,
           HandleShort \/ HandleClear \/ HandleReserved \/ HandleDescriptor \/ HandleHeader \/ HandleEnd
    PROVE  Alone'
<1>0. TypeOK
  BY DEF TypeInv
<1>1. CASE HandleShort
  BY <1>0, <1>1, HandleShortEffect, AloneHandle DEF Busy
<1>2. CASE HandleClear
  BY <1>0, <1>2, HandleClearEffect, AloneHandle
<1>3. CASE HandleReserved
  BY <1>0, <1>3, HandleReservedEffect, AloneHandle
<1>4. CASE HandleDescriptor
  <2>1. /\ Handles({"device", "config", "vendor"}, "answer") /\ UNCHANGED chip
        /\ upg'.status = upg.status
        /\ ctl.req.kind \in InBuffer => upg'.buf[1] = Foreign
        /\ seen'.clobbered <=> seen.clobbered \/ (ctl.req.kind \in InBuffer /\ upg.status = "DOWNLOAD")
    BY <1>0, <1>4, HandleDescriptorEffect
  <2>2. ~seen'.clobbered /\ ctl.req.kind \in InBuffer => Built'
    BY <2>1 DEF Built
  <2> QED BY <2>1, <2>2, AloneHandle DEF Busy
<1>5. CASE HandleHeader
  <2>1. /\ UNCHANGED chip
        /\ \/ Handles({"header"}, "ack") /\ seen'.clobbered = seen.clobbered
           \/ Handles({"header"}, "len")
    BY <1>0, <1>5, HandleHeaderEffect
  <2>2. main.pc = "handle" /\ ctl.req.kind = "header"
    BY <2>1 DEF Handles
  <2>3. InHand /\ host.req.kind = "header"
    BY <2>2 DEF Requested, ChipInv, IdleInv, SetupInv, TakenInv, HandledInv, InHand, Free, Busy
  <2>4. host.pc \in {"send", "ack"}
    <3>1. host.pc \in {"idle", "send", "ack", "read", "status"}
      BY TypeParts DEF TypeInv, HostStates
    <3> QED BY <2>3, <3>1, NoData DEF InHand
  <2>5. seen.good /\ host.pc # "read"
    BY <2>4 DEF AskedInv
  <2> QED BY <2>1, <2>5, AloneHandle DEF Busy
<1>6. CASE HandleEnd
  <2>1. /\ UNCHANGED chip /\ seen'.clobbered = seen.clobbered
        /\ Handles({"end"}, "size") \/ Handles({"end"}, "ack")
    BY <1>0, <1>6, HandleEndEffect
  <2> QED BY <2>1, AloneHandle DEF Busy
<1> QED BY <1>1, <1>2, <1>3, <1>4, <1>5, <1>6

LEMMA AloneMoves ==
    ASSUME TypeInv, Requested, Alone,
           ResetLen \/ CheckSize \/ Check \/ BurnFails \/ BurnErase \/ BurnWrite \/ BurnReturns \/ BurnDone
    PROVE  Alone'
<1>0. TypeOK
  BY DEF TypeInv
\* What they have in common.
<1>1. ASSUME UNCHANGED <<chip, isr, ctl, host>>,
             seen'.handled = seen.handled, seen'.good = seen.good, seen'.clobbered = seen.clobbered,
             ~Answering', main'.pc \notin {"handle", "answer"},
             main'.pc \in Busy => main.pc \in Busy,
             main'.pc \in Busy \/ (Built => Built')
      PROVE  Alone'
  <2>1. main'.pc \in Busy => ctl.state = "IDLE"
    BY <1>1 DEF Alone, AloneInv
  <2>2. BufferInv'
    BY <1>1, <2>1 DEF Alone, BufferInv
  <2> QED BY <1>1, <2>1, <2>2, AloneKept
<1>2. CASE ResetLen
  <2>1. Moves("len", "ack") /\ UNCHANGED <<ctl, seen>>
    BY <1>0, <1>2, ResetLenEffect
  <2> QED BY <1>1, <2>1 DEF Moves, Answering, Busy
<1>3. CASE CheckSize
  <2>1. Moves("size", "ack") /\ UNCHANGED <<ctl, seen>>
    BY <1>0, <1>3, CheckSizeEffect
  <2> QED BY <1>1, <2>1 DEF Moves, Answering, Busy
<1>4. CASE Check
  <2>1. main'.pc \in {"burn", "loop"} /\ UNCHANGED <<chip, isr, ctl, upg, host, seen>>
    BY <1>0, <1>4, CheckEffect
  <2> QED BY <1>1, <2>1 DEF Answering, Busy, Built
<1>5. CASE BurnFails \/ BurnErase \/ BurnWrite \/ BurnReturns
  <2>1. /\ UNCHANGED <<ctl, seen>> /\ upg'.buf = upg.buf
        /\ upg'.status \in {upg.status, "ERASE", "WRITE", "UNUSED"}
        /\ \/ Moves("burn", "burnt") \/ Moves("erase", "burnt") \/ Moves("write", "burnt")
           \/ Moves("burn", "erase") \/ Moves("erase", "write") \/ Moves("burnt", "loop")
    BY <1>0, <1>5, BurnEffect
  <2>2. Built => Built'
    BY <2>1 DEF Built
  <2> QED BY <1>1, <2>1, <2>2 DEF Moves, Answering, Busy
<1>6. CASE BurnDone
  <2>1. /\ Moves("write", "burnt") /\ UNCHANGED <<ctl, upg>>
        /\ seen'.handled = seen.handled /\ seen'.good = seen.good /\ seen'.clobbered = seen.clobbered
    BY <1>0, <1>6, BurnDoneEffect
  <2> QED BY <1>1, <2>1 DEF Moves, Answering, Busy, Built
<1> QED BY <1>2, <1>3, <1>4, <1>5, <1>6

LEMMA AloneSingleTransmit ==
    ASSUME TypeInv, Requested, AskedInv, Alone, SingleTransmit
    PROVE  Alone'
<1>1. PICK n : (ToHost(main.req) => n = 1) /\ (~ToHost(main.req) => n = 0)
  BY Zenon
<1>2. PICK s : s = IF main.req.kind # "status" THEN ""
                   ELSE IF upg.status = "UNUSED" THEN "idle" ELSE "write"
  BY Zenon
<1>3. PICK p : p = Answer(main.req.kind, 0, n, s)
  BY Zenon
<1>4. /\ main.pc = "ack" /\ main'.pc = "check"
      /\ chip'.out = chip.out /\ chip'.ints = chip.ints
      /\ UNCHANGED <<isr, ctl, upg, host, seen>>
  BY <1>1, <1>2, <1>3, SingleTransmitEffect DEF At
<1>5. chip'.in \in {chip.in, p}
  <2>1. n = IF ToHost(main.req) THEN 1 ELSE 0
    BY Zenon, <1>1
  <2>2. chip' = Put(chip, p)
    BY Zenon, <1>2, <1>3, <2>1 DEF SingleTransmit
  <2>3. chip \in Chips
    BY TypeParts DEF TypeInv
  <2> QED BY ONLY <2>2, <2>3 DEF Put, Chips
<1>14. p.from = 0 /\ p.to = main.req.kind
  BY <1>3 DEF Answer
<1>6. InHand /\ seen.handled # 0 /\ main.req = host.req /\ chip.in = NoPacket
  BY <1>4 DEF Requested, IdleInv, SetupInv, TakenInv, HandledInv, InHand, Free, Busy
<1>7. ctl.state = "IDLE"
  BY <1>4 DEF Alone, AloneInv, Busy
<1>8. host.pc = "read" => host.count = 0
  BY <1>4 DEF AskedInv, Busy
<1>9. ~Answering' /\ main'.pc \notin Busy \cup {"handle"}
  BY <1>4 DEF Answering, Busy
<1>10. AloneInv'
  BY <1>4, <1>6, <1>7, <1>9 DEF Alone, AloneInv, InHand
<1>11. ReceiveInv' /\ FirstInv' /\ TransmitInv'
  BY <1>4, <1>7, <1>9 DEF ReceiveInv, FirstInv, TransmitInv
<1>12. InInv'
  BY <1>4, <1>5, <1>6, <1>8, <1>14 DEF InInv
<1>13. BufferInv' /\ GoodInv'
  BY <1>4, <1>7, <1>9 DEF Alone, BufferInv, GoodInv, Busy
<1> QED BY <1>10, <1>11, <1>12, <1>13 DEF Alone

LEMMA AloneFirstPacket ==
    ASSUME TypeInv, Requested, AskedInv, Alone, FirstPacket
    PROVE  Alone'
<1>1. PICK kind : kind = main.req.kind
  OBVIOUS
<1>2. PICK n : n = IF ctl.wLength <= Descriptor[kind] THEN ctl.wLength ELSE Descriptor[kind]
  BY Zenon
<1>3. PICK sent : sent = IF n <= PacketSize THEN n ELSE PacketSize
  BY Zenon
<1>4. PICK p : p = Piece(kind, 0, sent)
  OBVIOUS
<1>5. /\ main.pc = "answer" /\ Undisturbed /\ kind \in DOMAIN Descriptor
      /\ n \in Nat /\ sent \in 0 .. PacketSize
      /\ main'.pc = "count" /\ main'.sent = sent
      /\ ctl'.wCount = 0 /\ ctl'.wLength = n /\ ctl'.pData = kind
      /\ ctl'.setup = ctl.setup /\ ctl'.state = ctl.state
      /\ chip'.in = IF chip.locked THEN chip.in ELSE p
      /\ chip'.out = chip.out /\ chip'.ints = chip.ints
      /\ UNCHANGED <<isr, upg, host, seen>>
  BY <1>1, <1>2, <1>3, <1>4, FirstPacketEffect DEF At
<1>6. InHand /\ seen.handled # 0 /\ main.req = host.req /\ ~chip.locked
  BY <1>5 DEF Requested, ChipInv, IdleInv, SetupInv, TakenInv, HandledInv, InHand, Free, Busy
<1>7. host.pc = "read" /\ host.req.kind = kind
  <2>1. ToHost(host.req)
    BY <1>1, <1>5, <1>6 DEF ToHost
  <2>2. host.pc \notin {"send", "ack", "status"}
    BY <1>5, <2>1 DEF Requested, HostInv, Free
  <2>3. host.pc \in {"idle", "send", "ack", "read", "status"}
    BY TypeParts DEF TypeInv, HostStates
  <2> QED BY <1>1, <1>6, <2>2, <2>3 DEF InHand
<1>8. ctl.state = "IDLE" /\ host.count = 0 /\ ctl.wLength = host.req.wLength
  BY <1>5, <1>7 DEF Alone, AloneInv, AskedInv, Busy
<1>9. n <= ctl.wLength /\ sent <= n
  <2>1. ctl.wLength \in Nat /\ Descriptor[kind] \in Nat
    BY <1>5, Descriptors, TypeParts DEF TypeInv, Ctls
  <2> QED BY <1>2, <1>3, <1>5, <2>1 DEF PacketSize
<1>10. /\ p # NoPacket /\ p.from = 0 /\ p.len = sent
       /\ kind \notin InBuffer \/ upg.buf[1] = Foreign => p.to = kind
  <2>1. PICK from \in Nat : from = 0
    OBVIOUS
  <2>2. p = Piece(kind, from, sent)
    BY <1>4, <2>1
  <2> QED BY <1>5, <2>1, <2>2, WholePiece
<1>11. ~seen.clobbered /\ kind \in InBuffer => Built
  BY <1>1, <1>5 DEF Alone, BufferInv
<1>12. chip'.in = p /\ isr = {} /\ chip.ints = {} /\ InHand'
  BY <1>5, <1>6 DEF Undisturbed, InHand
<1>13. AloneInv'
  <2>1. host.req.kind # "header"
    BY <1>5, <1>7, Descriptors
  <2> QED BY <1>5, <1>6, <1>8, <1>12, <2>1 DEF AloneInv
<1>14. ReceiveInv' /\ TransmitInv'
  BY <1>5, <1>8 DEF ReceiveInv, TransmitInv
<1>15. FirstInv'
  BY <1>5, <1>7, <1>8, <1>9, <1>10, <1>12 DEF FirstInv
<1>16. InInv'
  <2>1. ~seen.clobbered => p.to = kind
    BY <1>10, <1>11 DEF Built
  <2> QED BY <1>5, <1>7, <1>8, <1>10, <1>12, <2>1 DEF InInv
<1>17. BufferInv' /\ GoodInv'
  BY <1>5, <1>11 DEF Alone, BufferInv, GoodInv, Built
<1> QED BY <1>13, <1>14, <1>15, <1>16, <1>17 DEF Alone

LEMMA AloneCountPacket ==
    ASSUME TypeInv, Requested, Alone, CountPacket
    PROVE  Alone'
<1>1. /\ main.pc = "count" /\ Undisturbed /\ main'.pc = "state" /\ main'.sent = main.sent
      /\ main.sent \in 0 .. PacketSize /\ ctl'.wCount = ctl.wCount + main.sent
      /\ ctl'.wLength = ctl.wLength /\ ctl'.pData = ctl.pData
      /\ ctl'.setup = ctl.setup /\ ctl'.state = ctl.state
      /\ UNCHANGED <<chip, isr, upg, host, seen>>
  BY CountPacketEffect DEF TypeInv, Moves
<1>2. Answering /\ "in" \notin chip.ints
  BY <1>1 DEF Answering, Undisturbed
<1>3. ctl.state = "IDLE" /\ ctl.wCount = 0
  BY <1>1, <1>2 DEF Alone, AloneInv, FirstInv
<1>4. ctl'.wCount = main.sent
  BY <1>1, <1>3
<1>5. AloneInv'
  BY <1>1, <1>2, <1>3 DEF Alone, AloneInv, InHand
<1>6. ReceiveInv' /\ TransmitInv'
  BY <1>1, <1>3 DEF ReceiveInv, TransmitInv
<1>7. FirstInv'
  BY <1>1, <1>2, <1>4 DEF Alone, FirstInv, InHand
<1>8. InInv' /\ GoodInv'
  BY <1>1 DEF Alone, InInv, GoodInv
<1>9. BufferInv'
  BY <1>1, <1>2, <1>3 DEF Alone, BufferInv, Built
<1> QED BY <1>5, <1>6, <1>7, <1>8, <1>9 DEF Alone

LEMMA AloneSetState ==
    ASSUME TypeInv, Requested, Alone, SetState
    PROVE  Alone'
<1>1. /\ main.pc = "state" /\ Undisturbed /\ main'.pc = "check"
      /\ ctl'.state = IF main.sent = PacketSize THEN "TRANSMIT" ELSE "IDLE"
      /\ ctl'.wCount = ctl.wCount /\ ctl'.wLength = ctl.wLength /\ ctl'.pData = ctl.pData
      /\ ctl'.setup = ctl.setup
      /\ UNCHANGED <<chip, isr, upg, host, seen>>
  BY SetStateEffect DEF TypeInv, Moves
<1>2. Answering /\ "in" \notin chip.ints /\ isr = {}
  BY <1>1 DEF Answering, Undisturbed
<1>3. /\ InHand /\ host.pc = "read" /\ host.count = 0
      /\ chip.in # NoPacket /\ chip.in.len = main.sent
      /\ ctl.pData = host.req.kind /\ ctl.wLength <= host.req.wLength /\ main.sent <= ctl.wLength
      /\ ctl.wCount = main.sent
  BY <1>1, <1>2 DEF Alone, FirstInv
<1>4. seen.handled # 0
  BY <1>2, <1>3 DEF Alone, AloneInv
<1>5. main'.pc \notin Busy \cup {"handle", "answer"} /\ ~Answering'
  BY <1>1 DEF Answering, Busy
<1>6. AloneInv'
  BY <1>1, <1>2, <1>4, <1>5 DEF Alone, AloneInv, InHand
<1>7. ReceiveInv' /\ FirstInv'
  BY <1>1, <1>5 DEF ReceiveInv, FirstInv
<1>8. TransmitInv'
  <2>1. ctl'.state = "TRANSMIT" => main.sent = PacketSize
    BY <1>1
  <2>2. PacketSize = 0 + PacketSize
    BY DEF PacketSize
  <2> QED BY <1>1, <1>2, <1>3, <2>1, <2>2 DEF TransmitInv, InHand
<1>9. InInv' /\ GoodInv'
  BY <1>1 DEF Alone, InInv, GoodInv
<1>10. BufferInv'
  BY <1>1, <1>2, <1>5 DEF Alone, BufferInv, Built
<1> QED BY <1>6, <1>7, <1>8, <1>9, <1>10 DEF Alone

LEMMA AloneNewRequest ==
    ASSUME TypeInv, Requested, ~seen.raced => Alone, NewRequest, ~seen'.raced
    PROVE  Alone'
<1>1. PICK q \in Requests :
        /\ host.pc = "idle"
        /\ chip'.out = Setup(q) /\ chip'.in = NoPacket /\ chip'.ints = chip.ints \cup {"out"}
        /\ seen'.good /\ (seen'.raced <=> seen.raced /\ ~AtRest)
        /\ seen'.clobbered = seen.clobbered
        /\ UNCHANGED <<isr, ctl, main, upg>>
  BY NewRequestEffect DEF TypeInv
<1>2. chip'.out.setup /\ ~InHand'
  BY <1>1, SetupPacket DEF InHand
<1>3. ctl.state # "RECEIVE" /\ main.pc \notin Busy
  BY <1>1 DEF Requested, IdleInv, Free, Busy
<1>4. Alone \/ (isr = {} /\ ~Answering /\ ctl.state = "IDLE")
  BY <1>1 DEF AtRest, Undisturbed, Answering
<1>5. ~(Answering /\ "in" \notin chip.ints)
  BY <1>1, <1>4 DEF Alone, FirstInv, InHand
<1>6. Answering' = Answering /\ ("in" \in chip'.ints <=> "in" \in chip.ints)
  BY <1>1 DEF Answering
<1>7. AloneInv'
  <2>1. isr \cap {"in", "out"} # {} => ~Answering
    BY <1>4 DEF Alone, AloneInv
  <2>2. "out" \in isr /\ "in" \in chip.ints => "in" \in isr
    BY <1>4 DEF Alone, AloneInv
  <2>3. Answering => ctl.state = "IDLE"
    BY <1>4 DEF Alone, AloneInv
  <2> QED BY <1>1, <1>2, <1>3, <1>6, <2>1, <2>2, <2>3 DEF AloneInv
<1>8. ReceiveInv' /\ FirstInv'
  BY <1>1, <1>3, <1>5, <1>6 DEF ReceiveInv, FirstInv
<1>9. TransmitInv'
  BY <1>1, <1>2, <1>4, <1>6 DEF Alone, TransmitInv
<1>10. InInv' /\ GoodInv'
  BY <1>1 DEF InInv, GoodInv
<1>11. BufferInv'
  <2>1. ~seen.clobbered /\ ctl.state = "TRANSMIT" /\ ctl.pData \in InBuffer => Built
    BY <1>4 DEF Alone, BufferInv
  <2> QED BY <1>1, <1>3, <1>5, <1>6, <2>1 DEF BufferInv, Built, Busy
<1> QED BY <1>7, <1>8, <1>9, <1>10, <1>11 DEF Alone

LEMMA AloneHostSend ==
    ASSUME TypeInv, Requested, Alone, HostSend
    PROVE  Alone'
<1>0. ctl \in Ctls /\ host \in HostStates /\ host.req.wLength \in Nat
  BY TypeParts, RequestShape DEF TypeInv, HostStates
<1>1. PICK n : n = IF PacketSize <= host.req.wLength - host.count
                   THEN PacketSize ELSE host.req.wLength - host.count
  OBVIOUS
<1>2. /\ host.pc = "send" /\ chip.out = NoPacket /\ n \in 1 .. PacketSize
      /\ chip'.out = Data(n, host.req.file) /\ chip'.in = chip.in
      /\ chip'.ints = chip.ints \cup {"out"}
      /\ host'.req = host.req /\ host'.count = host.count + n
      /\ host'.pc = IF host.count + n = host.req.wLength THEN "ack" ELSE "send"
      /\ UNCHANGED <<isr, ctl, main, upg, seen>>
  BY <1>1, HostSendEffect
<1>3. /\ chip'.out.setup = FALSE /\ chip'.out.len = n /\ chip'.out # NoPacket /\ ~chip.out.setup
  <2>1. host.req.file \in Files \cup {NoFile} /\ n \in 0 .. PacketSize
    BY <1>0, <1>2, RequestShape DEF HostStates, PacketSize
  <2> QED BY <1>2, <2>1, DataPacket, NoPacketIs
<1>4. InHand /\ InHand' /\ "out" \notin chip.ints /\ "out" \notin isr
  BY <1>2, <1>3 DEF InHand, Requested, ChipInv
<1>5. ~(Answering /\ "in" \notin chip.ints)
  BY <1>2 DEF Alone, FirstInv
<1>6. Answering' = Answering /\ ("in" \in chip'.ints <=> "in" \in chip.ints)
  BY <1>2 DEF Answering
<1>7. AloneInv'
  <2>1. host.req.kind = "header" => ~(ctl.setup \/ main.pc = "handle" \/ seen.handled # 0)
    BY <1>2, <1>4 DEF Alone, AloneInv
  <2> QED BY <1>2, <1>4, <1>6, <2>1 DEF Alone, AloneInv
<1>8. ReceiveInv'
  <2> SUFFICES ASSUME ctl.state = "RECEIVE"
               PROVE  ctl.wCount + n = host.count + n /\ (host'.pc = "ack" \/ n = PacketSize)
    BY <1>2, <1>3 DEF ReceiveInv
  <2>1. ctl.wCount = host.count
    BY <1>2 DEF Alone, ReceiveInv
  <2>2. n # PacketSize => host.count + n = host.req.wLength
    BY <1>0, <1>1 DEF HostStates
  <2> QED BY <1>2, <2>1, <2>2
<1>9. FirstInv'
  BY <1>5, <1>6 DEF FirstInv
<1>10. TransmitInv'
  BY <1>2, <1>3, <1>6 DEF Alone, TransmitInv
<1>11. InInv' /\ GoodInv'
  BY <1>2 DEF Alone, InInv, GoodInv
<1>12. BufferInv'
  BY <1>2, <1>6 DEF Alone, BufferInv, Built
<1> QED BY <1>7, <1>8, <1>9, <1>10, <1>11, <1>12 DEF Alone

LEMMA AloneHostAck ==
    ASSUME TypeInv, Requested, LateInv, Alone, HostAck
    PROVE  Alone'
<1>1. PICK kind : kind = host.req.kind
  OBVIOUS
<1>2. /\ host.pc = "ack" /\ chip.in # NoPacket
      /\ chip'.in = NoPacket /\ chip'.ints = chip.ints \cup {"in"} /\ chip'.out = chip.out
      /\ host'.pc = "idle"
      /\ seen'.handled = seen.handled /\ seen'.good = seen.good
      /\ seen'.clobbered = seen.clobbered
      /\ UNCHANGED <<isr, ctl, main, upg>>
  BY <1>1, HostAckEffect
<1>3. InHand /\ seen.handled # 0 /\ ctl.state # "RECEIVE" /\ ~InHand'
  BY <1>2 DEF Requested, SetupInv, TakenInv, HandledInv, InHand
<1>4. "out" \notin chip.ints
  <2>1. host.req.kind \in Direct \cup {"header"}
    BY <1>2, NoData
  <2>2. host.req.kind = "header" => "out" \notin chip.ints
    BY <1>3 DEF Alone, AloneInv
  <2>3. host.req.kind \in Direct => "out" \notin chip.ints
    BY <1>3 DEF LateInv
  <2> QED BY <2>1, <2>2, <2>3
<1>5. "out" \notin isr
  BY <1>4 DEF Requested, ChipInv
<1>6. Answering' = Answering /\ "in" \in chip'.ints
  BY <1>2 DEF Answering
<1>7. AloneInv'
  BY <1>2, <1>3, <1>5, <1>6 DEF Alone, AloneInv
<1>8. ReceiveInv' /\ FirstInv'
  BY <1>2, <1>3, <1>6 DEF ReceiveInv, FirstInv
<1>9. TransmitInv'
  BY <1>2, <1>3, <1>6 DEF Alone, TransmitInv
<1>10. InInv' /\ GoodInv'
  BY <1>2 DEF Alone, InInv, GoodInv
<1>11. BufferInv'
  BY <1>2, <1>6 DEF Alone, BufferInv, Built
<1> QED BY <1>7, <1>8, <1>9, <1>10, <1>11 DEF Alone

LEMMA AloneHostRead ==
    ASSUME TypeInv, Requested, Alone, HostRead
    PROVE  Alone'
<1>0. ctl \in Ctls /\ host \in HostStates /\ host.req.wLength \in Nat
  BY TypeParts, RequestShape DEF TypeInv, HostStates
<1>1. PICK p : p = chip.in
  OBVIOUS
<1>2. /\ host.pc = "read" /\ p # NoPacket /\ p.len \in 0 .. PacketSize
      /\ chip'.in = NoPacket /\ chip'.ints = chip.ints \cup {"in"} /\ chip'.out = chip.out
      /\ host'.req = host.req /\ host'.count = host.count + p.len
      /\ host'.pc = IF p.len < PacketSize \/ host.count + p.len >= host.req.wLength
                    THEN "status" ELSE "read"
      /\ seen'.good <=> seen.good /\ p.to = host.req.kind /\ p.from = host.count
      /\ seen'.handled = seen.handled /\ seen'.clobbered = seen.clobbered
      /\ UNCHANGED <<isr, ctl, main, upg>>
  BY <1>1, HostReadEffect
<1>3. /\ InHand /\ InHand' /\ seen.handled # 0 /\ ctl.state # "RECEIVE" /\ main.pc \notin Busy
      /\ "out" \notin chip.ints /\ "out" \notin isr /\ ~chip.out.setup
  <2>1. InHand
    BY <1>1, <1>2 DEF Requested, SetupInv, InHand
  <2>2. seen.handled # 0
    BY <1>1, <1>2, <2>1 DEF Requested, TakenInv
  <2>3. ctl.state # "RECEIVE" /\ main.pc \notin Busy
    BY <1>1, <1>2, <2>1, <2>2 DEF Requested, HandledInv
  <2>4. "out" \notin chip.ints /\ "out" \notin isr
    BY <1>2, <2>1 DEF Requested, HostInv, ChipInv, InHand
  <2> QED BY <1>2, <2>1, <2>2, <2>3, <2>4 DEF InHand
<1>4. Answering' = Answering /\ "in" \in chip'.ints
  BY <1>2 DEF Answering
<1>5. AloneInv'
  <2>1. host.req.kind # "header"
    BY <1>2, NoData
  <2> QED BY <1>2, <1>3, <1>4, <2>1 DEF Alone, AloneInv
<1>6. ReceiveInv' /\ FirstInv'
  BY <1>2, <1>3, <1>4 DEF ReceiveInv, FirstInv
<1>7. TransmitInv'
  <2> SUFFICES ASSUME ctl.state = "TRANSMIT"
               PROVE  TransmitInv'
    BY <1>2 DEF TransmitInv
  <2>1. /\ ctl.wCount <= ctl.wLength /\ ctl.pData = host.req.kind /\ ctl.wLength <= host.req.wLength
        /\ ctl.wCount = host.count + PacketSize /\ p.len = PacketSize
    BY <1>1, <1>2, <1>3 DEF Alone, TransmitInv
  <2>2. ctl.wCount = host'.count
    BY <1>2, <2>1
  <2>3. host'.pc # "read" => ctl.wLength - ctl.wCount < PacketSize
    <3>1. host'.pc # "read" => host.count + PacketSize >= host.req.wLength
      BY <1>2, <2>1 DEF PacketSize
    <3> QED BY <1>0, <2>1, <3>1 DEF Ctls, HostStates, PacketSize
  <2> QED BY <1>2, <1>3, <1>4, <2>1, <2>2, <2>3 DEF TransmitInv
<1>8. InInv'
  BY <1>2 DEF InInv
<1>9. GoodInv'
  BY <1>1, <1>2 DEF Alone, InInv, GoodInv
<1>10. BufferInv'
  BY <1>2, <1>4 DEF Alone, BufferInv, Built
<1> QED BY <1>5, <1>6, <1>7, <1>8, <1>9, <1>10 DEF Alone

LEMMA AloneHostEnds ==
    ASSUME TypeInv, Requested, Alone, HostStatus \/ HostStalled
    PROVE  Alone'
<1>0. host \in HostStates
  BY TypeParts DEF TypeInv
<1>1. /\ host' = Idle /\ host.pc # "idle" /\ chip'.in = chip.in
      /\ "in" \in chip'.ints <=> "in" \in chip.ints
      /\ ~chip.out.setup /\ UNCHANGED <<isr, ctl, main, upg, seen>>
      /\ "out" \in isr => chip'.ints = chip.ints
      /\ host.pc # "read" \/ host.req.kind \in {"reserved", "long"}
      /\ ctl.state = "RECEIVE" => host.req.kind \in {"reserved", "long"}
  <2>1. CASE HostStatus
    <3>1. /\ host.pc = "status" /\ chip.out = NoPacket /\ host' = Idle
          /\ chip'.in = chip.in /\ chip'.ints = chip.ints \cup {"out"}
          /\ UNCHANGED <<isr, ctl, main, upg, seen>>
      BY <2>1, HostStatusEffect
    <3>2. ~chip.out.setup /\ "out" \notin isr
      BY <3>1, NoPacketIs DEF Requested, ChipInv
    <3>3. ctl.state # "RECEIVE"
      BY <3>1, <3>2 DEF Requested, HostInv, HandledInv, InHand
    <3> QED BY <3>1, <3>2, <3>3
  <2>2. CASE HostStalled
    <3>1. host.pc # "idle" /\ chip.stall /\ host' = Idle /\ UNCHANGED <<chip, isr, ctl, main, upg, seen>>
      BY <2>2 DEF HostStalled
    <3> QED BY <3>1 DEF Requested, HostInv, SetupInv
  <2> QED BY <2>1, <2>2
<1>2. InHand /\ ~InHand' /\ host'.pc = "idle"
  BY <1>0, <1>1, IdleIs DEF InHand
<1>3. Answering' = Answering
  BY <1>1 DEF Answering
<1>4. host.req.kind \in {"reserved", "long"} => host.req.kind \notin DOMAIN Descriptor
  BY Descriptors
<1>5. ctl.pData \in DOMAIN Descriptor
  BY TypeParts DEF TypeInv, Ctls
<1>6. ctl.state # "RECEIVE"
  <2>1. CASE host.req.kind \in {"reserved", "long"}
    BY <1>1, <1>2, <2>1 DEF Requested, TakenInv, HandledInv, WithData
  <2> QED BY <1>1, <2>1
<1>7. ~(Answering /\ "in" \notin chip.ints)
  BY <1>1, <1>4, <1>5 DEF Alone, FirstInv
<1>8. AloneInv'
  BY <1>1, <1>2, <1>3 DEF Alone, AloneInv
<1>9. ReceiveInv' /\ FirstInv'
  BY <1>1, <1>3, <1>6, <1>7 DEF ReceiveInv, FirstInv
<1>10. TransmitInv'
  <2>1. ctl.state = "TRANSMIT" => host.pc # "read"
    BY <1>1, <1>2, <1>4, <1>5 DEF Alone, TransmitInv
  <2> QED BY <1>1, <1>2, <2>1 DEF Alone, TransmitInv
<1>11. InInv' /\ GoodInv'
  BY <1>1, <1>2 DEF Alone, InInv, GoodInv
<1>12. BufferInv'
  BY <1>1, <1>3 DEF Alone, BufferInv, Built
<1> QED BY <1>8, <1>9, <1>10, <1>11, <1>12 DEF Alone

LEMMA AloneBulkSend ==
    ASSUME TypeInv, Alone, BulkSend
    PROVE  Alone'
<1>1. PICK n : n = Len(chip.fifo)
  OBVIOUS
<1>2. /\ chip'.ints = chip.ints \cup {"main"} /\ chip'.out = chip.out /\ chip'.in = chip.in
      /\ host'.pc = host.pc /\ host'.req = host.req /\ host'.count = host.count
      /\ UNCHANGED <<isr, ctl, main, upg, seen>>
  BY <1>1, BulkSendEffect
<1>3. /\ InHand' = InHand /\ Answering' = Answering
      /\ "in" \in chip'.ints <=> "in" \in chip.ints
      /\ "out" \in chip'.ints <=> "out" \in chip.ints
  BY <1>2 DEF InHand, Answering
<1>4. AloneInv' /\ ReceiveInv' /\ FirstInv'
  BY <1>2, <1>3 DEF Alone, AloneInv, ReceiveInv, FirstInv
<1>5. TransmitInv' /\ InInv' /\ GoodInv'
  BY <1>2, <1>3 DEF Alone, TransmitInv, InInv, GoodInv
<1>6. BufferInv'
  BY <1>2, <1>3 DEF Alone, BufferInv, Built
<1> QED BY <1>4, <1>5, <1>6 DEF Alone

LEMMA RacedStays ==
    ASSUME TypeInv, Next, ~Abort, ~NewRequest, seen.raced
    PROVE  seen'.raced
<1>0. TypeOK /\ ctl \in Ctls /\ chip \in Chips /\ upg \in Upgs /\ seen \in Histories
  BY TypeParts DEF TypeInv
<1>1. CASE Interrupt
  BY <1>0, <1>1, InterruptEffect
<1>2. CASE RxSetup
  <2>1. seen' = seen \/ seen' = [seen EXCEPT !.handled = @ + 1]
    BY <1>2 DEF RxSetup
  <2> QED BY <1>0, <2>1 DEF Histories
<1>3. CASE HandleShort \/ HandleClear \/ HandleReserved \/ HandleDescriptor \/ HandleHeader \/ HandleEnd
  <2>1. seen'.raced = seen.raced
    BY <1>0, <1>3, HandleShortEffect, HandleClearEffect, HandleReservedEffect, HandleDescriptorEffect,
       HandleHeaderEffect, HandleEndEffect DEF Handles
  <2> QED BY <2>1
<1>4. CASE BurnDone
  BY <1>0, <1>4, BurnDoneEffect
<1>5. CASE HostAck
  <2>1. PICK kind : kind = host.req.kind
    OBVIOUS
  <2> QED BY <1>5, <2>1, HostAckEffect
<1>6. CASE HostRead
  <2>1. PICK p : p = chip.in
    OBVIOUS
  <2> QED BY <1>6, <2>1, HostReadEffect
<1>7. CASE UNCHANGED seen
  BY <1>7
<1> QED
  BY <1>1, <1>2, <1>3, <1>4, <1>5, <1>6, <1>7
  DEF Next, Isr, Main, HostGoesOn, TxDone, RxData, MainRxDone, Loop, ResetLen, CheckSize, SingleTransmit,
      FirstPacket, CountPacket, SetState, Check, BurnFails, BurnErase, BurnWrite, BurnReturns, PowerKey,
      HostSend, HostStatus, HostStalled, BulkSend

LEMMA AloneIsr ==
    ASSUME TypeInv, Requested, AskedInv, Alone, Isr, ~seen'.raced
    PROVE  Alone'
BY AloneInterrupt, AloneTxDone, AloneRxSetup, AloneRxData, AloneMainRxDone DEF Isr

LEMMA AloneMain ==
    ASSUME TypeInv, Requested, AskedInv, Alone, Main
    PROVE  Alone'
BY AloneLoop, AloneHandlers, AloneMoves, AloneSingleTransmit, AloneFirstPacket, AloneCountPacket,
   AloneSetState DEF Main

LEMMA AnswerInit ==
    ASSUME Init
    PROVE  AnswerInv
<1>1. /\ chip = [out |-> NoPacket, in |-> NoPacket, locked |-> FALSE, stall |-> FALSE,
                 ints |-> {}, fifo |-> <<>>]
      /\ isr = {}
  BY DEF Init
<1>2. ctl.state = "IDLE" /\ main.pc = "loop" /\ host.pc = "idle" /\ seen.good
  BY DEF Init
<1>3. chip.in = NoPacket
  BY <1>1
<1>4. AskedInv
  BY <1>2 DEF AskedInv, InHand
<1>5. AloneInv /\ ReceiveInv /\ FirstInv /\ TransmitInv
  BY <1>1, <1>2 DEF AloneInv, ReceiveInv, FirstInv, TransmitInv, InHand, Answering, Busy
<1>6. InInv /\ BufferInv /\ GoodInv
  BY <1>2, <1>3 DEF InInv, BufferInv, GoodInv, Answering
<1> QED BY <1>4, <1>5, <1>6 DEF AnswerInv, Alone

LEMMA AnswerStep ==
    ASSUME TypeInv, RequestInv, TruthInv, AnswerInv, [Next]_vars
    PROVE  AnswerInv'
<1>1. CASE UNCHANGED vars
  <2>1. UNCHANGED <<chip, isr, ctl, main, upg, host, aborts, seen>>
    BY <1>1 DEF vars
  <2> QED BY <2>1 DEF AnswerInv, AskedInv, Alone, AloneInv, ReceiveInv, FirstInv, TransmitInv, InInv,
                      BufferInv, GoodInv, Built, InHand, Answering
<1>2. CASE Next
  <2> SUFFICES ASSUME aborts' = 0, main'.pc # "off"
               PROVE  AskedInv' /\ (~seen'.raced => Alone')
    BY DEF AnswerInv
  <2>1. ~Abort /\ aborts = 0
    BY <1>2, AbortsGrow
  <2>2. OffInv /\ (main.pc # "off" => Requested)
    BY <2>1 DEF RequestInv
  <2>3. main.pc # "off" /\ Requested /\ LateInv /\ AskedInv /\ (~seen.raced => Alone)
    BY <1>2, <2>1, <2>2, OffStep DEF OffInv, TruthInv, AnswerInv
  <2>4. ~PowerKey
    BY PowerKeyEffect DEF TypeInv
  <2>5. AskedInv'
    BY <1>2, <2>1, <2>3, <2>4, AskedIsr, AskedMain, AskedHost DEF Next
  <2>6. ASSUME ~seen'.raced
        PROVE  Alone'
    <3>1. CASE NewRequest
      BY <2>3, <2>6, <3>1, AloneNewRequest
    <3>2. CASE ~NewRequest
      <4>1. Alone
        BY <1>2, <2>1, <2>3, <2>6, <3>2, RacedStays
      <4>2. CASE Isr
        BY <2>3, <2>6, <4>1, <4>2, AloneIsr
      <4>3. CASE Main
        BY <2>3, <4>1, <4>3, AloneMain
      <4>4. CASE HostGoesOn \/ BulkSend
        BY <2>3, <4>1, <4>4, AloneHostSend, AloneHostAck, AloneHostRead, AloneHostEnds, AloneBulkSend
        DEF HostGoesOn
      <4> QED BY <1>2, <2>1, <2>4, <3>2, <4>2, <4>3, <4>4 DEF Next
    <3> QED BY <3>1, <3>2
  <2> QED BY <2>5, <2>6
<1> QED BY <1>1, <1>2

\* While the host gives nothing up: what it reads is the answer to its own request,
\* packet after packet from the first, though code_transmit and ep0_txdone both write to
\* the endpoint and both count.  Left out are an interrupt in the middle of
\* code_transmit, till the box is at rest, and a descriptor built in the buffer of a
\* download.
THEOREM AnswersBelong == Spec => []AnswerBelongs
<1> DEFINE Inv == TypeInv /\ RequestInv /\ FileInv /\ TruthInv /\ AnswerInv /\ AnswerBelongs
<1>1. AnswerInv /\ main.pc # "off" => AnswerBelongs
  BY DEF AnswerInv, Alone, GoodInv, AnswerBelongs, Orderly
<1>2. (AnswerInv /\ main.pc # "off" => AnswerBelongs)'
  BY <1>1, PTL
<1>3. Init => Inv
  <2> SUFFICES ASSUME Init
               PROVE  Inv
    OBVIOUS
  <2>1. main.pc # "off"
    BY DEF Init
  <2> QED BY <1>1, <2>1, TypeInit, RequestInit, FileInit, TruthInit, AnswerInit
<1>4. Inv /\ [Next]_vars => Inv'
  <2> SUFFICES ASSUME Inv, [Next]_vars
               PROVE  Inv'
    OBVIOUS
  <2>1. TypeInv' /\ RequestInv' /\ FileInv' /\ TruthInv' /\ AnswerInv'
    BY TypeStep, RequestStep, FileStep, TruthStep, AnswerStep
  <2>2. AnswerBelongs'
    <3> SUFFICES ASSUME aborts' = 0
                 PROVE  AnswerBelongs'
      BY DEF AnswerBelongs, Orderly
    <3>1. CASE main'.pc # "off"
      BY <1>2, <2>1, <3>1
    <3>2. CASE main'.pc = "off" /\ Next
      BY <3>2, OffByKey DEF AnswerBelongs, Orderly
    <3>3. CASE UNCHANGED vars
      BY <3>3 DEF vars, AnswerBelongs, Orderly
    <3> QED BY <3>1, <3>2, <3>3
  <2> QED BY <2>1, <2>2
<1>5. Inv => AnswerBelongs
  OBVIOUS
<1> QED BY <1>3, <1>4, <1>5, PTL DEF Spec
=============================================================================
