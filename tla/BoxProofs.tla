----------------------------- MODULE BoxProofs -----------------------------
(***************************************************************************)
(* What is proved of a part holds of the box the part runs in, for any     *)
(* sizes of the part: the USB upgrade with a NET2270, whose proof has a    *)
(* module of its own, and then its root hub, its memory card, the standard *)
(* requests of the USB devices, and the messages of the USB host           *)
(* controller.                                                             *)
(***************************************************************************)
EXTENDS MCBox, TLAPS

NetP  == INSTANCE UsbNet2270Proofs WITH Size <- Packets, BlockSize <- BlockPackets

boxVars == <<part, usbVars, frontVars, ataVars, showVars>>

-----------------------------------------------------------------------------
(* The part and the part with its proofs are one.                          *)

LEMMA NetSame ==
    /\ Net!Init <=> NetP!Init
    /\ Net!Next <=> NetP!Next
    /\ Net!WholeFile <=> NetP!WholeFile
    /\ Net!IsrDoesNotWait <=> NetP!IsrDoesNotWait
BY DEF Net!vars, Net!NoFile, Net!Junk, Net!Depth, Net!Req, Net!NoRequest, Net!WithData,
       Net!Chunks, Net!ToHost, Net!Least, Net!Init, Net!HostIdle, Net!NextBlock,
       Net!BreaksOff, Net!ReadingBlock, Net!Ask, Net!SendChunk, Net!Complete,
       Net!SendBulk, Net!Answered, Net!Released, Net!Counted, Net!LengthIsRight,
       Net!Completed, Net!Descriptor, Net!Clobbered, Net!Entered, Net!SetupWithoutData,
       Net!SetupWithData, Net!Received, Net!ReadFirst, Net!CountFirst, Net!Ep0Received,
       Net!Ep0Counts, Net!Interrupt, Net!InterruptDue, Net!Rest, Net!CanRead, Net!Old,
       Net!Laid, Net!IsrReads, Net!MainReads, Net!MainCounts, Net!MainStopsReading,
       Net!SizeInFront, Net!TooBig, Net!HeaderTaken, Net!Handle, Net!ToBurn, Net!Burn,
       Net!BurnReturns, Net!Main, Net!Next, Net!Whole, Net!WholeFile,
       Net!IsrDoesNotWait, Net!Range, NetP!vars, NetP!NoFile, NetP!Junk, NetP!Depth,
       NetP!Req, NetP!NoRequest, NetP!WithData, NetP!Chunks, NetP!ToHost, NetP!Least,
       NetP!Init, NetP!HostIdle, NetP!NextBlock, NetP!BreaksOff, NetP!ReadingBlock,
       NetP!Ask, NetP!SendChunk, NetP!Complete, NetP!SendBulk, NetP!Answered,
       NetP!Released, NetP!Counted, NetP!LengthIsRight, NetP!Completed, NetP!Descriptor,
       NetP!Clobbered, NetP!Entered, NetP!SetupWithoutData, NetP!SetupWithData,
       NetP!Received, NetP!ReadFirst, NetP!CountFirst, NetP!Ep0Received, NetP!Ep0Counts,
       NetP!Interrupt, NetP!InterruptDue, NetP!Rest, NetP!CanRead, NetP!Old, NetP!Laid,
       NetP!IsrReads, NetP!MainReads, NetP!MainCounts, NetP!MainStopsReading,
       NetP!SizeInFront, NetP!TooBig, NetP!HeaderTaken, NetP!Handle, NetP!ToBurn,
       NetP!Burn, NetP!BurnReturns, NetP!Main, NetP!Next, NetP!Whole, NetP!WholeFile,
       NetP!IsrDoesNotWait, NetP!Range

LEMMA PartSizes == Hub!HubSizes /\ Card!MmcSizes /\ NetP!NetSizes
BY PartsAssumption DEF PartsAssumption, Net!NetSizes, NetP!NetSizes

-----------------------------------------------------------------------------
(* The root hub: RootHub.                                                  *)

\* Where a reset is, and the records' types.
ResetInv ==
    /\ req \in [port : {0} \cup Hub!Ports, place : {"none", "spin", "wait", "back"}]
    /\ core \in [started : BOOLEAN, hub : {0, 1}] /\ unreset \in BOOLEAN
    /\ req # Hub!NoReq => core.started /\ req.port \in Hub!Ports

\* A reset that waits has not ended, or a change tells how it ended: the port
\* is only left disabled by an event that sets one.
Told == {"CSC", "PESC", "OCIC", "PRSC"}
WaitInv ==
    req.place = "wait" => ports[req.port] \cap ({"PRS"} \cup Told) # {}

HubInv == Hub!HubTypeOK /\ ResetInv /\ WaitInv /\ Hub!HubAsAsked

-----------------------------------------------------------------------------
EventNames == {"attach", "detach", "babble", "overload", "cooled", "wakes",
               "resumed", "reset"}

\* What happens on a port leaves a register, takes no change away, and ends no
\* reset without a change.
LEMMA HappensTells ==
    ASSUME NEW s \in SUBSET Hub!Bits, NEW e \in EventNames
    PROVE  /\ Hub!Happens(s)[e] \in SUBSET Hub!Bits
           /\ s \cap Told # {} => Hub!Happens(s)[e] \cap Told # {}
           /\ s \cap ({"PRS"} \cup Told) # {} => Hub!Happens(s)[e] \cap ({"PRS"} \cup Told) # {}
<1>1. CASE e = "attach"
  <2>1. Hub!Happens(s)["attach"] = IF {"PPS"} = s \cap {"PPS", "CCS"} THEN s \cup {"CCS", "CSC"} ELSE s
    BY DEF Hub!Happens
  <2> QED BY <1>1, <2>1 DEF Hub!Bits, Hub!Changes, Told
<1>2. CASE e = "detach"
  <2>1. Hub!Happens(s)["detach"] = IF "CCS" \in s THEN Hub!Gone(s) \cup {"CSC"} ELSE s
    BY DEF Hub!Happens
  <2> QED BY <1>2, <2>1 DEF Hub!Bits, Hub!Changes, Told, Hub!Gone
<1>3. CASE e = "babble"
  <2>1. Hub!Happens(s)["babble"] = IF "PES" \in s THEN (s \ {"PES"}) \cup {"PESC"} ELSE s
    BY DEF Hub!Happens
  <2> QED BY <1>3, <2>1 DEF Hub!Bits, Hub!Changes, Told
<1>4. CASE e = "overload"
  <2>1. Hub!Happens(s)["overload"] = IF "PPS" \in s THEN (Hub!Gone(s) \ {"PPS"}) \cup {"POCI", "OCIC"} ELSE s
    BY DEF Hub!Happens
  <2> QED BY <1>4, <2>1 DEF Hub!Bits, Hub!Changes, Told, Hub!Gone
<1>5. CASE e = "cooled"
  <2>1. Hub!Happens(s)["cooled"] = IF "POCI" \in s THEN (s \ {"POCI"}) \cup {"OCIC"} ELSE s
    BY DEF Hub!Happens
  <2> QED BY <1>5, <2>1 DEF Hub!Bits, Hub!Changes, Told
<1>6. CASE e = "wakes"
  <2>1. Hub!Happens(s)["wakes"] = IF "PSS" \in s THEN (s \ {"PSS", "resuming"}) \cup {"PSSC"} ELSE s
    BY DEF Hub!Happens
  <2> QED BY <1>6, <2>1 DEF Hub!Bits, Hub!Changes, Told
<1>7. CASE e = "resumed"
  <2>1. Hub!Happens(s)["resumed"] = IF "resuming" \in s THEN (s \ {"PSS", "resuming"}) \cup {"PSSC"} ELSE s
    BY DEF Hub!Happens
  <2> QED BY <1>7, <2>1 DEF Hub!Bits, Hub!Changes, Told
<1>8. CASE e = "reset"
  <2>1. Hub!Happens(s)["reset"] = IF "PRS" \in s
          THEN (s \ {"PRS", "PSS", "resuming"}) \cup {"PES", "PRSC"} ELSE s
    BY DEF Hub!Happens
  <2> QED BY <1>8, <2>1 DEF Hub!Bits, Hub!Changes, Told
<1> QED BY <1>1, <1>2, <1>3, <1>4, <1>5, <1>6, <1>7, <1>8 DEF EventNames

\* What the bit that is written does is what the feature promises.
LEMMA ClearsAsPromised ==
    ASSUME NEW s, NEW f \in DOMAIN Hub!ClearBit
    PROVE  Hub!Written(s, Hub!ClearBit[f]) = Hub!Promised(s, "clear", f)
BY DEF Hub!ClearBit, Hub!Written, Hub!Promised, Hub!Changes

LEMMA SetsAsPromised ==
    ASSUME NEW s, NEW f \in DOMAIN Hub!SetBit
    PROVE  Hub!Written(s, Hub!SetBit[f]) = Hub!Promised(s, "set", f)
BY DEF Hub!SetBit, Hub!Written, Hub!Promised, Hub!Changes

\* What the bits of a register are after a request is written.
LEMMA PromisedType ==
    ASSUME NEW s \in SUBSET Hub!Bits
    PROVE  /\ \A f \in DOMAIN Hub!ClearBit : Hub!Promised(s, "clear", f) \in SUBSET Hub!Bits
           /\ \A f \in DOMAIN Hub!SetBit : Hub!Promised(s, "set", f) \in SUBSET Hub!Bits
<1>1. /\ Hub!Disable(s) \in SUBSET Hub!Bits /\ Hub!Enable(s) \in SUBSET Hub!Bits
      /\ Hub!Suspend(s) \in SUBSET Hub!Bits /\ Hub!Reset(s) \in SUBSET Hub!Bits
      /\ Hub!Resume(s) \in SUBSET Hub!Bits /\ Hub!PowerOn(s) \in SUBSET Hub!Bits
      /\ Hub!PowerOff(s) \in SUBSET Hub!Bits
  BY DEF Hub!Disable, Hub!Enable, Hub!Suspend, Hub!Reset, Hub!Resume, Hub!PowerOn, Hub!PowerOff, Hub!IfDevice, Hub!Bits, Hub!Changes
<1>2. \A b : s \ {b} \in SUBSET Hub!Bits
  OBVIOUS
<1> QED BY <1>1, <1>2 DEF Hub!Promised, Hub!ClearBit, Hub!SetBit

LEMMA ResetTells ==
    ASSUME NEW s PROVE Hub!Reset(s) \cap ({"PRS"} \cup Told) # {}
BY DEF Hub!Reset, Hub!IfDevice, Told

-----------------------------------------------------------------------------
\* A regs that is reset, or is not, has registers.
LEMMA StartedType ==
    ASSUME Hub!HubTypeOK, NEW ok \in BOOLEAN, NEW regs \in Hub!SwReset(ok)
    PROVE  Hub!Started(regs) \in [Hub!Ports -> SUBSET Hub!Bits]
<1>1. regs \in [Hub!Ports -> SUBSET Hub!Bits]
  BY DEF Hub!SwReset, Hub!HubTypeOK
<1>2. ASSUME NEW p \in Hub!Ports PROVE Hub!Written(regs[p], "CCS") \in SUBSET Hub!Bits
  <2>1. Hub!Written(regs[p], "CCS") = Hub!Disable(regs[p])
    BY DEF Hub!Written, Hub!Changes
  <2> QED BY <1>1, <2>1 DEF Hub!Disable
<1> QED BY <1>2 DEF Hub!Started

LEMMA HubInit == ASSUME Hub!HubSizes, Hub!Init PROVE HubInv
<1>1. ports \in [Hub!Ports -> SUBSET Hub!Bits] /\ asked = ports
  BY DEF Hub!Init
<1>2. req = [port |-> 0, place |-> "none"] /\ core = [started |-> FALSE, hub |-> 0]
  BY DEF Hub!Init, Hub!NoReq
<1>3. rh_devnum = 0 /\ events \in 0..MaxEvents /\ unreset = FALSE
  BY DEF Hub!Init, Hub!HubSizes
<1> QED BY <1>1, <1>2, <1>3 DEF HubInv, Hub!HubTypeOK, ResetInv, WaitInv, Hub!HubAsAsked, Hub!NoReq

\* Each action keeps the invariant.
LEMMA EventKeeps ==
    ASSUME Hub!HubSizes, HubInv, NEW p \in Hub!Ports, NEW e \in EventNames, Hub!Event(p, e)
    PROVE  HubInv'
<1> DEFINE new == Hub!Happens(ports[p])[e]
<1>1. ports[p] \in SUBSET Hub!Bits /\ ports = asked
  BY DEF HubInv, Hub!HubTypeOK, Hub!HubAsAsked
<1>2. /\ new \in SUBSET Hub!Bits
      /\ ports[p] \cap Told # {} => new \cap Told # {}
      /\ ports[p] \cap ({"PRS"} \cup Told) # {} => new \cap ({"PRS"} \cup Told) # {}
  BY <1>1, HappensTells
<1>3. ports' = [ports EXCEPT ![p] = new] /\ asked' = ports'
  BY <1>1 DEF Hub!Event
<1>4. Hub!HubTypeOK'
  <2>1. events' \in 0..MaxEvents
    BY DEF Hub!Event, HubInv, Hub!HubTypeOK, Hub!HubSizes
  <2> HIDE DEF new
  <2> QED BY <1>2, <1>3, <2>1 DEF Hub!Event, HubInv, Hub!HubTypeOK
<1>5. ResetInv' /\ req' = req /\ core' = core /\ rh_devnum' = rh_devnum /\ unreset' = unreset
  BY DEF Hub!Event, HubInv, ResetInv
<1>6. ASSUME NEW q \in Hub!Ports
      PROVE  /\ ports[q] \cap Told # {} => ports'[q] \cap Told # {}
             /\ ports[q] \cap ({"PRS"} \cup Told) # {}
                  => ports'[q] \cap ({"PRS"} \cup Told) # {}
  <2> HIDE DEF new
  <2> QED BY <1>2, <1>3 DEF HubInv, Hub!HubTypeOK
<1>7. req.place \in {"wait", "back"} => req.port \in Hub!Ports
  BY DEF HubInv, ResetInv, Hub!NoReq
<1>8. WaitInv'
  BY <1>5, <1>6, <1>7 DEF HubInv, WaitInv
<1>9. Hub!HubAsAsked'
  BY <1>3, <1>5, <1>6, <1>7 DEF HubInv, Hub!HubAsAsked, Told
<1> QED BY <1>4, <1>5, <1>8, <1>9 DEF HubInv

\* A request that writes one port while no reset is in progress.
LEMMA WriteKeeps ==
    ASSUME HubInv, Hub!ToHub, NEW p \in Hub!Ports, NEW bits \in SUBSET Hub!Bits,
           ports' = [ports EXCEPT ![p] = bits], asked' = [asked EXCEPT ![p] = bits],
           UNCHANGED <<rh_devnum, req, core, events, unreset>>
    PROVE  HubInv'
BY DEF HubInv, Hub!HubTypeOK, ResetInv, WaitInv, Hub!HubAsAsked, Hub!ToHub, Hub!NoReq

LEMMA ClearFeatureKeeps ==
    ASSUME HubInv, NEW p \in Hub!Ports, NEW f \in DOMAIN Hub!ClearBit, Hub!ClearFeature(p, f)
    PROVE  HubInv'
<1> DEFINE bits == Hub!Promised(ports[p], "clear", f)
<1>1. ports[p] \in SUBSET Hub!Bits /\ asked[p] = ports[p]
  BY DEF HubInv, Hub!HubTypeOK, Hub!HubAsAsked
<1>2. bits \in SUBSET Hub!Bits
  BY <1>1, PromisedType
<1>3. ports' = [ports EXCEPT ![p] = bits] /\ asked' = [asked EXCEPT ![p] = bits]
  BY <1>1, ClearsAsPromised DEF Hub!ClearFeature, Hub!Write, Hub!Asks
<1> QED BY <1>2, <1>3, WriteKeeps DEF Hub!ClearFeature

LEMMA SetFeatureKeeps ==
    ASSUME HubInv, NEW p \in Hub!Ports, NEW f \in DOMAIN Hub!SetBit, Hub!SetFeature(p, f)
    PROVE  HubInv'
<1> DEFINE bits == Hub!Promised(ports[p], "set", f)
<1>1. ports[p] \in SUBSET Hub!Bits /\ asked[p] = ports[p]
  BY DEF HubInv, Hub!HubTypeOK, Hub!HubAsAsked
<1>2. bits \in SUBSET Hub!Bits
  BY <1>1, PromisedType
<1>3. ports' = [ports EXCEPT ![p] = bits] /\ asked' = [asked EXCEPT ![p] = bits]
  BY <1>1, SetsAsPromised DEF Hub!SetFeature, Hub!Write, Hub!Asks
<1> QED BY <1>2, <1>3, WriteKeeps DEF Hub!SetFeature

LEMMA ResetPortKeeps ==
    ASSUME HubInv, NEW p \in Hub!Ports, Hub!ResetPort(p) PROVE HubInv'
BY DEF Hub!ResetPort, Hub!ToHub, HubInv, Hub!HubTypeOK, ResetInv, WaitInv, Hub!HubAsAsked, Hub!NoReq

LEMMA ResetBeginsKeeps ==
    ASSUME HubInv, Hub!ResetBegins PROVE HubInv'
<1> DEFINE p == req.port
           bits == Hub!Reset(ports[p])
<1>1. p \in Hub!Ports /\ core.started
  BY DEF Hub!ResetBegins, HubInv, ResetInv, Hub!NoReq
<1>2. ports[p] \in SUBSET Hub!Bits /\ asked[p] = ports[p]
  BY <1>1 DEF HubInv, Hub!HubTypeOK, Hub!HubAsAsked
<1>3. Hub!Promised(ports[p], "set", "reset") = bits /\ Hub!Written(ports[p], Hub!SetBit["reset"]) = bits
  BY SetsAsPromised DEF Hub!Promised, Hub!SetBit
<1>4. bits \in SUBSET Hub!Bits
  BY <1>2, <1>3, PromisedType DEF Hub!SetBit
<1>5. bits \cap ({"PRS"} \cup Told) # {}
  BY ResetTells
<1>6. ports' = [ports EXCEPT ![p] = bits] /\ asked' = [asked EXCEPT ![p] = bits]
  BY <1>2, <1>3 DEF Hub!ResetBegins, Hub!Write, Hub!Asks
<1>7. req' = [req EXCEPT !.place = "wait"] /\ UNCHANGED <<rh_devnum, core, events, unreset>>
  BY DEF Hub!ResetBegins
<1> HIDE DEF bits
<1> QED BY <1>1, <1>4, <1>5, <1>6, <1>7
        DEF HubInv, Hub!HubTypeOK, ResetInv, WaitInv, Hub!HubAsAsked, Hub!NoReq

LEMMA ResetEndsKeeps ==
    ASSUME HubInv, Hub!ResetEnds PROVE HubInv'
BY DEF Hub!ResetEnds, HubInv, Hub!HubTypeOK, ResetInv, WaitInv, Hub!HubAsAsked, Hub!NoReq, Told

LEMMA ResetReturnsKeeps ==
    ASSUME HubInv, Hub!ResetReturns PROVE HubInv'
BY DEF Hub!ResetReturns, HubInv, Hub!HubTypeOK, ResetInv, WaitInv, Hub!HubAsAsked, Hub!NoReq

LEMMA SetAddressKeeps ==
    ASSUME HubInv, Hub!SetAddress PROVE HubInv'
BY DEF Hub!SetAddress, Hub!ToHub, HubInv, Hub!HubTypeOK, ResetInv, WaitInv, Hub!HubAsAsked, Hub!NoReq

LEMMA LowlevelInitKeeps ==
    ASSUME HubInv, Hub!LowlevelInit PROVE HubInv'
<1> PICK ok \in BOOLEAN :
      /\ \E regs \in Hub!SwReset(ok) : ports' = Hub!Started(regs) /\ asked' = Hub!Started(regs)
      /\ rh_devnum' = (IF ok THEN 0 ELSE rh_devnum) /\ unreset' = ~ok
  BY DEF Hub!LowlevelInit
<1> PICK regs \in Hub!SwReset(ok) : ports' = Hub!Started(regs) /\ asked' = Hub!Started(regs)
  OBVIOUS
<1>1. Hub!Started(regs) \in [Hub!Ports -> SUBSET Hub!Bits]
  BY StartedType DEF HubInv
<1>2. req' = req /\ req = Hub!NoReq /\ events' = events /\ core' = [started |-> TRUE, hub |-> 0]
  BY DEF Hub!LowlevelInit, HubInv, ResetInv
<1>3. Hub!HubTypeOK'
  BY <1>1, <1>2 DEF HubInv, Hub!HubTypeOK
<1> QED BY <1>2, <1>3 DEF HubInv, Hub!HubTypeOK, ResetInv, WaitInv, Hub!HubAsAsked, Hub!NoReq

LEMMA LowlevelStopKeeps ==
    ASSUME HubInv, Hub!LowlevelStop PROVE HubInv'
<1>1. ports' = [p \in Hub!Ports |-> {}] /\ asked' = ports'
  BY DEF Hub!LowlevelStop
<1>2. ports' \in [Hub!Ports -> SUBSET Hub!Bits]
  BY <1>1
<1> QED BY <1>1, <1>2 DEF Hub!LowlevelStop, HubInv, Hub!HubTypeOK, ResetInv, WaitInv, Hub!HubAsAsked, Hub!NoReq

-----------------------------------------------------------------------------
LEMMA HubNext ==
    ASSUME Hub!HubSizes, HubInv, [Hub!Next]_(Hub!vars) PROVE HubInv'
<1>1. CASE Hub!Next
  BY <1>1, EventKeeps, ClearFeatureKeeps, SetFeatureKeeps, ResetPortKeeps, ResetBeginsKeeps,
     ResetEndsKeeps, ResetReturnsKeeps, SetAddressKeeps, LowlevelInitKeeps, LowlevelStopKeeps
     DEF Hub!Next, EventNames
<1>2. CASE UNCHANGED Hub!vars
  BY <1>2 DEF Hub!vars, HubInv, Hub!HubTypeOK, ResetInv, WaitInv, Hub!HubAsAsked
<1> QED BY <1>1, <1>2

-----------------------------------------------------------------------------
(* The memory card: MmcCard. A range goes to or from its own place, whatever *)
(* the sizes of the blocks, the cards and the range.                         *)

CardPlaces == {"idle", "wakeup", "head", "body", "done", "returned", "hung"}
CardKinds  == {"none", "init", "read", "write"}
CardMoving == {"head", "body", "done"}
CardRanged == range.kind \in {"read", "write"}

CardTyped ==
    /\ card \in [in : BOOLEAN, blocks : Cards, awake : BOOLEAN]
    /\ mmc \in [ready : BOOLEAN, size : Cards \cup {0}]
    /\ range \in [kind : CardKinds, from : Nat, size : 0..MaxLen, cur : Nat, place : CardPlaces,
               ret : {-1, 0, 1, 2}]
    /\ at \in [Card!Addresses -> {Card!Kept, Card!Wild} \cup Card!Addresses]

\* Which call is where; one that moves blocks has a range.
CardPlaceInv ==
    /\ range.place \in CardMoving => CardRanged /\ range.size > 0
    /\ range.place = "idle" => range.kind = "none"
    /\ range.place = "wakeup" => range.kind = "init"

Aligned(a) == \E q \in Nat : a = q * BlockSize

\* How far the call has come: whole blocks begin where a block does, and only
\* a short range is passed by.
CardCurInv ==
    /\ range.from <= range.cur
    /\ range.cur <= Card!End \/ range.cur <= range.from + BlockSize
    /\ range.place = "head" => range.cur = range.from
    /\ range.place = "body" => Aligned(range.cur)
    /\ ~Card!Short => range.cur <= Card!End
    /\ Card!Short /\ range.place \in {"body", "done"} => range.cur > Card!End
    /\ CardRanged /\ ~Card!Short
       /\ (range.place = "done" \/ (range.place = "returned" /\ range.ret = 0))
         => range.cur = Card!End

\* What has been moved is what the call has passed, and nothing else.
RangeFirst == IF range.kind = "read" THEN 0 ELSE range.from
RangeShift == IF range.kind = "read" THEN range.from ELSE -range.from
CardAtInv ==
    CardRanged /\ ~Card!Short =>
      \A p \in Card!Addresses :
        at[p] = IF p \in RangeFirst..(RangeFirst + (range.cur - range.from) - 1) THEN p + RangeShift ELSE Card!Kept

\* For which block a writing waits for ever.
CardHungInv == range.place = "hung" /\ range.kind = "write" => Card!AtEdge

CardInv == CardTyped /\ CardPlaceInv /\ CardCurInv /\ CardAtInv /\ CardHungInv

-----------------------------------------------------------------------------
\* The blocks a range begins and ends in.
LEMMA Blocks ==
    ASSUME BlockSize \in Nat \ {0}, NEW x \in Nat
    PROVE  /\ x % BlockSize \in 0..(BlockSize - 1)
           /\ x - (x % BlockSize) \in Nat /\ Aligned(x - (x % BlockSize))
<1>1. x \div BlockSize \in Nat /\ x = BlockSize * (x \div BlockSize) + (x % BlockSize)
  OBVIOUS
<1>2. x % BlockSize \in 0..(BlockSize - 1)
  OBVIOUS
<1>3. (x \div BlockSize) * BlockSize = x - (x % BlockSize)
  BY <1>1, <1>2
<1>4. (x \div BlockSize) * BlockSize \in Nat
  BY <1>1
<1> QED BY <1>1, <1>2, <1>3, <1>4 DEF Aligned

\* Of two places at which a block begins, one is a block further or none is.
LEMMA NextBlock ==
    ASSUME BlockSize \in Nat \ {0}, NEW a \in Nat, NEW b \in Nat, Aligned(a), Aligned(b), a < b
    PROVE  a + BlockSize <= b
<1>1. PICK q \in Nat : a = q * BlockSize
  BY DEF Aligned
<1>2. PICK m \in Nat : b = m * BlockSize
  BY DEF Aligned
<1>3. q < m \/ q >= m
  OBVIOUS
<1>4. q * BlockSize + BlockSize <= m * BlockSize
  BY <1>1, <1>2, <1>3
<1> QED BY <1>1, <1>2, <1>4

LEMMA BlockBehind ==
    ASSUME BlockSize \in Nat \ {0}, NEW a \in Nat, Aligned(a)
    PROVE  Aligned(a + BlockSize)
<1>1. PICK q \in Nat : a = q * BlockSize
  BY DEF Aligned
<1>2. a + BlockSize = (q + 1) * BlockSize
  BY <1>1
<1> SUFFICES \E r \in Nat : a + BlockSize = r * BlockSize
  BY DEF Aligned
<1> WITNESS q + 1 \in Nat
<1> QED BY <1>2

\* A block the card has lies on it whole.
LEMMA LargestCard ==
    ASSUME Card!MmcSizes, NEW n \in Cards
    PROVE  Card!Largest \in Nat /\ n <= Card!Largest /\ n \in Nat /\ n * BlockSize <= Card!Largest * BlockSize
<1>1. Card!Largest \in Cards /\ \A m \in Cards : m <= Card!Largest
  BY DEF Card!MmcSizes, Card!Largest
<1>2. Card!Largest \in Nat /\ n \in Nat /\ n <= Card!Largest /\ BlockSize \in Nat
  BY <1>1 DEF Card!MmcSizes
<1> HIDE DEF Card!Largest
<1> QED BY <1>2

LEMMA OnCard ==
    ASSUME Card!MmcSizes, CardTyped, NEW a \in Nat, Aligned(a), Card!InCard(a)
    PROVE  /\ card.blocks * BlockSize \in Nat /\ Card!Largest * BlockSize \in Nat
           /\ a + BlockSize <= card.blocks * BlockSize /\ a + BlockSize <= Card!Largest * BlockSize
<1>1. card.blocks \in Cards /\ BlockSize \in Nat \ {0} /\ a < card.blocks * BlockSize
  BY DEF CardTyped, Card!InCard, Card!MmcSizes
<1>2. Card!Largest \in Nat /\ card.blocks \in Nat /\ card.blocks * BlockSize <= Card!Largest * BlockSize
  BY <1>1, LargestCard
<1>3. card.blocks * BlockSize \in Nat /\ Card!Largest * BlockSize \in Nat
  BY <1>1, <1>2
<1>4. a + BlockSize <= card.blocks * BlockSize
  BY <1>1, <1>2, <1>3, NextBlock DEF Aligned
<1> QED BY <1>1, <1>2, <1>3, <1>4

\* The block at a lies in the range's own place: what a reading and a writing
\* of n bytes of it leave.
LEMMA MovedType ==
    ASSUME Card!MmcSizes, CardInv, CardRanged, NEW a \in Nat, Aligned(a), Card!InCard(a),
           NEW i \in Nat, NEW n \in Nat, i + n <= BlockSize, a + i = range.cur
    PROVE  (IF range.kind = "read" THEN Card!Copied(a, i, n) ELSE Card!Stored(a, i, n))
             \in [Card!Addresses -> {Card!Kept, Card!Wild} \cup Card!Addresses]
<1> DEFINE top == Card!Largest * BlockSize
<1>1. /\ top \in Nat /\ a + BlockSize <= top /\ Card!Addresses = 0..(top - 1)
      /\ BlockSize \in Nat
  BY OnCard DEF CardInv, Card!MmcSizes, Card!Addresses
<1> HIDE DEF top
<1>2. /\ range.from \in Nat /\ range.cur \in Nat /\ range.size \in Nat /\ range.from <= range.cur
      /\ at \in [Card!Addresses -> {Card!Kept, Card!Wild} \cup Card!Addresses]
  BY DEF CardInv, CardTyped, CardCurInv, Card!MmcSizes
<1>3. Card!Copied(a, i, n) \in [Card!Addresses -> {Card!Kept, Card!Wild} \cup Card!Addresses]
  <2> DEFINE to == range.cur - range.from
  <2>1. ASSUME NEW p \in Card!Addresses, p \in to..(to + n - 1) PROVE a + i + (p - to) \in Card!Addresses
    BY <1>1, <1>2, <2>1
  <2> HIDE DEF to
  <2>2. [p \in Card!Addresses |-> IF p \in to..(to + n - 1) THEN a + i + (p - to) ELSE at[p]]
          \in [Card!Addresses -> {Card!Kept, Card!Wild} \cup Card!Addresses]
    BY <1>2, <2>1
  <2> QED BY <2>2 DEF Card!Copied, to
<1>4. Card!Stored(a, i, n) \in [Card!Addresses -> {Card!Kept, Card!Wild} \cup Card!Addresses]
  <2>1. ASSUME NEW p \in Card!Addresses, p \in (a + i)..(a + i + n - 1)
        PROVE  range.cur - range.from + (p - a - i) \in Card!Addresses
    BY <1>1, <1>2, <2>1
  <2>2. ASSUME NEW p \in Card!Addresses
        PROVE  (IF p \notin (a + i)..(a + i + n - 1) THEN at[p]
                ELSE LET s == range.cur - range.from + (p - a - i)
                     IN IF s < range.size THEN s ELSE Card!Wild) \in {Card!Kept, Card!Wild} \cup Card!Addresses
    BY <1>2, <2>1
  <2> QED BY <2>2 DEF Card!Stored
<1> QED BY <1>3, <1>4

LEMMA MovedRange ==
    ASSUME Card!MmcSizes, CardInv, CardRanged, ~Card!Short, NEW a \in Nat, NEW i \in Nat, NEW n \in Nat,
           a + i = range.cur, range.cur + n <= Card!End, NEW p \in Card!Addresses,
           NEW new, new = IF range.kind = "read" THEN Card!Copied(a, i, n) ELSE Card!Stored(a, i, n)
    PROVE  new[p] = IF p \in RangeFirst..(RangeFirst + (range.cur + n - range.from) - 1)
                      THEN p + RangeShift ELSE Card!Kept
<1>1. /\ range.from \in Nat /\ range.cur \in Nat /\ range.size \in Nat /\ range.from <= range.cur
      /\ at \in [Card!Addresses -> {Card!Kept, Card!Wild} \cup Card!Addresses] /\ p \in Int
      /\ at[p] = IF p \in RangeFirst..(RangeFirst + (range.cur - range.from) - 1) THEN p + RangeShift ELSE Card!Kept
  BY LargestCard DEF CardInv, CardTyped, CardCurInv, CardAtInv, Card!MmcSizes, Card!Addresses
<1>2. CASE range.kind = "read"
  <2>1. new[p] = IF p \in (range.cur - range.from)..((range.cur - range.from) + n - 1)
                   THEN a + i + (p - (range.cur - range.from)) ELSE at[p]
    BY <1>2 DEF Card!Copied
  <2> QED BY <1>1, <1>2, <2>1 DEF RangeFirst, RangeShift
<1>3. CASE range.kind # "read"
  <2>1. new[p] = IF p \notin (a + i)..(a + i + n - 1) THEN at[p]
                 ELSE LET s == range.cur - range.from + (p - a - i)
                      IN IF s < range.size THEN s ELSE Card!Wild
    BY <1>3 DEF Card!Stored
  <2> QED BY <1>1, <1>3, <2>1 DEF RangeFirst, RangeShift, Card!End
<1> QED BY <1>2, <1>3

LEMMA RangeEnds ==
    ASSUME Card!MmcSizes, CardTyped
    PROVE  /\ Card!End \in Nat /\ range.from \in Nat /\ range.size \in Nat /\ range.cur \in Nat
           /\ BlockSize \in Nat \ {0} /\ Card!End = range.from + range.size
           /\ Card!PartStart \in 0..(BlockSize - 1) /\ Card!PartEnd \in 0..(BlockSize - 1)
           /\ Card!AlignedStart \in Nat /\ Aligned(Card!AlignedStart)
           /\ Card!AlignedStart + Card!PartStart = range.from
           /\ Card!AlignedEnd \in Nat /\ Aligned(Card!AlignedEnd)
           /\ Card!AlignedEnd + Card!PartEnd = Card!End
<1>1. Card!End \in Nat /\ range.from \in Nat /\ range.size \in Nat /\ range.cur \in Nat
  BY DEF CardTyped, Card!MmcSizes, Card!End
<1>2. BlockSize \in Nat \ {0}
  BY DEF Card!MmcSizes
<1>3. Card!PartStart \in 0..(BlockSize - 1) /\ Card!AlignedStart \in Nat /\ Aligned(Card!AlignedStart)
  BY <1>1, <1>2, Blocks DEF Card!PartStart, Card!AlignedStart
<1>4. Card!PartEnd \in 0..(BlockSize - 1) /\ Card!AlignedEnd \in Nat /\ Aligned(Card!AlignedEnd)
  BY <1>1, <1>2, Blocks DEF Card!PartEnd, Card!AlignedEnd
<1>5. Card!AlignedStart + Card!PartStart = range.from /\ Card!AlignedEnd + Card!PartEnd = Card!End
  BY <1>1, <1>2, <1>3, <1>4 DEF Card!AlignedStart, Card!AlignedEnd
<1> QED BY <1>1, <1>2, <1>3, <1>4, <1>5 DEF Card!End

\* A call keeps its range: what is said of it does not change.
LEMMA SameRange ==
    ASSUME range'.kind = range.kind, range'.from = range.from, range'.size = range.size
    PROVE  /\ Card!End' = Card!End /\ (Card!Short' <=> Card!Short) /\ (CardRanged' <=> CardRanged)
           /\ RangeFirst' = RangeFirst /\ RangeShift' = RangeShift
BY DEF Card!End, Card!Short, Card!PartStart, CardRanged, RangeFirst, RangeShift

\* A step that leaves the range, how far it has come and what was moved.
LEMMA PlaceKeeps ==
    ASSUME Card!MmcSizes, CardInv, NEW place \in CardPlaces, NEW ret \in {-1, 0, 1, 2},
           range' = [range EXCEPT !.place = place, !.ret = ret], UNCHANGED <<card, mmc, at>>,
           place \in CardMoving => range.place \in CardMoving,
           place = "idle" => range.kind = "none", place = "wakeup" => range.kind = "init",
           place = "head" => range.place = "head",
           place = "body" => Aligned(range.cur),
           Card!Short /\ place \in {"body", "done"} => range.cur > Card!End,
           CardRanged /\ ~Card!Short /\ (place = "done" \/ (place = "returned" /\ ret = 0)) => range.cur = Card!End,
           place = "hung" => range.kind = "read" \/ Card!AtEdge
    PROVE  CardInv'
<1>1. /\ range'.kind = range.kind /\ range'.from = range.from /\ range'.size = range.size
      /\ range'.cur = range.cur
      /\ range'.place = place /\ range'.ret = ret
      /\ range' \in [kind : CardKinds, from : Nat, size : 0..MaxLen, cur : Nat, place : CardPlaces,
                  ret : {-1, 0, 1, 2}]
  BY DEF CardInv, CardTyped
<1>2. /\ Card!End' = Card!End /\ (Card!Short' <=> Card!Short) /\ (CardRanged' <=> CardRanged)
      /\ RangeFirst' = RangeFirst /\ RangeShift' = RangeShift
  BY <1>1, SameRange
<1>3. CardTyped'
  BY <1>1 DEF CardInv, CardTyped
<1>4. CardPlaceInv'
  BY <1>1, <1>2 DEF CardInv, CardPlaceInv
<1>5. CardCurInv'
  BY <1>1, <1>2 DEF CardInv, CardCurInv
<1>6. CardAtInv'
  BY <1>1, <1>2 DEF CardInv, CardAtInv
<1>7. CardHungInv'
  BY <1>1, <1>2 DEF CardInv, CardHungInv, Card!AtEdge, Card!PartStart, Card!PartEnd, Card!AlignedEnd
<1> QED BY <1>3, <1>4, <1>5, <1>6, <1>7 DEF CardInv

LEMMA HangKeeps ==
    ASSUME Card!MmcSizes, CardInv, range.kind = "read" \/ Card!AtEdge, Card!Hangs
    PROVE  CardInv'
<1>1. range' = [range EXCEPT !.place = "hung", !.ret = range.ret] /\ UNCHANGED <<card, mmc, at>>
  BY DEF Card!Hangs, CardInv, CardTyped
<1>2. range.ret \in {-1, 0, 1, 2} /\ "hung" \in CardPlaces
  BY DEF CardInv, CardTyped, CardPlaces
<1>3. "hung" \notin CardMoving
  BY DEF CardMoving
<1> QED BY <1>1, <1>2, <1>3, PlaceKeeps, Zenon

\* A block that is moved, refused, or waited for.
LEMMA MovesKeeps ==
    ASSUME Card!MmcSizes, CardInv, range.place \in {"head", "body"},
           NEW a \in Nat, Aligned(a), a < Card!End,
           NEW i \in Nat, NEW n \in Nat, i + n <= BlockSize, a + i = range.cur,
           NEW whole, NEW next \in {"body", "done"}, Card!Moves(a, i, n, whole, next),
           whole \/ Card!AtEdge,
           ~Card!Short => range.cur + n <= Card!End, Card!Short => range.cur + n > Card!End,
           range.cur + n <= Card!End \/ range.cur + n <= range.from + BlockSize,
           next = "body" => Aligned(range.cur + n), next = "done" => range.cur + n = Card!End
    PROVE  CardInv'
<1>1. CardRanged /\ range.size > 0 /\ next \in CardPlaces /\ next \in CardMoving
  BY DEF CardInv, CardPlaceInv, CardMoving, CardPlaces
<1>2. CASE /\ Card!InCard(a)
           /\ at' = IF range.kind = "read" THEN Card!Copied(a, i, n) ELSE Card!Stored(a, i, n)
           /\ range' = [range EXCEPT !.cur = @ + n, !.place = next]
           /\ UNCHANGED <<card, mmc>>
  <2>0. range.cur + n \in Nat
    BY DEF CardInv, CardTyped
  <2>1. /\ range'.kind = range.kind /\ range'.from = range.from /\ range'.size = range.size
        /\ range'.cur = range.cur + n
        /\ range'.place = next /\ range'.ret = range.ret
        /\ range' \in [kind : CardKinds, from : Nat, size : 0..MaxLen, cur : Nat, place : CardPlaces,
                    ret : {-1, 0, 1, 2}]
    BY <1>1, <1>2, <2>0 DEF CardInv, CardTyped
  <2>2. /\ Card!End' = Card!End /\ (Card!Short' <=> Card!Short) /\ (CardRanged' <=> CardRanged)
        /\ RangeFirst' = RangeFirst /\ RangeShift' = RangeShift
    BY <2>1, SameRange
  <2>3. CardTyped'
    BY <1>1, <1>2, <2>1, MovedType DEF CardInv, CardTyped
  <2>4. CardPlaceInv'
    BY <1>1, <2>1, <2>2 DEF CardInv, CardPlaceInv, CardMoving
  <2>5. CardCurInv'
    <3>1. range.cur \in Nat /\ range.from \in Nat /\ range.from <= range.cur
      BY DEF CardInv, CardTyped, CardCurInv
    <3> QED BY <2>1, <2>2, <3>1 DEF CardCurInv
  <2>6. CardAtInv'
    <3>1. ASSUME ~Card!Short, NEW p \in Card!Addresses
          PROVE  at'[p] = IF p \in RangeFirst..(RangeFirst + (range.cur + n - range.from) - 1)
                            THEN p + RangeShift ELSE Card!Kept
      BY <1>1, <1>2, <3>1, MovedRange
    <3>2. Card!Addresses' = Card!Addresses
      BY DEF Card!Addresses
    <3> QED BY <2>1, <2>2, <3>1, <3>2 DEF CardAtInv
  <2>7. CardHungInv'
    BY <2>1 DEF CardHungInv
  <2> QED BY <2>3, <2>4, <2>5, <2>6, <2>7 DEF CardInv
<1>3. CASE Card!Returns(-1) /\ UNCHANGED <<card, mmc, at>>
  <2>1. "returned" \in CardPlaces /\ "returned" \notin CardMoving /\ -1 \in {-1, 0, 1, 2} /\ -1 # 0
    BY DEF CardPlaces, CardMoving
  <2>2. range' = [range EXCEPT !.place = "returned", !.ret = -1] /\ UNCHANGED <<card, mmc, at>>
    BY <1>3 DEF Card!Returns
  <2> QED BY <2>1, <2>2, PlaceKeeps, Zenon
<1>4. CASE (range.kind = "read" \/ ~whole) /\ Card!Hangs
  BY <1>4, HangKeeps
<1> QED BY <1>2, <1>3, <1>4 DEF Card!Moves

-----------------------------------------------------------------------------
\* Each action keeps the invariant.
LEMMA HeadBlockKeeps ==
    ASSUME Card!MmcSizes, CardInv, Card!HeadBlock PROVE CardInv'
<1>1. range.place = "head" /\ CardRanged /\ range.size > 0 /\ range.cur = range.from
  BY DEF Card!HeadBlock, CardInv, CardPlaceInv, CardCurInv, CardMoving
<1>2. /\ Card!End \in Nat /\ range.from \in Nat /\ range.size \in Nat /\ BlockSize \in Nat \ {0}
      /\ Card!End = range.from + range.size /\ Card!PartStart \in 0..(BlockSize - 1)
      /\ Card!AlignedStart \in Nat /\ Aligned(Card!AlignedStart)
      /\ Card!AlignedStart + Card!PartStart = range.from
  BY RangeEnds DEF CardInv
<1>3. CASE Card!PartStart = 0
  <2>1. range' = [range EXCEPT !.place = "body", !.ret = range.ret] /\ UNCHANGED <<card, mmc, at>>
    BY <1>3 DEF Card!HeadBlock, CardInv, CardTyped
  <2>2. range.ret \in {-1, 0, 1, 2} /\ "body" \in CardPlaces /\ ~Card!Short
    BY <1>3 DEF CardInv, CardTyped, CardPlaces, Card!Short
  <2>3. Aligned(range.cur) /\ range.place \in CardMoving
    <3>1. Card!AlignedStart = range.from
      BY <1>2, <1>3
    <3> QED BY <1>1, <1>2, <3>1 DEF CardMoving
  <2> QED BY <2>1, <2>2, <2>3, PlaceKeeps, Zenon
<1>4. CASE Card!PartStart # 0
  <2>1. Card!Moves(Card!AlignedStart, Card!PartStart, Card!HeadLen, FALSE, "body")
    BY <1>4 DEF Card!HeadBlock
  <2>2. Card!HeadLen \in Nat /\ Card!PartStart \in Nat /\ Card!PartStart + Card!HeadLen <= BlockSize
    BY <1>2 DEF Card!HeadLen
  <2>3. Card!AlignedStart < Card!End /\ range.cur + Card!HeadLen = Card!AlignedStart + BlockSize
    BY <1>1, <1>2 DEF Card!HeadLen
  <2>4. Aligned(range.cur + Card!HeadLen)
    BY <1>2, <2>3, BlockBehind
  <2>5. /\ ~Card!Short => range.cur + Card!HeadLen <= Card!End
        /\ Card!Short => range.cur + Card!HeadLen > Card!End
        /\ range.cur + Card!HeadLen <= range.from + BlockSize
    BY <1>1, <1>2, <1>4, <2>3 DEF Card!Short
  <2>6. Card!AtEdge
    BY <1>1, <1>4 DEF Card!AtEdge
  <2> QED BY <1>1, <1>2, <2>1, <2>2, <2>3, <2>4, <2>5, <2>6, MovesKeeps
<1> QED BY <1>3, <1>4

LEMMA BodyBlockKeeps ==
    ASSUME Card!MmcSizes, CardInv, Card!BodyBlock PROVE CardInv'
<1>1. /\ range.place = "body" /\ range.cur < Card!AlignedEnd /\ Aligned(range.cur)
      /\ Card!Moves(range.cur, 0, BlockSize, TRUE, "body")
  BY DEF Card!BodyBlock, CardInv, CardCurInv
<1>2. /\ Card!End \in Nat /\ range.cur \in Nat /\ BlockSize \in Nat \ {0}
      /\ Card!AlignedEnd \in Nat /\ Aligned(Card!AlignedEnd) /\ Card!AlignedEnd <= Card!End
  BY RangeEnds DEF CardInv
<1>3. range.cur + BlockSize <= Card!End /\ range.cur < Card!End
  BY <1>1, <1>2, NextBlock
<1>4. Aligned(range.cur + BlockSize) /\ ~Card!Short
  BY <1>1, <1>2, <1>3, BlockBehind DEF CardInv, CardCurInv
<1>5. 0 \in Nat /\ BlockSize \in Nat /\ range.cur + 0 = range.cur /\ 0 + BlockSize <= BlockSize
  BY <1>2
<1> QED BY <1>1, <1>2, <1>3, <1>4, <1>5, MovesKeeps

LEMMA TailBlockKeeps ==
    ASSUME Card!MmcSizes, CardInv, Card!TailBlock PROVE CardInv'
<1>1. /\ range.place = "body" /\ range.cur >= Card!AlignedEnd /\ Card!PartEnd # 0
      /\ range.cur < Card!End
      /\ Aligned(range.cur) /\ Card!Moves(Card!AlignedEnd, 0, Card!PartEnd, FALSE, "done")
  BY DEF Card!TailBlock, CardInv, CardCurInv
<1>2. /\ Card!End \in Nat /\ range.cur \in Nat /\ BlockSize \in Nat \ {0}
      /\ Card!PartEnd \in 0..(BlockSize - 1)
      /\ Card!AlignedEnd \in Nat /\ Aligned(Card!AlignedEnd)
      /\ Card!AlignedEnd + Card!PartEnd = Card!End
  BY RangeEnds DEF CardInv
<1>3. range.cur = Card!AlignedEnd
  BY <1>1, <1>2, NextBlock
<1>4. range.cur + Card!PartEnd = Card!End /\ ~Card!Short /\ Card!PartEnd \in Nat
  BY <1>1, <1>2, <1>3 DEF CardInv, CardCurInv
<1>5. /\ 0 \in Nat /\ Card!AlignedEnd + 0 = range.cur /\ 0 + Card!PartEnd <= BlockSize
      /\ Card!AlignedEnd < Card!End /\ range.cur + Card!PartEnd <= Card!End
  BY <1>1, <1>2, <1>3
<1>6. Card!AtEdge
  BY <1>1, <1>3 DEF Card!AtEdge
<1> QED BY <1>1, <1>2, <1>4, <1>5, <1>6, MovesKeeps

LEMMA AllMovedKeeps ==
    ASSUME Card!MmcSizes, CardInv, Card!AllMoved PROVE CardInv'
<1>1. /\ Card!End \in Nat /\ range.cur \in Nat /\ Card!PartEnd \in Nat
      /\ Card!AlignedEnd \in Nat /\ Card!AlignedEnd + Card!PartEnd = Card!End
  BY RangeEnds DEF CardInv, Card!MmcSizes
<1>2. CardRanged /\ ~Card!Short => range.cur = Card!End
  BY <1>1 DEF Card!AllMoved, CardInv, CardCurInv
<1>3. /\ range' = [range EXCEPT !.place = "returned", !.ret = 0] /\ UNCHANGED <<card, mmc, at>>
      /\ "returned" \in CardPlaces /\ "returned" \notin CardMoving /\ 0 \in {-1, 0, 1, 2}
  BY DEF Card!AllMoved, Card!Returns, CardPlaces, CardMoving
<1> QED BY <1>2, <1>3, PlaceKeeps, Zenon

\* A call that moves nothing yet.
LEMMA FreshKeeps ==
    ASSUME Card!MmcSizes, CardInv, UNCHANGED <<card, mmc>>, NEW kind \in CardKinds, NEW from \in Nat,
           NEW size \in 0..MaxLen, NEW place \in CardPlaces, NEW ret \in {-1, 0, 1, 2},
           range' = [kind |-> kind, from |-> from, size |-> size, cur |-> from, place |-> place,
                  ret |-> ret],
           at' \in [Card!Addresses -> {Card!Kept, Card!Wild} \cup Card!Addresses],
           kind \in {"read", "write"} =>
             at' = Card!Nothing /\ place \in {"head", "returned"} /\ (place = "returned" /\ ret = 0 => size = 0),
           place \in CardMoving => kind \in {"read", "write"} /\ size > 0,
           place = "idle" => kind = "none", place = "wakeup" => kind = "init",
           place \notin {"body", "done", "hung"}
    PROVE  CardInv'
<1>1. /\ range'.kind = kind /\ range'.from = from /\ range'.size = size /\ range'.cur = from
      /\ range'.place = place /\ range'.ret = ret
      /\ range' \in [kind : CardKinds, from : Nat, size : 0..MaxLen, cur : Nat, place : CardPlaces,
                  ret : {-1, 0, 1, 2}]
  OBVIOUS
<1>2. CardTyped'
  BY <1>1 DEF CardInv, CardTyped, Card!Addresses
<1>3. CardPlaceInv'
  BY <1>1 DEF CardPlaceInv, CardRanged
<1>4. CardCurInv'
  <2>1. Card!End' = from + size /\ size \in Nat
    BY <1>1 DEF Card!End, Card!MmcSizes
  <2>2. BlockSize \in Nat
    BY DEF Card!MmcSizes
  <2> QED BY <1>1, <2>1, <2>2 DEF CardCurInv, CardRanged
<1>5. CardAtInv'
  <2>1. ASSUME CardRanged', NEW p \in Card!Addresses
        PROVE  /\ at'[p] = Card!Kept
               /\ p \notin RangeFirst'..(RangeFirst' + (range'.cur - range'.from) - 1)
    <3>1. at'[p] = Card!Kept
      BY <1>1, <2>1 DEF CardRanged, Card!Nothing
    <3>2. RangeFirst' \in Int /\ range'.cur - range'.from = 0
      BY <1>1 DEF RangeFirst
    <3> QED BY <3>1, <3>2
  <2> QED BY <2>1 DEF CardAtInv, Card!Addresses
<1>6. CardHungInv'
  BY <1>1 DEF CardHungInv
<1> QED BY <1>2, <1>3, <1>4, <1>5, <1>6 DEF CardInv

LEMMA ChangeKeeps ==
    ASSUME CardInv, NEW c \in [in : BOOLEAN, blocks : Cards, awake : BOOLEAN], ~c.awake, Card!Change(c)
    PROVE  CardInv'
<1>1. /\ range'.kind = range.kind /\ range'.from = range.from /\ range'.size = range.size
      /\ range'.cur = range.cur
      /\ range'.place = range.place /\ range'.ret = range.ret
      /\ range' \in [kind : CardKinds, from : Nat, size : 0..MaxLen, cur : Nat, place : CardPlaces,
                  ret : {-1, 0, 1, 2}]
      /\ card' = c /\ UNCHANGED <<mmc, at>>
  BY DEF Card!Change, CardInv, CardTyped
<1>2. /\ Card!End' = Card!End /\ (Card!Short' <=> Card!Short) /\ (CardRanged' <=> CardRanged)
      /\ RangeFirst' = RangeFirst /\ RangeShift' = RangeShift
  BY <1>1, SameRange
<1>3. CardTyped' /\ CardPlaceInv'
  BY <1>1, <1>2 DEF CardInv, CardTyped, CardPlaceInv, Card!Addresses
<1>4. CardCurInv' /\ CardAtInv' /\ CardHungInv'
  BY <1>1, <1>2 DEF CardInv, CardCurInv, CardAtInv, CardHungInv, Card!Addresses,
               Card!AtEdge, Card!PartStart, Card!PartEnd, Card!AlignedEnd
<1> QED BY <1>3, <1>4 DEF CardInv

LEMMA PullOutKeeps == ASSUME CardInv, Card!PullOut PROVE CardInv'
<1> DEFINE c == [card EXCEPT !.in = FALSE, !.awake = FALSE]
<1>1. c \in [in : BOOLEAN, blocks : Cards, awake : BOOLEAN] /\ ~c.awake
  BY DEF CardInv, CardTyped
<1>2. Card!Change(c)
  BY DEF Card!PullOut
<1> HIDE DEF c
<1> QED BY <1>1, <1>2, ChangeKeeps

LEMMA PutInKeeps == ASSUME CardInv, Card!PutIn PROVE CardInv'
<1>1. PICK n \in Cards : Card!Change([in |-> TRUE, blocks |-> n, awake |-> FALSE])
  BY DEF Card!PutIn
<1> QED BY <1>1, ChangeKeeps

LEMMA InitFailsKeeps == ASSUME Card!MmcSizes, CardInv, Card!InitFails PROVE CardInv'
<1>1. PICK v \in {1, 2} :
        range' = [Card!NoIo EXCEPT !.kind = "init", !.place = "returned", !.ret = v]
  BY DEF Card!InitFails
<1>2. range' = [kind |-> "init", from |-> 0, size |-> 0, cur |-> 0, place |-> "returned",
             ret |-> v]
  BY <1>1 DEF Card!NoIo
<1>3. UNCHANGED <<card, mmc, at>> /\ 0 \in 0..MaxLen /\ at \in [Card!Addresses -> {Card!Kept, Card!Wild} \cup Card!Addresses]
  BY DEF Card!InitFails, CardInv, CardTyped, Card!MmcSizes
<1> QED BY <1>2, <1>3, FreshKeeps DEF CardKinds, CardPlaces, CardMoving

LEMMA InitBeginsKeeps == ASSUME Card!MmcSizes, CardInv, Card!InitBegins PROVE CardInv'
<1>1. range' = [kind |-> "init", from |-> 0, size |-> 0, cur |-> 0, place |-> "wakeup",
             ret |-> 0]
  BY DEF Card!InitBegins, Card!NoIo
<1>2. UNCHANGED <<card, mmc, at>> /\ 0 \in 0..MaxLen /\ at \in [Card!Addresses -> {Card!Kept, Card!Wild} \cup Card!Addresses]
  BY DEF Card!InitBegins, CardInv, CardTyped, Card!MmcSizes
<1> QED BY <1>1, <1>2, FreshKeeps DEF CardKinds, CardPlaces, CardMoving

LEMMA ReturnedKeeps == ASSUME Card!MmcSizes, CardInv, Card!Returned PROVE CardInv'
<1>1. range' = [kind |-> "none", from |-> 0, size |-> 0, cur |-> 0, place |-> "idle",
             ret |-> 0]
  BY DEF Card!Returned, Card!NoIo
<1>2. UNCHANGED <<card, mmc, at>> /\ 0 \in 0..MaxLen /\ at \in [Card!Addresses -> {Card!Kept, Card!Wild} \cup Card!Addresses]
  BY DEF Card!Returned, CardInv, CardTyped, Card!MmcSizes
<1> QED BY <1>1, <1>2, FreshKeeps DEF CardKinds, CardPlaces, CardMoving

LEMMA CallKeeps ==
    ASSUME Card!MmcSizes, CardInv, NEW kind \in {"read", "write"}, NEW from \in Nat,
           NEW size \in 0..MaxLen, Card!Call(kind, from, size)
    PROVE  CardInv'
<1> DEFINE place == IF size = 0 \/ ~mmc.ready THEN "returned" ELSE "head"
           ret == IF size # 0 /\ ~mmc.ready THEN -1 ELSE 0
<1>1. range' = [kind |-> kind, from |-> from, size |-> size, cur |-> from, place |-> place,
             ret |-> ret]
  BY DEF Card!Call, Card!NoIo
<1>2. UNCHANGED <<card, mmc>> /\ at' = Card!Nothing /\ at' \in [Card!Addresses -> {Card!Kept, Card!Wild} \cup Card!Addresses]
  BY DEF Card!Call, Card!Nothing
<1>3. /\ place \in {"head", "returned"} /\ ret \in {-1, 0, 1, 2}
      /\ place = "returned" /\ ret = 0 => size = 0
      /\ place = "head" => size > 0
  BY DEF Card!MmcSizes
<1>4. /\ place \in CardPlaces /\ kind \in CardKinds /\ kind \notin {"none", "init"}
      /\ place \notin {"idle", "wakeup", "body", "done", "hung"}
      /\ place \in CardMoving => place = "head"
  BY <1>3 DEF CardKinds, CardPlaces, CardMoving
<1> HIDE DEF place, ret
<1> QED BY <1>1, <1>2, <1>3, <1>4, FreshKeeps, Zenon

LEMMA InitEndsKeeps == ASSUME CardInv, Card!InitEnds PROVE CardInv'
<1>1. range.place = "wakeup" /\ range.kind = "init" /\ ~CardRanged
  BY DEF Card!InitEnds, CardInv, CardPlaceInv, CardRanged
<1>2. PICK place \in {"returned", "hung"} :
        /\ range'.kind = range.kind /\ range'.from = range.from /\ range'.size = range.size
        /\ range'.cur = range.cur
        /\ range'.place = place
        /\ range' \in [kind : CardKinds, from : Nat, size : 0..MaxLen, cur : Nat, place : CardPlaces,
                    ret : {-1, 0, 1, 2}]
        /\ card' \in [in : BOOLEAN, blocks : Cards, awake : BOOLEAN]
        /\ mmc' \in [ready : BOOLEAN, size : Cards \cup {0}]
        /\ at' = at
        /\ card'.awake => card'.in
        /\ place = "hung" => ~card'.awake
  <2>1. CASE /\ card.in /\ card' = [card EXCEPT !.awake = TRUE]
             /\ mmc' = [ready |-> TRUE, size |-> card.blocks] /\ Card!Returns(0)
    BY <2>1 DEF Card!InitEnds, CardInv, CardTyped, Card!Returns, CardPlaces
  <2>2. CASE /\ range' = [range EXCEPT !.place = "hung"]
             /\ card' = [card EXCEPT !.awake = FALSE] /\ UNCHANGED mmc
    BY <2>2 DEF Card!InitEnds, CardInv, CardTyped, CardPlaces
  <2> QED BY <2>1, <2>2 DEF Card!InitEnds
<1>3. Card!End' = Card!End /\ (Card!Short' <=> Card!Short) /\ (CardRanged' <=> CardRanged)
  BY <1>2, SameRange
<1>4. CardTyped' /\ CardPlaceInv' /\ CardHungInv'
  BY <1>1, <1>2, <1>3 DEF CardInv, CardTyped, CardPlaceInv, CardHungInv, CardMoving, Card!Addresses
<1>5. CardCurInv' /\ CardAtInv'
  BY <1>1, <1>2, <1>3 DEF CardInv, CardCurInv, CardAtInv
<1> QED BY <1>4, <1>5 DEF CardInv

-----------------------------------------------------------------------------
LEMMA CardInit == ASSUME Card!MmcSizes, Card!Init PROVE CardInv
<1>1. PICK n \in Cards : card = [in |-> TRUE, blocks |-> n, awake |-> FALSE]
  BY DEF Card!Init
<1>2. /\ mmc = [ready |-> FALSE, size |-> 0] /\ at = Card!Nothing
      /\ range = [kind |-> "none", from |-> 0, size |-> 0, cur |-> 0, place |-> "idle",
               ret |-> 0]
  BY DEF Card!Init, Card!NoIo
<1>3. CardTyped
  <2>1. at \in [Card!Addresses -> {Card!Kept, Card!Wild} \cup Card!Addresses] /\ 0 \in 0..MaxLen
    BY <1>2 DEF Card!Nothing, Card!MmcSizes
  <2> QED BY <1>1, <1>2, <2>1 DEF CardTyped, CardKinds, CardPlaces
<1>4. CardPlaceInv /\ CardHungInv /\ CardAtInv
  BY <1>1, <1>2 DEF CardPlaceInv, CardHungInv, CardAtInv, CardRanged, CardMoving
<1>5. CardCurInv
  BY <1>2 DEF CardCurInv, CardRanged, Card!End, Card!MmcSizes
<1> QED BY <1>3, <1>4, <1>5 DEF CardInv

LEMMA CardNext == ASSUME Card!MmcSizes, CardInv, [Card!Next]_(Card!vars) PROVE CardInv'
<1>1. CASE \E k \in {"read", "write"}, a \in Card!Addresses, n \in 0..MaxLen : Card!Call(k, a, n)
  <2>1. Card!Addresses \subseteq Nat
    BY DEF Card!Addresses
  <2> QED BY <1>1, <2>1, CallKeeps
<1>2. CASE \E b \in 0..(Card!Largest - 1), n \in 1..Card!Largest : n * BlockSize <= MaxLen /\ Card!Bread(b, n)
  <2>1. PICK b \in 0..(Card!Largest - 1), n \in 1..Card!Largest : n * BlockSize <= MaxLen /\ Card!Bread(b, n)
    BY <1>2
  <2>2. b * BlockSize \in Nat /\ n * BlockSize \in 0..MaxLen
    BY <2>1 DEF Card!MmcSizes
  <2> QED BY <2>1, <2>2, CallKeeps DEF Card!Bread
<1>3. CASE UNCHANGED Card!vars
  BY <1>3 DEF Card!vars, CardInv, CardTyped, CardPlaceInv, CardCurInv, CardAtInv, CardHungInv, CardRanged, Card!Short, Card!End,
     Card!PartStart, Card!PartEnd, Card!AlignedEnd, Card!AtEdge, RangeFirst, RangeShift, Card!Addresses
<1> QED BY <1>1, <1>2, <1>3, PullOutKeeps, PutInKeeps, InitFailsKeeps, InitBeginsKeeps,
        InitEndsKeeps, HeadBlockKeeps, BodyBlockKeeps, TailBlockKeeps, AllMovedKeeps,
        ReturnedKeeps DEF Card!Next

LEMMA InvRange == ASSUME Card!MmcSizes, CardInv PROVE Card!MmcTypeOK /\ Card!RangeIsMoved
<1>1. Card!MmcTypeOK
  <2>1. range.cur <= range.from + MaxLen + BlockSize
    <3>1. /\ range.cur \in Nat /\ range.from \in Nat /\ range.size \in 0..MaxLen /\ MaxLen \in Nat
          /\ BlockSize \in Nat
          /\ range.cur <= Card!End \/ range.cur <= range.from + BlockSize
      BY DEF CardInv, CardTyped, CardCurInv, Card!MmcSizes
    <3> QED BY <3>1 DEF Card!End
  <2> QED BY <2>1 DEF Card!MmcTypeOK, CardInv, CardTyped
<1>2. ASSUME CardRanged, ~Card!Short, NEW p \in Card!Addresses
      PROVE  /\ at[p] \in {Card!Kept, p + RangeShift}
             /\ at[p] # Card!Kept => p \in RangeFirst..(RangeFirst + range.size - 1)
             /\ range.place = "returned" /\ range.ret = 0
                /\ p \in RangeFirst..(RangeFirst + range.size - 1)
                  => at[p] # Card!Kept
  <2>1. /\ range.cur \in Nat /\ range.from \in Nat /\ range.size \in Nat /\ p \in Nat
        /\ range.from <= range.cur /\ range.cur <= Card!End
        /\ range.place = "returned" /\ range.ret = 0 => range.cur = Card!End
        /\ at[p] = IF p \in RangeFirst..(RangeFirst + (range.cur - range.from) - 1) THEN p + RangeShift ELSE Card!Kept
    BY <1>2 DEF CardInv, CardTyped, CardCurInv, CardAtInv, Card!MmcSizes, Card!Addresses
  <2> QED BY <1>2, <2>1 DEF RangeFirst, RangeShift, Card!End, Card!Kept
<1>3. Card!RangeIsMoved
  BY <1>2 DEF Card!RangeIsMoved, CardInv, CardHungInv, CardRanged, RangeFirst, RangeShift
<1> QED BY <1>1, <1>3

-----------------------------------------------------------------------------
(* A step of the box is one of the part, or leaves it alone.               *)

LEMMA HubRuns == [Next]_boxVars => [Hub!Next]_(Hub!vars)
BY DEF Next, Runs, boxVars, Hub!vars, hubVars, usbVars

LEMMA CardRuns == [Next]_boxVars => [Card!Next]_(Card!vars)
BY DEF Next, Runs, boxVars, Card!vars, cardVars, ataVars

LEMMA NetRuns == [Next]_boxVars => [NetP!Next]_(NetP!vars)
BY NetSame DEF Next, Runs, boxVars, NetP!vars, netVars, usbVars

\* Whatever else the box does, its root hub does what it is asked (usb_lowlevel_init,
\* isp116x_submit_rh_msg), for any number of ports and of events: the ports are as the requests
\* and the events left them, a reset that returns has enabled the port or a change tells why not,
\* and the core reaches the hub at the address it gave it.
THEOREM HubDoesAsAsked == Spec => []HubAsAsked
<1>1. Init => HubInv
  BY PartSizes, HubInit DEF Init
<1>2. HubInv /\ [Next]_boxVars => HubInv'
  BY HubRuns, PartSizes, HubNext
<1>3. HubInv => HubAsAsked
  BY DEF HubInv, HubAsAsked
<1> QED BY <1>1, <1>2, <1>3, PTL DEF Spec, boxVars

\* And its memory card is read and written where it is asked (mmc_read, mmc_write), for any sizes
\* of blocks, cards and ranges: a call that returns 0 has moved every byte of its range to or from
\* its own place and none outside, also when it was refused half way, but for a range that begins
\* in the middle of a block and ends before the block does; and a writing waits for ever only for a block that has to be read
\* first, though a card, be it in or not, may refuse any.
THEOREM CardMovesRanges == Spec => []RangeIsMoved
<1>1. Init => CardInv
  BY PartSizes, CardInit DEF Init
<1>2. CardInv /\ [Next]_boxVars => CardInv'
  BY CardRuns, PartSizes, CardNext
<1>3. CardInv => RangeIsMoved
  BY PartSizes, InvRange DEF RangeIsMoved
<1> QED BY <1>1, <1>2, <1>3, PTL DEF Spec, boxVars

\* What its USB upgrade burns is the file whose end was asked for, and whole downloads of files that
\* fit the buffer are burnt: UsbNet2270Proofs!NetDoesAsPromised of Setup_Packet_Handler,
\* read_main_data, download_completed and set_file_down_header, for any files, any sizes of them,
\* of blocks and of the buffer, and any requests; with the exceptions WholeFile states.
THEOREM BurnsWhatIsAnnounced == Spec => []WholeFile
<1>1. Init => NetP!NetInv
  BY NetSame, PartSizes, NetP!NetStarts DEF Init
<1>2. NetP!NetInv /\ [Next]_boxVars => NetP!NetInv'
  BY NetRuns, PartSizes, NetP!NetGoesOn
<1>3. NetP!NetInv => WholeFile
  BY NetSame, NetP!NetPromises DEF WholeFile
<1> QED BY <1>1, <1>2, <1>3, PTL DEF Spec, boxVars

\* Its interrupt handler waits for packets that are not there only after a download was broken
\* off, when requests came faster than the box handled them, or between a reading of the main
\* loop and its count: vendor.c:87, "why???".
THEOREM HandlerWaitsWithReason == Spec => []IsrDoesNotWait
<1>1. Init => NetP!NetInv
  BY NetSame, PartSizes, NetP!NetStarts DEF Init
<1>2. NetP!NetInv /\ [Next]_boxVars => NetP!NetInv'
  BY NetRuns, PartSizes, NetP!NetGoesOn
<1>3. NetP!NetInv => IsrDoesNotWait
  BY NetSame, NetP!NetPromises DEF IsrDoesNotWait
<1> QED BY <1>1, <1>2, <1>3, PTL DEF Spec, boxVars

-----------------------------------------------------------------------------
(* Standard requests of the USB devices: StandardRequests.                  *)

\* What a PC may be sure of.
Options == {"configuration", "wakeup"}
DeviceRecords ==
  [driver : {"d12", "net"}, configuration : {0, 1}, wakeup : BOOLEAN, fullSpeed : BOOLEAN,
   address : 0..127, enabled : BOOLEAN, descr : {64, 512}, fifo : {0, 64, 512},
   halted : SUBSET Ends, naking : SUBSET Ends]
PcRecords ==
  [configuration : {0, 1}, wakeup : BOOLEAN, address : 0..127, halted : SUBSET Ends,
   read : {0, 64, 512}, packet : {0, 64, 512}, sure : SUBSET Options]

\* The flags and registers of the device, and what the PC may conclude, have their types.
DeviceTyped == usb \in DeviceRecords /\ pc \in PcRecords /\ fast \in BOOLEAN

\* The packet size read of a descriptor is the one the box has kept of it, and that of the bus.
SizesAgree ==
  /\ Chapter9!D12 => usb.fifo = 64 /\ usb.descr = 64 /\ ~fast /\ ~usb.fullSpeed
  /\ pc.read # 0 => pc.read = usb.descr /\ pc.read = Chapter9!SizeNow

\* The inductive invariant: AsStandard holds of the configuration only if the packet size that the
\* PC read before it configures is the one the box keeps for it.
ReqInv == DeviceTyped /\ SizesAgree /\ Chapter9!BoxIsAsTold /\ Chapter9!AnsweredRightly

\* The endpoints are no other recipients.
LEMMA EndsAre ==
  /\ "device" \notin Ends /\ "interface" \notin Ends /\ "other" \notin Ends /\ Asked \subseteq Nat
BY PartsAssumption DEF PartsAssumption, Chapter9!RequestSizes

\* What the requests of a PC look like.
RequestIs(r) ==
  /\ r.length \in Nat /\ (r.req # "get_descriptor" => r.length = 2)
  /\ r.class \in BOOLEAN /\ r.dirin \in BOOLEAN /\ r.req # "none"
  /\ r.class => r.req = "get_status" /\ r.to = "interface"
  /\ r.req = "get_status" /\ ~r.class => r.dirin /\ r.to \in {"device", "interface", "other"} \cup Ends
  /\ r.req \in {"clear_feature", "set_feature"} =>
       /\ ~r.dirin
       /\ \/ r.to \in Ends \cup {"interface"} /\ r.value = 0
          \/ r.to = "device" /\ r.value \in {0, 1}
  /\ r.req = "set_address" => ~r.dirin /\ r.to = "device" /\ r.value = 5
  /\ r.req = "get_descriptor" => r.dirin /\ r.to = "device" /\ r.value \in 1..3
  /\ r.req = "set_configuration" => ~r.dirin /\ r.to = "device" /\ r.value \in 0..2
  /\ r.req = "set_interface" => ~r.dirin /\ r.to = "interface" /\ r.value \in {0, 1}
  /\ r.req \in {"get_configuration", "get_interface", "synch_frame"} => r.dirin /\ r.to = "device"
  /\ r.req \in {"get_status", "clear_feature", "set_feature", "set_address", "get_descriptor",
               "set_configuration", "set_interface", "get_configuration", "get_interface", "synch_frame"}

LEMMA RequestsAre == ASSUME NEW x \in Chapter9!Requests PROVE RequestIs(x)
<1> DEFINE
      S1 == {Chapter9!Req("get_status", TRUE, to, 0) : to \in Chapter9!Recipients}
      S2 == {Chapter9!Req(r, FALSE, to, 0) : r \in {"clear_feature", "set_feature"},
                                             to \in Ends \cup {"interface"}}
      S3 == {Chapter9!Req(r, FALSE, "device", v) : r \in {"clear_feature", "set_feature"}, v \in {0, 1}}
      S4 == {Chapter9!Req("set_address", FALSE, "device", 5)}
      S5 == {[Chapter9!Req("get_descriptor", TRUE, "device", v) EXCEPT !.length = n] :
               v \in 1..3, n \in Asked}
      S6 == {Chapter9!Req("set_configuration", FALSE, "device", v) : v \in 0..2}
      S7 == {Chapter9!Req("set_interface", FALSE, "interface", v) : v \in {0, 1}}
      S8 == {Chapter9!Req(r, TRUE, "device", 0) :
               r \in {"get_configuration", "get_interface", "synch_frame"}}
      S9 == {[Chapter9!Req("get_status", dirin, "interface", 0) EXCEPT !.class = TRUE] : dirin \in BOOLEAN}
<1>10. Chapter9!Requests = S1 \cup S2 \cup S3 \cup S4 \cup S5 \cup S6 \cup S7 \cup S8 \cup S9
  BY DEF Chapter9!Requests
<1>1. ASSUME NEW to \in Chapter9!Recipients, x = Chapter9!Req("get_status", TRUE, to, 0)
      PROVE  RequestIs(x)
  BY <1>1 DEF RequestIs, Chapter9!Req, Chapter9!Recipients
<1>2. ASSUME NEW r \in {"clear_feature", "set_feature"}, NEW to \in Ends \cup {"interface"},
             x = Chapter9!Req(r, FALSE, to, 0)
      PROVE  RequestIs(x)
  BY <1>2 DEF RequestIs, Chapter9!Req
<1>3. ASSUME NEW r \in {"clear_feature", "set_feature"}, NEW v \in {0, 1},
             x = Chapter9!Req(r, FALSE, "device", v)
      PROVE  RequestIs(x)
  BY <1>3 DEF RequestIs, Chapter9!Req
<1>4. ASSUME x = Chapter9!Req("set_address", FALSE, "device", 5)
      PROVE  RequestIs(x)
  BY <1>4 DEF RequestIs, Chapter9!Req
<1>5. ASSUME NEW v \in 1..3, NEW n \in Asked,
             x = [Chapter9!Req("get_descriptor", TRUE, "device", v) EXCEPT !.length = n]
      PROVE  RequestIs(x)
  BY <1>5, EndsAre DEF RequestIs, Chapter9!Req
<1>6. ASSUME NEW v \in 0..2, x = Chapter9!Req("set_configuration", FALSE, "device", v)
      PROVE  RequestIs(x)
  BY <1>6 DEF RequestIs, Chapter9!Req
<1>7. ASSUME NEW v \in {0, 1}, x = Chapter9!Req("set_interface", FALSE, "interface", v)
      PROVE  RequestIs(x)
  BY <1>7 DEF RequestIs, Chapter9!Req
<1>8. ASSUME NEW r \in {"get_configuration", "get_interface", "synch_frame"},
             x = Chapter9!Req(r, TRUE, "device", 0)
      PROVE  RequestIs(x)
  BY <1>8 DEF RequestIs, Chapter9!Req
<1>9. ASSUME NEW dirin \in BOOLEAN,
             x = [Chapter9!Req("get_status", dirin, "interface", 0) EXCEPT !.class = TRUE]
      PROVE  RequestIs(x)
  BY <1>9 DEF RequestIs, Chapter9!Req
<1>11. CASE x \in S1
  BY <1>1, <1>11 DEF Chapter9!Req
<1>12. CASE x \in S2
  BY <1>2, <1>12 DEF Chapter9!Req
<1>13. CASE x \in S3
  BY <1>3, <1>13 DEF Chapter9!Req
<1>14. CASE x \in S4
  BY <1>4, <1>14
<1>15. CASE x \in S5
  BY <1>5, <1>15 DEF Chapter9!Req
<1>16. CASE x \in S6
  BY <1>6, <1>16 DEF Chapter9!Req
<1>17. CASE x \in S7
  BY <1>7, <1>17 DEF Chapter9!Req
<1>18. CASE x \in S8
  BY <1>8, <1>18 DEF Chapter9!Req
<1>19. CASE x \in S9
  BY <1>9, <1>19, Zenon
<1> HIDE DEF S1, S2, S3, S4, S5, S6, S7, S8, S9
<1> QED BY <1>10, <1>11, <1>12, <1>13, <1>14, <1>15, <1>16, <1>17, <1>18, <1>19

LEMMA AnswersAre ==
  /\ Chapter9!Done.is = "done" /\ Chapter9!Stall.is = "stall" /\ Chapter9!Mute.is = "mute"
  /\ \A v, n : Chapter9!Data(v, n).is = "data" /\ Chapter9!Data(v, n).value = v
               /\ Chapter9!Data(v, n).size = n
BY DEF Chapter9!Done, Chapter9!Stall, Chapter9!Mute, Chapter9!Data

\* What the PC takes notice of, and what it does not.
LEMMA NotHeeded ==
  ASSUME NEW r, RequestIs(r), NEW a,
         \/ a.is \in {"stall", "mute"}
         \/ a.is = "data" /\ (r.req = "get_descriptor" => r.value # 2)
         \/ a.is = "done" /\ (r.class \/ r.req = "set_interface")
  PROVE  Chapter9!Acknowledged(r, a) = pc
BY DEF Chapter9!Acknowledged, RequestIs

\* The PC after each answer it takes notice of.
PcAddressed(v)  == [pc EXCEPT !.address = v]
PcWakes(b)      == [pc EXCEPT !.wakeup = b, !.sure = @ \cup {"wakeup"}]
PcHalts(h)      == [pc EXCEPT !.halted = h]
PcConfigured(v) == [pc EXCEPT !.configuration = v, !.sure = @ \cup {"configuration"},
                              !.packet = IF v = 1 THEN pc.read ELSE 0]
PcReads(v)      == [pc EXCEPT !.read = v]

LEMMA PcAddressedIs ==
  ASSUME DeviceTyped, NEW v \in 0..127
  PROVE  /\ PcAddressed(v) \in PcRecords /\ PcAddressed(v).address = v
         /\ PcAddressed(v).configuration = pc.configuration /\ PcAddressed(v).wakeup = pc.wakeup
         /\ PcAddressed(v).halted = pc.halted /\ PcAddressed(v).read = pc.read
         /\ PcAddressed(v).packet = pc.packet /\ PcAddressed(v).sure = pc.sure
BY DEF DeviceTyped, PcAddressed, PcRecords

LEMMA PcHaltsIs ==
  ASSUME DeviceTyped, NEW h \in SUBSET Ends
  PROVE  /\ PcHalts(h) \in PcRecords /\ PcHalts(h).halted = h
         /\ PcHalts(h).configuration = pc.configuration /\ PcHalts(h).wakeup = pc.wakeup
         /\ PcHalts(h).address = pc.address /\ PcHalts(h).read = pc.read
         /\ PcHalts(h).packet = pc.packet /\ PcHalts(h).sure = pc.sure
BY DEF DeviceTyped, PcHalts, PcRecords

LEMMA PcReadsIs ==
  ASSUME DeviceTyped, NEW v \in {64, 512}
  PROVE  /\ PcReads(v) \in PcRecords /\ PcReads(v).read = v
         /\ PcReads(v).configuration = pc.configuration /\ PcReads(v).wakeup = pc.wakeup
         /\ PcReads(v).address = pc.address /\ PcReads(v).halted = pc.halted
         /\ PcReads(v).packet = pc.packet /\ PcReads(v).sure = pc.sure
BY DEF DeviceTyped, PcReads, PcRecords

LEMMA PcWakesIs ==
  ASSUME DeviceTyped, NEW b \in BOOLEAN
  PROVE  /\ PcWakes(b) \in PcRecords
         /\ PcWakes(b).wakeup = b /\ PcWakes(b).sure = (pc.sure \cup {"wakeup"})
         /\ PcWakes(b).configuration = pc.configuration /\ PcWakes(b).address = pc.address
         /\ PcWakes(b).halted = pc.halted /\ PcWakes(b).read = pc.read
         /\ PcWakes(b).packet = pc.packet
<1>1. pc \in PcRecords
  BY DEF DeviceTyped
<1> DEFINE w == pc.sure \cup {"wakeup"}
<1>2. w \in SUBSET Options
  BY <1>1 DEF PcRecords, Options
<1>3. PcWakes(b) = [pc EXCEPT !.wakeup = b, !.sure = w]
  BY <1>1 DEF PcWakes, PcRecords
<1> HIDE DEF w
<1>4. PcWakes(b) \in PcRecords
  <2>1. [pc EXCEPT !.wakeup = b, !.sure = w] \in PcRecords
    BY <1>1, <1>2 DEF PcRecords
  <2> QED BY <1>3, <2>1
<1>6. PcWakes(b).wakeup = b /\ PcWakes(b).sure = w
  BY <1>1, <1>3 DEF PcRecords
<1>5. PcWakes(b).configuration = pc.configuration /\ PcWakes(b).address = pc.address /\
      PcWakes(b).halted = pc.halted /\ PcWakes(b).read = pc.read /\ PcWakes(b).packet = pc.packet
  BY <1>1, <1>3 DEF PcRecords
<1> QED BY <1>4, <1>5, <1>6 DEF w

LEMMA PcConfiguredIs ==
  ASSUME DeviceTyped, NEW v \in {0, 1}
  PROVE  /\ PcConfigured(v) \in PcRecords
         /\ PcConfigured(v).configuration = v
         /\ PcConfigured(v).sure = (pc.sure \cup {"configuration"})
         /\ PcConfigured(v).packet = (IF v = 1 THEN pc.read ELSE 0)
         /\ PcConfigured(v).wakeup = pc.wakeup /\ PcConfigured(v).address = pc.address
         /\ PcConfigured(v).halted = pc.halted /\ PcConfigured(v).read = pc.read
<1>1. pc \in PcRecords
  BY DEF DeviceTyped
<1> DEFINE w == pc.sure \cup {"configuration"}
           p == IF v = 1 THEN pc.read ELSE 0
<1>2. w \in SUBSET Options /\ p \in {0, 64, 512}
  BY <1>1 DEF PcRecords, Options
<1>3. PcConfigured(v) = [pc EXCEPT !.configuration = v, !.sure = w, !.packet = p]
  BY <1>1 DEF PcConfigured, PcRecords
<1> HIDE DEF w, p
<1>4. PcConfigured(v) \in PcRecords
  <2> DEFINE r == [pc EXCEPT !.configuration = v]
             q == [r EXCEPT !.sure = w]
  <2>3. r \in PcRecords
    BY <1>1 DEF PcRecords
  <2>2. PcConfigured(v) = [q EXCEPT !.packet = p]
    BY <1>1, <1>3 DEF PcRecords
  <2> HIDE DEF r
  <2>1. q \in PcRecords
    BY <1>2, <2>3 DEF PcRecords
  <2> HIDE DEF q
  <2> QED BY <1>2, <2>1, <2>2 DEF PcRecords
<1>6. PcConfigured(v).configuration = v /\ PcConfigured(v).sure = w /\ PcConfigured(v).packet = p
  BY <1>1, <1>3 DEF PcRecords
<1>5. PcConfigured(v).wakeup = pc.wakeup /\ PcConfigured(v).address = pc.address /\
      PcConfigured(v).halted = pc.halted /\ PcConfigured(v).read = pc.read
  BY <1>1, <1>3 DEF PcRecords
<1> QED BY <1>4, <1>5, <1>6 DEF w, p

LEMMA DoneHeeded ==
  ASSUME NEW r, RequestIs(r), ~r.class, Chapter9!Answer(r, Chapter9!Done)
  PROVE  /\ fast' = fast
         /\ r.req = "set_configuration" => pc' = PcConfigured(r.value)
         /\ r.req = "set_address" => pc' = PcAddressed(r.value)
         /\ r.to = "device" /\ r.req = "set_feature" => pc' = PcWakes(TRUE)
         /\ r.to = "device" /\ r.req = "clear_feature" => pc' = PcWakes(FALSE)
         /\ r.to \in Ends /\ r.req = "set_feature" => pc' = PcHalts(pc.halted \cup {r.to})
         /\ r.to \in Ends /\ r.req = "clear_feature" => pc' = PcHalts(pc.halted \ {r.to})
<1> DEFINE a == Chapter9!Done
<1>1. a.is = "done"
  BY AnswersAre
<1>2. pc' = Chapter9!Acknowledged(r, a) /\ fast' = fast
  BY DEF Chapter9!Answer
<1> HIDE DEF a
<1>3. ASSUME r.req = "set_configuration" PROVE Chapter9!Acknowledged(r, a) = PcConfigured(r.value)
  BY <1>1, <1>3 DEF Chapter9!Acknowledged, PcConfigured
<1>4. ASSUME r.req = "set_address" PROVE Chapter9!Acknowledged(r, a) = PcAddressed(r.value)
  BY <1>1, <1>4 DEF Chapter9!Acknowledged, PcAddressed
<1>6. ASSUME r.to = "device", r.req = "set_feature" PROVE Chapter9!Acknowledged(r, a) = PcWakes(TRUE)
  <2>1. Chapter9!Acknowledged(r, a) =
           [pc EXCEPT !.wakeup = r.req = "set_feature", !.sure = @ \cup {"wakeup"}]
    BY <1>1, <1>6, EndsAre, Zenon DEF Chapter9!Acknowledged
  <2>2. (r.req = "set_feature") = TRUE
    BY <1>6
  <2> QED BY <1>6, <2>1, <2>2 DEF PcWakes
<1>7. ASSUME r.to = "device", r.req = "clear_feature" PROVE Chapter9!Acknowledged(r, a) = PcWakes(FALSE)
  <2>1. Chapter9!Acknowledged(r, a) =
           [pc EXCEPT !.wakeup = r.req = "set_feature", !.sure = @ \cup {"wakeup"}]
    BY <1>1, <1>7, EndsAre, Zenon DEF Chapter9!Acknowledged
  <2>2. (r.req = "set_feature") = FALSE
    BY <1>7
  <2> QED BY <1>7, <2>1, <2>2 DEF PcWakes
<1>8. ASSUME r.to \in Ends, r.req = "set_feature"
      PROVE  Chapter9!Acknowledged(r, a) = PcHalts(pc.halted \cup {r.to})
  BY <1>1, <1>8, EndsAre DEF Chapter9!Acknowledged, PcHalts
<1>9. ASSUME r.to \in Ends, r.req = "clear_feature"
      PROVE  Chapter9!Acknowledged(r, a) = PcHalts(pc.halted \ {r.to})
  BY <1>1, <1>9, EndsAre DEF Chapter9!Acknowledged, PcHalts
<1> QED BY <1>2, <1>3, <1>4, <1>6, <1>7, <1>8, <1>9

LEMMA ReadHeeded ==
  ASSUME NEW r, NEW a, r.req = "get_descriptor", r.value = 2, a.is = "data"
  PROVE  Chapter9!Acknowledged(r, a) = IF a.size > 24 THEN PcReads(a.value) ELSE pc
BY DEF Chapter9!Acknowledged, PcReads

LEMMA AnswerIs ==
  ASSUME NEW r, NEW a, Chapter9!Answer(r, a)
  PROVE  last'.request = r /\ last'.answer = a /\ pc' = Chapter9!Acknowledged(r, a) /\ fast' = fast
BY DEF Chapter9!Answer

\* A request that changes nothing.
LEMMA ToldStays ==
  ASSUME ReqInv, UNCHANGED <<usb, pc, fast>>
  PROVE  DeviceTyped' /\ SizesAgree' /\ Chapter9!BoxIsAsTold'
BY DEF ReqInv, DeviceTyped, SizesAgree, Chapter9!BoxIsAsTold, Chapter9!D12, Chapter9!SizeNow

\* An answer as AnsweredRightly asks for it, of a PC that is left with p.
Right(r, a, p) ==
  ~Chapter9!Departs(r) =>
    /\ a.is = "stall" <=> Chapter9!Refused(r)
    /\ a.is # "mute" /\ (a.is = "data" => r.dirin) /\ (a.is = "done" => ~r.dirin)
    /\ r.req = "get_configuration" /\ "configuration" \in p.sure => a.value = p.configuration
    /\ a.is = "data" /\ r.req = "get_status" =>
         /\ r.to = "device" => ("wakeup" \in p.sure => (a.value = 3 <=> p.wakeup))
         /\ r.to \in Ends => (a.value = 1 <=> r.to \in p.halted)
         /\ r.to \notin Ends \cup {"device"} => a.value = 0
    /\ a.is = "data" => a.size <= r.length

LEMMA AnswerIsRight ==
  ASSUME NEW r, NEW a, RequestIs(r), last'.request = r, last'.answer = a, Chapter9!D12' = Chapter9!D12,
         Right(r, a, pc'), pc'.wakeup \in BOOLEAN
  PROVE  Chapter9!AnsweredRightly'
<1>1. r.to \in Ends => r.to # "device"
  BY EndsAre
<1>2. Chapter9!Departs(r)' = Chapter9!Departs(r)
  BY DEF Chapter9!Departs
<1>3. (a.is = "stall" <=> Chapter9!Refused(r)) => (a.is = "stall") = Chapter9!Refused(r)
  BY DEF Chapter9!Refused, Chapter9!Wakeup, Chapter9!Halt, RequestIs
<1>4. Chapter9!Refused(r)' = Chapter9!Refused(r)
  BY DEF Chapter9!Refused, Chapter9!Wakeup, Chapter9!Halt
<1> QED BY <1>1, <1>2, <1>3, <1>4 DEF Chapter9!AnsweredRightly, Right

\* A request that is answered, and changes nothing.
LEMMA Unchanging ==
  ASSUME ReqInv, NEW r, RequestIs(r), NEW a, Chapter9!Answer(r, a), usb' = usb,
         \/ a.is \in {"stall", "mute"}
         \/ a.is = "data" /\ (r.req = "get_descriptor" => r.value # 2)
         \/ a.is = "done" /\ (r.class \/ r.req = "set_interface"),
         Right(r, a, pc)
  PROVE  ReqInv'
<1>1. last'.request = r /\ last'.answer = a /\ pc' = pc /\ fast' = fast
  BY AnswerIs, NotHeeded
<1>2. Chapter9!AnsweredRightly'
  <2>1. Chapter9!D12' = Chapter9!D12
    BY DEF Chapter9!D12
  <2>2. pc'.wakeup \in BOOLEAN
    BY <1>1 DEF ReqInv, DeviceTyped, PcRecords
  <2> QED BY <1>1, <2>1, <2>2, AnswerIsRight
<1> QED BY <1>1, <1>2, ToldStays DEF ReqInv

\* The requests that change nothing.
LEMMA ClampedIs ==
  ASSUME NEW r, r.length \in Nat, NEW v, NEW n \in Nat
  PROVE  /\ Chapter9!Clamped(r, v, n).is = "data" /\ Chapter9!Clamped(r, v, n).value = v
         /\ Chapter9!Clamped(r, v, n).size \in Nat /\ Chapter9!Clamped(r, v, n).size <= r.length
<1> DEFINE l == r.length
<1>1. \E x \in {l, n} : \A y \in {l, n} : x <= y
  <2>1. l <= n \/ n <= l
    OBVIOUS
  <2> QED BY <2>1
<1>2. Chapter9!Clamped(r, v, n) = Chapter9!Data(v, CHOOSE x \in {l, n} : \A y \in {l, n} : x <= y)
  BY DEF Chapter9!Clamped, Chapter9!Min
<1> DEFINE m == CHOOSE x \in {l, n} : \A y \in {l, n} : x <= y
<1>3. m \in {l, n} /\ \A y \in {l, n} : m <= y
  BY <1>1
<1> HIDE DEF m
<1>4. Chapter9!Clamped(r, v, n).size = m
  BY <1>2, AnswersAre DEF m
<1> QED BY <1>2, <1>3, <1>4, AnswersAre

LEMMA NotServedStays ==
  ASSUME ReqInv, NEW r, RequestIs(r), Chapter9!NotServed(r) PROVE ReqInv'
<1> DEFINE a == IF Chapter9!D12 \/ ~r.class THEN Chapter9!Stall
                ELSE IF r.dirin THEN Chapter9!Mute ELSE Chapter9!Done
<1>1. ~Chapter9!Serves(r) /\ Chapter9!Answer(r, a) /\ usb' = usb
  BY DEF Chapter9!NotServed
<1>2. a.is = IF Chapter9!D12 \/ ~r.class THEN "stall" ELSE IF r.dirin THEN "mute" ELSE "done"
  BY AnswersAre
<1> HIDE DEF a
<1>3. r.class \/ r.req = "synch_frame"
  BY <1>1 DEF RequestIs, Chapter9!Serves, Chapter9!NetServes, Chapter9!Served, Chapter9!NetIn, Chapter9!NetOut
<1>4. Chapter9!Refused(r)
  BY <1>3 DEF Chapter9!Refused
<1>5. CASE Chapter9!D12 \/ ~r.class
  <2>1. a.is = "stall"
    BY <1>2, <1>5
  <2>2. Right(r, a, pc)
    BY <1>3, <2>1 DEF Right, Chapter9!Refused, RequestIs
  <2> QED BY <1>1, <2>1, <2>2, Unchanging
<1>6. CASE ~Chapter9!D12 /\ r.class
  <2>1. Chapter9!Departs(r)
    BY <1>6 DEF Chapter9!Departs
  <2> QED BY <1>1, <1>2, <1>6, <2>1, Unchanging DEF Right
<1> QED BY <1>5, <1>6

LEMMA StatusTold ==
  ASSUME ReqInv, NEW r, RequestIs(r), Chapter9!GetStatus(r) PROVE ReqInv'
<1>1. /\ r.req = "get_status" /\ ~r.class /\ usb' = usb
      /\ Chapter9!Answer(r, CASE r.to = "device"    -> Chapter9!Data(IF usb.wakeup THEN 3 ELSE 1, 2)
                              [] r.to = "interface" -> Chapter9!Data(0, 2)
                              [] r.to \in Ends      ->
                                   Chapter9!Data(IF Chapter9!D12 /\ ~Chapter9!Halted(r.to) THEN 0 ELSE 1, 2)
                              [] r.to = "other"     -> Chapter9!Stall)
  BY DEF Chapter9!GetStatus, Chapter9!Goes, Chapter9!Serves
<1>2. r.dirin /\ r.length = 2 /\ r.to \in {"device", "interface", "other"} \cup Ends
  BY <1>1 DEF RequestIs
<1>3. Chapter9!Refused(r) <=> r.to = "other"
  BY <1>1 DEF Chapter9!Refused
<1>4. CASE r.to = "device"
  <2> DEFINE v == IF usb.wakeup THEN 3 ELSE 1
  <2>1. "wakeup" \in pc.sure => (v = 3 <=> pc.wakeup)
    BY DEF ReqInv, DeviceTyped, PcRecords, DeviceRecords, Chapter9!BoxIsAsTold
  <2>2. Chapter9!Answer(r, Chapter9!Data(v, 2))
    BY <1>1, <1>4, EndsAre
  <2> HIDE DEF v
  <2> QED BY <1>1, <1>2, <1>3, <1>4, <2>1, <2>2, AnswersAre, EndsAre, Unchanging DEF Right
<1>5. CASE r.to = "interface"
  <2>1. Chapter9!Answer(r, Chapter9!Data(0, 2))
    BY <1>1, <1>5, EndsAre
  <2> QED BY <1>1, <1>2, <1>3, <1>5, <2>1, AnswersAre, EndsAre, Unchanging DEF Right
<1>6. CASE r.to \in Ends
  <2> DEFINE v == IF Chapter9!D12 /\ ~Chapter9!Halted(r.to) THEN 0 ELSE 1
  <2>1. Chapter9!Answer(r, Chapter9!Data(v, 2))
    BY <1>1, <1>6, EndsAre
  <2>2. ~Chapter9!Departs(r) => (v = 1 <=> r.to \in pc.halted)
    BY <1>1, <1>6 DEF Chapter9!Departs, Chapter9!Halted, ReqInv, Chapter9!BoxIsAsTold
  <2> HIDE DEF v
  <2> QED BY <1>1, <1>2, <1>3, <1>6, <2>1, <2>2, AnswersAre, EndsAre, Unchanging DEF Right
<1>7. CASE r.to = "other"
  <2>1. Chapter9!Answer(r, Chapter9!Stall)
    BY <1>1, <1>7, EndsAre
  <2> QED BY <1>1, <1>2, <1>3, <1>7, <2>1, AnswersAre, EndsAre, Unchanging DEF Right
<1> QED BY <1>2, <1>4, <1>5, <1>6, <1>7

LEMMA ConfigurationTold ==
  ASSUME ReqInv, NEW r, RequestIs(r), Chapter9!GetConfiguration(r) \/ Chapter9!GetInterface(r)
                                      \/ Chapter9!SetInterface(r)
  PROVE  ReqInv'
<1>1. ~r.class /\ usb' = usb /\ r.req \in {"get_configuration", "get_interface", "set_interface"}
  BY DEF Chapter9!GetConfiguration, Chapter9!GetInterface, Chapter9!SetInterface, Chapter9!Goes, Chapter9!Serves
<1>2. CASE Chapter9!GetConfiguration(r)
  <2>1. r.req = "get_configuration" /\ Chapter9!Answer(r, Chapter9!Data(usb.configuration, 1))
    BY <1>2 DEF Chapter9!GetConfiguration, Chapter9!Goes
  <2>2. ~Chapter9!Refused(r) /\ r.dirin /\ r.length = 2
    BY <1>1, <2>1 DEF Chapter9!Refused, RequestIs
  <2>3. "configuration" \in pc.sure => usb.configuration = pc.configuration
    BY DEF ReqInv, Chapter9!BoxIsAsTold
  <2> QED BY <1>1, <2>1, <2>2, <2>3, AnswersAre, Unchanging DEF Right
<1>3. CASE Chapter9!GetInterface(r)
  <2>1. r.req = "get_interface" /\ Chapter9!Answer(r, Chapter9!Data(0, 1))
    BY <1>3 DEF Chapter9!GetInterface, Chapter9!Goes
  <2>2. ~Chapter9!Refused(r) /\ r.dirin /\ r.length = 2
    BY <1>1, <2>1 DEF Chapter9!Refused, RequestIs
  <2> QED BY <1>1, <2>1, <2>2, AnswersAre, Unchanging DEF Right
<1>4. CASE Chapter9!SetInterface(r)
  <2>1. /\ r.req = "set_interface"
        /\ Chapter9!Answer(r, IF r.value = 0 THEN Chapter9!Done ELSE Chapter9!Stall)
    BY <1>4 DEF Chapter9!SetInterface, Chapter9!Goes
  <2>2. ~r.dirin /\ r.value \in {0, 1} /\ (Chapter9!Refused(r) <=> r.value = 1)
    BY <1>1, <2>1 DEF Chapter9!Refused, RequestIs
  <2>3. CASE r.value = 0
    BY <1>1, <2>1, <2>2, <2>3, AnswersAre, Unchanging DEF Right
  <2>4. CASE r.value = 1
    BY <1>1, <2>1, <2>2, <2>4, AnswersAre, Unchanging DEF Right
  <2> QED BY <2>2, <2>3, <2>4
<1> QED BY <1>2, <1>3, <1>4

-----------------------------------------------------------------------------
(* What a request may change: the box and the PC together.                 *)

LEMMA Changed ==
  ASSUME DeviceTyped', SizesAgree', Chapter9!BoxIsAsTold', Chapter9!AnsweredRightly'
  PROVE  ReqInv'
BY DEF ReqInv

\* No request makes another controller of it.
LEMMA DriverStays ==
  ASSUME NEW u, NEW r, NEW a, RequestIs(r), Chapter9!Answer(r, a), usb' = u,
         u.driver = usb.driver, Right(r, a, pc'), pc' \in PcRecords
  PROVE  Chapter9!AnsweredRightly'
<1>1. last'.request = r /\ last'.answer = a
  BY AnswerIs
<1>2. Chapter9!D12' = Chapter9!D12
  BY DEF Chapter9!D12
<1>3. pc'.wakeup \in BOOLEAN
  BY DEF PcRecords
<1> QED BY <1>1, <1>2, <1>3, AnswerIsRight

\* The flags and registers after each request that sets any.
UsbAddress(v)  == [usb EXCEPT !.address = v]
UsbWakeup(b)   == [usb EXCEPT !.wakeup = b]
UsbHalts(h, n) == [usb EXCEPT !.halted = h, !.naking = n]
UsbDescribed(v, b)     == [usb EXCEPT !.descr = v, !.fullSpeed = b]
UsbConfigured(b, v, c) == [usb EXCEPT !.enabled = b, !.fifo = v, !.configuration = c]

LEMMA UsbAddressIs ==
  ASSUME DeviceTyped, NEW v \in 0..127, usb' = UsbAddress(v)
  PROVE  /\ usb' \in DeviceRecords /\ usb'.address = v
         /\ usb'.driver = usb.driver /\ usb'.configuration = usb.configuration
         /\ usb'.wakeup = usb.wakeup /\ usb'.fullSpeed = usb.fullSpeed
         /\ usb'.enabled = usb.enabled /\ usb'.descr = usb.descr /\ usb'.fifo = usb.fifo
         /\ usb'.halted = usb.halted /\ usb'.naking = usb.naking
BY DEF DeviceTyped, UsbAddress, DeviceRecords

LEMMA UsbWakeupIs ==
  ASSUME DeviceTyped, NEW b \in BOOLEAN, usb' = UsbWakeup(b)
  PROVE  /\ usb' \in DeviceRecords /\ usb'.wakeup = b
         /\ usb'.driver = usb.driver /\ usb'.configuration = usb.configuration
         /\ usb'.address = usb.address /\ usb'.fullSpeed = usb.fullSpeed
         /\ usb'.enabled = usb.enabled /\ usb'.descr = usb.descr /\ usb'.fifo = usb.fifo
         /\ usb'.halted = usb.halted /\ usb'.naking = usb.naking
BY DEF DeviceTyped, UsbWakeup, DeviceRecords

LEMMA UsbHaltedIs ==
  ASSUME DeviceTyped, NEW h \in SUBSET Ends, NEW n \in SUBSET Ends, usb' = UsbHalts(h, n)
  PROVE  /\ usb' \in DeviceRecords /\ usb'.halted = h /\ usb'.naking = n
         /\ usb'.driver = usb.driver /\ usb'.configuration = usb.configuration
         /\ usb'.address = usb.address /\ usb'.fullSpeed = usb.fullSpeed
         /\ usb'.enabled = usb.enabled /\ usb'.descr = usb.descr /\ usb'.fifo = usb.fifo
         /\ usb'.wakeup = usb.wakeup
<1> DEFINE q == [usb EXCEPT !.halted = h]
<1>1. q \in DeviceRecords /\ q.halted = h
      /\ q.driver = usb.driver /\ q.configuration = usb.configuration /\ q.address = usb.address
      /\ q.fullSpeed = usb.fullSpeed /\ q.enabled = usb.enabled /\ q.descr = usb.descr
      /\ q.fifo = usb.fifo /\ q.wakeup = usb.wakeup
  BY DEF DeviceTyped, DeviceRecords
<1>2. usb' = [q EXCEPT !.naking = n]
  BY DEF UsbHalts
<1> HIDE DEF q
<1> QED BY <1>1, <1>2 DEF DeviceRecords

LEMMA UsbDescrIs ==
  ASSUME DeviceTyped, NEW v \in {64, 512}, NEW b \in BOOLEAN, usb' = UsbDescribed(v, b)
  PROVE  /\ usb' \in DeviceRecords /\ usb'.descr = v /\ usb'.fullSpeed = b
         /\ usb'.driver = usb.driver /\ usb'.configuration = usb.configuration
         /\ usb'.address = usb.address /\ usb'.wakeup = usb.wakeup
         /\ usb'.enabled = usb.enabled /\ usb'.fifo = usb.fifo
         /\ usb'.halted = usb.halted /\ usb'.naking = usb.naking
<1> DEFINE q == [usb EXCEPT !.descr = v]
<1>1. q \in DeviceRecords /\ q.descr = v
      /\ q.driver = usb.driver /\ q.configuration = usb.configuration /\ q.address = usb.address
      /\ q.wakeup = usb.wakeup /\ q.enabled = usb.enabled
      /\ q.fifo = usb.fifo /\ q.halted = usb.halted /\ q.naking = usb.naking
  BY DEF DeviceTyped, DeviceRecords
<1>2. usb' = [q EXCEPT !.fullSpeed = b]
  BY DEF UsbDescribed
<1> HIDE DEF q
<1> QED BY <1>1, <1>2 DEF DeviceRecords

LEMMA UsbConfiguredIs ==
  ASSUME DeviceTyped, NEW b \in BOOLEAN, NEW v \in {0, 64, 512}, NEW c \in {0, 1},
         usb' = UsbConfigured(b, v, c)
  PROVE  /\ usb' \in DeviceRecords /\ usb'.enabled = b /\ usb'.fifo = v /\ usb'.configuration = c
         /\ usb'.driver = usb.driver /\ usb'.address = usb.address /\ usb'.wakeup = usb.wakeup
         /\ usb'.fullSpeed = usb.fullSpeed /\ usb'.descr = usb.descr
         /\ usb'.halted = usb.halted /\ usb'.naking = usb.naking
<1> DEFINE q == [usb EXCEPT !.enabled = b]
           w == [q EXCEPT !.fifo = v]
<1>1. q \in DeviceRecords /\ q.enabled = b
      /\ q.driver = usb.driver /\ q.address = usb.address /\ q.wakeup = usb.wakeup
      /\ q.fullSpeed = usb.fullSpeed /\ q.descr = usb.descr
      /\ q.halted = usb.halted /\ q.naking = usb.naking
  BY DEF DeviceTyped, DeviceRecords
<1>2. usb' = [w EXCEPT !.configuration = c]
  BY DEF UsbConfigured
<1> HIDE DEF q
<1>3. w \in DeviceRecords /\ w.enabled = b /\ w.fifo = v
      /\ w.driver = usb.driver /\ w.address = usb.address /\ w.wakeup = usb.wakeup
      /\ w.fullSpeed = usb.fullSpeed /\ w.descr = usb.descr
      /\ w.halted = usb.halted /\ w.naking = usb.naking
  BY <1>1 DEF DeviceRecords
<1> HIDE DEF w
<1> QED BY <1>2, <1>3 DEF DeviceRecords

\* A request that is carried out: what is left to show of it.
LEMMA CarriedOut ==
  ASSUME ReqInv, NEW r, NEW a, RequestIs(r), Chapter9!Answer(r, a),
         usb' \in DeviceRecords, pc' \in PcRecords, usb'.driver = usb.driver,
         Right(r, a, pc'), SizesAgree', Chapter9!BoxIsAsTold'
  PROVE  ReqInv'
<1>1. Chapter9!AnsweredRightly'
  BY DriverStays
<1>2. DeviceTyped'
  BY AnswerIs DEF DeviceTyped, ReqInv
<1> QED BY <1>1, <1>2, Changed

LEMMA AddressSet ==
  ASSUME ReqInv, NEW r, RequestIs(r), Chapter9!SetAddress(r) PROVE ReqInv'
<1> DEFINE five == 5
<1>1. /\ r.req = "set_address" /\ ~r.class
      /\ usb' = [usb EXCEPT !.address = r.value % 128] /\ Chapter9!Answer(r, Chapter9!Done)
  BY DEF Chapter9!SetAddress, Chapter9!Goes, Chapter9!Serves
<1>2. r.to = "device" /\ r.value = five /\ ~r.dirin
  BY <1>1 DEF RequestIs
<1>3. r.value % 128 = five
  BY <1>2
<1>4. five \in 0..127
  OBVIOUS
<1> HIDE DEF five
<1>5. usb' = UsbAddress(five)
  BY <1>1, <1>3 DEF UsbAddress
<1>6. pc' = PcAddressed(five)
  BY <1>1, <1>2, DoneHeeded
<1>7. DeviceTyped /\ fast' = fast
  BY <1>1, DoneHeeded DEF ReqInv
<1>8. SizesAgree'
  BY <1>4, <1>5, <1>6, <1>7, UsbAddressIs, PcAddressedIs
     DEF ReqInv, SizesAgree, Chapter9!D12, Chapter9!SizeNow
<1>9. Chapter9!BoxIsAsTold'
  BY <1>4, <1>5, <1>6, <1>7, UsbAddressIs, PcAddressedIs
     DEF ReqInv, Chapter9!BoxIsAsTold, Chapter9!D12, Chapter9!SizeNow
<1>10. Right(r, Chapter9!Done, pc')
  BY <1>1, <1>2, AnswersAre DEF Right, Chapter9!Refused
<1> QED BY <1>1, <1>4, <1>5, <1>6, <1>7, <1>8, <1>9, <1>10, UsbAddressIs, PcAddressedIs, CarriedOut

\* Remote wakeup is switched on or off.
LEMMA Woken ==
  ASSUME ReqInv, NEW r, NEW b \in BOOLEAN, RequestIs(r), Chapter9!Answer(r, Chapter9!Done),
         Right(r, Chapter9!Done, pc'), usb' = UsbWakeup(b), pc' = PcWakes(b)
  PROVE  ReqInv'
<1>1. DeviceTyped /\ fast' = fast
  BY AnswerIs DEF ReqInv
<1>2. SizesAgree'
  BY <1>1, UsbWakeupIs, PcWakesIs DEF ReqInv, SizesAgree, Chapter9!D12, Chapter9!SizeNow
<1>3. Chapter9!BoxIsAsTold'
  <2>1. "configuration" \in pc'.sure => "configuration" \in pc.sure
    BY <1>1, PcWakesIs
  <2> QED BY <1>1, <2>1, UsbWakeupIs, PcWakesIs
         DEF ReqInv, Chapter9!BoxIsAsTold, Chapter9!D12, Chapter9!SizeNow
<1> QED BY <1>1, <1>2, <1>3, UsbWakeupIs, PcWakesIs, CarriedOut

\* Endpoints are halted and freed, those of a NET2270 by their NAKs.
LEMMA HaltsChanged ==
  ASSUME ReqInv, NEW g \in SUBSET Ends, NEW n \in SUBSET Ends, NEW h \in SUBSET Ends,
         usb' = UsbHalts(g, n), pc' = PcHalts(h), h = IF Chapter9!D12 THEN g ELSE n, fast' = fast
  PROVE  /\ usb' \in DeviceRecords /\ pc' \in PcRecords /\ usb'.driver = usb.driver
         /\ SizesAgree' /\ Chapter9!BoxIsAsTold'
<1>1. DeviceTyped
  BY DEF ReqInv
<1>2. SizesAgree'
  BY <1>1, UsbHaltedIs, PcHaltsIs DEF ReqInv, SizesAgree, Chapter9!D12, Chapter9!SizeNow
<1>3. Chapter9!BoxIsAsTold'
  BY <1>1, UsbHaltedIs, PcHaltsIs DEF ReqInv, Chapter9!BoxIsAsTold, Chapter9!D12, Chapter9!SizeNow
<1> QED BY <1>1, <1>2, <1>3, UsbHaltedIs, PcHaltsIs

LEMMA FeatureCleared ==
  ASSUME ReqInv, NEW r, RequestIs(r), Chapter9!ClearFeature(r) PROVE ReqInv'
<1>1. r.req = "clear_feature" /\ ~r.class /\ ~r.dirin
  BY DEF Chapter9!ClearFeature, Chapter9!Goes, Chapter9!Serves, RequestIs
<1>2. CASE Chapter9!D12
  <2>1. Chapter9!Answer(r, Chapter9!Mute) /\ usb' = usb
    BY <1>2 DEF Chapter9!ClearFeature
  <2>2. Chapter9!Departs(r)
    BY <1>1, <1>2 DEF Chapter9!Departs
  <2> QED BY <2>1, <2>2, AnswersAre, Unchanging DEF Right
<1>3. CASE ~Chapter9!D12
  <2>1. CASE Chapter9!Wakeup(r) /\ usb' = [usb EXCEPT !.wakeup = FALSE] /\ Chapter9!Answer(r, Chapter9!Done)
    <3>1. r.to = "device"
      BY <2>1 DEF Chapter9!Wakeup
    <3>2. pc' = PcWakes(FALSE)
      BY <1>1, <2>1, <3>1, DoneHeeded
    <3>3. usb' = UsbWakeup(FALSE)
      BY <2>1 DEF UsbWakeup
    <3>4. Right(r, Chapter9!Done, pc')
      BY <1>1, <2>1, <3>1, AnswersAre DEF Right, Chapter9!Refused
    <3> QED BY <2>1, <3>2, <3>3, <3>4, Woken
  <2>2. CASE /\ Chapter9!Halt(r) /\ Chapter9!Answer(r, Chapter9!Done)
             /\ usb' = [usb EXCEPT !.halted = @ \ {r.to}, !.naking = @ \ {r.to}]
    <3> DEFINE g == usb.halted \ {r.to}
               n == usb.naking \ {r.to}
               h == pc.halted \ {r.to}
    <3>1. r.to \in Ends
      BY <2>2 DEF Chapter9!Halt
    <3>2. g \in SUBSET Ends /\ n \in SUBSET Ends /\ h \in SUBSET Ends
      BY DEF ReqInv, DeviceTyped, DeviceRecords, PcRecords
    <3>3. h = IF Chapter9!D12 THEN g ELSE n
      BY <1>3 DEF ReqInv, Chapter9!BoxIsAsTold
    <3>4. pc' = PcHalts(h) /\ fast' = fast
      BY <1>1, <2>2, <3>1, DoneHeeded
    <3>5. usb' = UsbHalts(g, n)
      BY <2>2 DEF UsbHalts
    <3>6. Right(r, Chapter9!Done, pc')
      BY <1>1, <2>2, <3>1, AnswersAre, EndsAre DEF Right, Chapter9!Refused
    <3> HIDE DEF g, n, h
    <3>7. /\ usb' \in DeviceRecords /\ pc' \in PcRecords /\ usb'.driver = usb.driver
          /\ SizesAgree' /\ Chapter9!BoxIsAsTold'
      BY <3>2, <3>3, <3>4, <3>5, HaltsChanged
    <3> QED BY <2>2, <3>6, <3>7, CarriedOut
  <2>3. CASE /\ ~Chapter9!Wakeup(r) /\ ~Chapter9!Halt(r) /\ usb' = usb
             /\ Chapter9!Answer(r, Chapter9!Stall)
    <3>1. Chapter9!Refused(r)
      BY <1>1, <2>3 DEF Chapter9!Refused
    <3>2. Right(r, Chapter9!Stall, pc)
      BY <1>1, <3>1, AnswersAre DEF Right
    <3> QED BY <2>3, <3>2, AnswersAre, Unchanging
  <2> QED BY <1>3, <2>1, <2>2, <2>3 DEF Chapter9!ClearFeature
<1> QED BY <1>2, <1>3

LEMMA FeatureSet ==
  ASSUME ReqInv, NEW r, RequestIs(r), Chapter9!SetFeature(r) PROVE ReqInv'
<1>1. r.req = "set_feature" /\ ~r.class /\ ~r.dirin
  BY DEF Chapter9!SetFeature, Chapter9!Goes, Chapter9!Serves, RequestIs
<1>2. CASE Chapter9!Wakeup(r) /\ usb' = [usb EXCEPT !.wakeup = TRUE] /\ Chapter9!Answer(r, Chapter9!Done)
  <2>1. r.to = "device"
    BY <1>2 DEF Chapter9!Wakeup
  <2>2. pc' = PcWakes(TRUE)
    BY <1>1, <1>2, <2>1, DoneHeeded
  <2>3. usb' = UsbWakeup(TRUE)
    BY <1>2 DEF UsbWakeup
  <2>4. Right(r, Chapter9!Done, pc')
    BY <1>1, <1>2, <2>1, AnswersAre DEF Right, Chapter9!Refused
  <2> QED BY <1>2, <2>2, <2>3, <2>4, Woken
<1>3. CASE /\ Chapter9!Halt(r) /\ Chapter9!Answer(r, Chapter9!Done)
           /\ usb' = IF Chapter9!D12 THEN Chapter9!Stalled(r.to)
                     ELSE [usb EXCEPT !.naking = @ \cup {r.to}]
  <2> DEFINE g == IF Chapter9!D12 THEN usb.halted \cup {r.to} ELSE usb.halted
             n == IF Chapter9!D12 THEN usb.naking ELSE usb.naking \cup {r.to}
             h == pc.halted \cup {r.to}
  <2>1. r.to \in Ends
    BY <1>3 DEF Chapter9!Halt
  <2>2. g \in SUBSET Ends /\ n \in SUBSET Ends /\ h \in SUBSET Ends
    BY <2>1 DEF ReqInv, DeviceTyped, DeviceRecords, PcRecords
  <2>3. h = IF Chapter9!D12 THEN g ELSE n
    BY DEF ReqInv, Chapter9!BoxIsAsTold
  <2>4. pc' = PcHalts(h) /\ fast' = fast
    BY <1>1, <1>3, <2>1, DoneHeeded
  <2>5. usb' = UsbHalts(g, n)
    <3>1. CASE Chapter9!D12
      BY <1>3, <3>1 DEF UsbHalts, Chapter9!Stalled, ReqInv, DeviceTyped, DeviceRecords
    <3>2. CASE ~Chapter9!D12
      BY <1>3, <3>2 DEF UsbHalts, ReqInv, DeviceTyped, DeviceRecords
    <3> QED BY <3>1, <3>2
  <2>6. Right(r, Chapter9!Done, pc')
    BY <1>1, <1>3, <2>1, AnswersAre, EndsAre DEF Right, Chapter9!Refused
  <2> HIDE DEF g, n, h
  <2>7. /\ usb' \in DeviceRecords /\ pc' \in PcRecords /\ usb'.driver = usb.driver
        /\ SizesAgree' /\ Chapter9!BoxIsAsTold'
    BY <2>2, <2>3, <2>4, <2>5, HaltsChanged
  <2> QED BY <1>3, <2>6, <2>7, CarriedOut
<1>4. CASE /\ ~Chapter9!Wakeup(r) /\ ~Chapter9!Halt(r) /\ usb' = usb
           /\ Chapter9!Answer(r, Chapter9!Stall)
  <2>1. Chapter9!Refused(r)
    BY <1>1, <1>4 DEF Chapter9!Refused
  <2>2. Right(r, Chapter9!Stall, pc)
    BY <1>1, <2>1, AnswersAre DEF Right
  <2> QED BY <1>4, <2>2, AnswersAre, Unchanging
<1> QED BY <1>2, <1>3, <1>4 DEF Chapter9!SetFeature

LEMMA DescriptorTold ==
  ASSUME ReqInv, NEW r, RequestIs(r), Chapter9!GetDescriptor(r) PROVE ReqInv'
<1>1. r.req = "get_descriptor" /\ ~r.class
  BY DEF Chapter9!GetDescriptor, Chapter9!Goes, Chapter9!Serves
<1>2. r.dirin /\ r.to = "device" /\ r.length \in Nat /\ (Chapter9!Refused(r) <=> r.value = 3)
  BY <1>1, EndsAre DEF RequestIs, Chapter9!Refused
<1>3. CASE /\ r.value = 1 /\ usb' = usb
           /\ Chapter9!Answer(r, Chapter9!Clamped(r, IF Chapter9!D12 THEN 16 ELSE 64, 18))
  <2> DEFINE v == IF Chapter9!D12 THEN 16 ELSE 64
             a == Chapter9!Clamped(r, v, 18)
  <2>1. a.is = "data" /\ a.value = v /\ a.size <= r.length
    BY <1>2, ClampedIs
  <2>2. Chapter9!Answer(r, a)
    BY <1>3
  <2> HIDE DEF a, v
  <2>3. Right(r, a, pc)
    BY <1>1, <1>2, <1>3, <2>1 DEF Right
  <2> QED BY <1>3, <2>1, <2>2, <2>3, Unchanging
<1>4. CASE /\ r.value = 2
           /\ usb' = [usb EXCEPT !.descr = Chapter9!SizeNow, !.fullSpeed = ~Chapter9!D12 /\ ~fast]
           /\ Chapter9!Answer(r, Chapter9!Clamped(r, Chapter9!SizeNow, IF Chapter9!D12 THEN 46 ELSE 39))
  <2> DEFINE v == Chapter9!SizeNow
             n == IF Chapter9!D12 THEN 46 ELSE 39
             b == ~Chapter9!D12 /\ ~fast
             a == Chapter9!Clamped(r, v, n)
  <2>1. v \in {64, 512} /\ n \in Nat /\ b \in BOOLEAN
    BY DEF Chapter9!SizeNow
  <2>2. a.is = "data" /\ a.value = v /\ a.size \in Nat /\ a.size <= r.length
    BY <1>2, <2>1, ClampedIs
  <2>3. Chapter9!Answer(r, a)
    BY <1>4
  <2>4. usb' = UsbDescribed(v, b)
    BY <1>4 DEF UsbDescribed
  <2>5. Chapter9!D12 => v = 64 /\ ~b
    BY DEF Chapter9!SizeNow
  <2>6. v = Chapter9!SizeNow /\ (b <=> ~Chapter9!D12 /\ ~fast)
    OBVIOUS
  <2> HIDE DEF a, v, n, b
  <2>7. pc' = (IF a.size > 24 THEN PcReads(v) ELSE pc) /\ fast' = fast
    BY <1>1, <1>4, <2>2, <2>3, AnswerIs, ReadHeeded
  <2>8. DeviceTyped
    BY DEF ReqInv
  <2>9. usb' \in DeviceRecords /\ usb'.descr = v /\ usb'.driver = usb.driver /\ usb'.fifo = usb.fifo
        /\ (usb'.fullSpeed <=> b) /\ usb'.address = usb.address /\ usb'.configuration = usb.configuration
        /\ usb'.enabled = usb.enabled /\ usb'.wakeup = usb.wakeup
        /\ usb'.halted = usb.halted /\ usb'.naking = usb.naking
    BY <2>1, <2>4, <2>8, UsbDescrIs
  <2>10. /\ pc' \in PcRecords /\ (pc'.read = v \/ pc'.read = pc.read)
         /\ pc'.configuration = pc.configuration /\ pc'.wakeup = pc.wakeup
         /\ pc'.address = pc.address /\ pc'.halted = pc.halted
         /\ pc'.packet = pc.packet /\ pc'.sure = pc.sure
    BY <2>1, <2>7, <2>8, PcReadsIs DEF DeviceTyped
  <2>11. Chapter9!SizeNow' = v /\ Chapter9!D12' = Chapter9!D12
    BY <2>6, <2>7, <2>9 DEF Chapter9!SizeNow, Chapter9!D12
  <2>12. SizesAgree'
    BY <2>5, <2>6, <2>7, <2>9, <2>10, <2>11 DEF ReqInv, SizesAgree
  <2>13. Chapter9!BoxIsAsTold'
    <3>1. usb'.fullSpeed = (~Chapter9!D12' /\ ~fast')
      <4>1. usb'.fullSpeed <=> (~Chapter9!D12' /\ ~fast')
        BY <2>6, <2>7, <2>9, <2>11
      <4>2. usb'.fullSpeed \in BOOLEAN
        BY <2>9 DEF DeviceRecords
      <4> QED BY <4>1, <4>2
    <3>2. pc'.packet # 0 => usb'.fifo = pc'.packet /\ pc'.packet = Chapter9!SizeNow'
      BY <2>6, <2>9, <2>10, <2>11 DEF ReqInv, Chapter9!BoxIsAsTold
    <3> QED BY <2>9, <2>10, <2>11, <3>1, <3>2 DEF ReqInv, Chapter9!BoxIsAsTold
  <2>14. Right(r, a, pc')
    BY <1>1, <1>2, <1>4, <2>2 DEF Right
  <2> QED BY <2>3, <2>9, <2>10, <2>12, <2>13, <2>14, CarriedOut
<1>5. CASE r.value = 3 /\ Chapter9!Answer(r, Chapter9!Stall) /\ usb' = usb
  <2>1. Right(r, Chapter9!Stall, pc)
    BY <1>1, <1>2, <1>5, AnswersAre DEF Right
  <2> QED BY <1>5, <2>1, AnswersAre, Unchanging
<1> QED BY <1>3, <1>4, <1>5 DEF Chapter9!GetDescriptor

LEMMA ConfigurationSet ==
  ASSUME ReqInv, NEW r, RequestIs(r), Chapter9!SetConfiguration(r) PROVE ReqInv'
<1>1. r.req = "set_configuration" /\ ~r.class
  BY DEF Chapter9!SetConfiguration, Chapter9!Goes, Chapter9!Serves
<1>2. ~r.dirin /\ r.to = "device" /\ (Chapter9!Refused(r) <=> r.value = 2)
  BY <1>1, EndsAre DEF RequestIs, Chapter9!Refused
<1>3. CASE /\ r.value \in {0, 1} /\ usb' = Chapter9!Configured(r.value)
           /\ Chapter9!Answer(r, Chapter9!Done)
  <2> DEFINE c == r.value
             on == c = 1
             b == IF Chapter9!D12 \/ c = 1 THEN c = 1 ELSE usb.enabled
             v == IF ~Chapter9!D12 /\ c = 1 THEN usb.descr ELSE usb.fifo
  <2>1. DeviceTyped /\ c \in {0, 1}
    BY <1>3 DEF ReqInv
  <2>2. b \in BOOLEAN /\ v \in {0, 64, 512}
    BY <2>1 DEF DeviceTyped, DeviceRecords
  <2>3. usb' = UsbConfigured(b, v, c)
    <3>1. CASE Chapter9!D12
      <4>1. usb' = [usb EXCEPT !.enabled = on, !.configuration = c]
        BY <1>3, <3>1 DEF Chapter9!Configured
      <4>2. b = on /\ v = usb.fifo
        BY <3>1
      <4> HIDE DEF on, b, v, c
      <4> QED BY <2>1, <4>1, <4>2 DEF UsbConfigured, DeviceTyped, DeviceRecords
    <3>2. CASE ~Chapter9!D12 /\ c = 1
      <4>1. usb' = [usb EXCEPT !.enabled = TRUE, !.fifo = usb.descr, !.configuration = 1]
        BY <1>3, <3>2 DEF Chapter9!Configured
      <4>2. b = TRUE /\ v = usb.descr /\ c = 1
        BY <3>2
      <4> HIDE DEF b, v, c
      <4> QED BY <4>1, <4>2 DEF UsbConfigured
    <3>3. CASE ~Chapter9!D12 /\ c # 1
      <4>1. usb' = [usb EXCEPT !.configuration = c]
        BY <1>3, <3>3 DEF Chapter9!Configured
      <4>2. b = usb.enabled /\ v = usb.fifo
        BY <3>3
      <4> HIDE DEF b, v, c
      <4> QED BY <2>1, <4>1, <4>2 DEF UsbConfigured, DeviceTyped, DeviceRecords
    <3> QED BY <3>1, <3>2, <3>3
  <2>4. pc' = PcConfigured(c) /\ fast' = fast
    BY <1>1, <1>3, DoneHeeded
  <2>5. /\ c = 1 => b
        /\ Chapter9!D12 /\ c = 0 => ~b
        /\ Chapter9!D12 => v = usb.fifo
        /\ ~Chapter9!D12 /\ c = 1 => v = usb.descr
    OBVIOUS
  <2> HIDE DEF b, v, c
  <2>6. usb' \in DeviceRecords /\ (usb'.enabled <=> b) /\ usb'.fifo = v /\ usb'.configuration = c
        /\ usb'.driver = usb.driver /\ usb'.address = usb.address /\ usb'.wakeup = usb.wakeup
        /\ usb'.fullSpeed = usb.fullSpeed /\ usb'.descr = usb.descr
        /\ usb'.halted = usb.halted /\ usb'.naking = usb.naking
    BY <2>1, <2>2, <2>3, UsbConfiguredIs
  <2>7. /\ pc' \in PcRecords /\ pc'.configuration = c
        /\ pc'.sure = (pc.sure \cup {"configuration"})
        /\ pc'.packet = (IF c = 1 THEN pc.read ELSE 0)
        /\ pc'.wakeup = pc.wakeup /\ pc'.address = pc.address
        /\ pc'.halted = pc.halted /\ pc'.read = pc.read
    BY <2>1, <2>4, PcConfiguredIs
  <2>8. Chapter9!SizeNow' = Chapter9!SizeNow /\ Chapter9!D12' = Chapter9!D12
    BY <2>4, <2>6 DEF Chapter9!SizeNow, Chapter9!D12
  <2>9. SizesAgree'
    BY <2>4, <2>5, <2>6, <2>7, <2>8 DEF ReqInv, SizesAgree
  <2>10. Chapter9!BoxIsAsTold'
    <3>1. pc'.packet # 0 => usb'.fifo = pc'.packet /\ pc'.packet = Chapter9!SizeNow'
      BY <2>1, <2>5, <2>6, <2>7, <2>8 DEF ReqInv, SizesAgree
    <3>2. "configuration" \in pc'.sure =>
            /\ usb'.configuration = pc'.configuration
            /\ pc'.configuration = 1 => usb'.enabled
            /\ Chapter9!D12' /\ pc'.configuration = 0 => ~usb'.enabled
      BY <2>5, <2>6, <2>7, <2>8
    <3>3. "wakeup" \in pc'.sure => usb'.wakeup = pc'.wakeup
      BY <2>6, <2>7 DEF ReqInv, Chapter9!BoxIsAsTold
    <3> QED BY <2>4, <2>6, <2>7, <2>8, <3>1, <3>2, <3>3 DEF ReqInv, Chapter9!BoxIsAsTold
  <2>11. Right(r, Chapter9!Done, pc')
    BY <1>1, <1>2, <1>3, AnswersAre DEF Right
  <2> QED BY <1>3, <2>6, <2>7, <2>9, <2>10, <2>11, CarriedOut
<1>4. CASE r.value \notin {0, 1} /\ usb' = usb /\ Chapter9!Answer(r, Chapter9!Stall)
  <2>1. r.value = 2
    BY <1>1, <1>4 DEF RequestIs
  <2>2. Right(r, Chapter9!Stall, pc)
    BY <1>1, <1>2, <2>1, AnswersAre DEF Right
  <2> QED BY <1>4, <2>2, AnswersAre, Unchanging
<1> QED BY <1>3, <1>4 DEF Chapter9!SetConfiguration

LEMMA RequestHandled ==
  ASSUME ReqInv, NEW r \in Chapter9!Requests, Chapter9!Handle(r) PROVE ReqInv'
<1>1. RequestIs(r)
  BY RequestsAre
<1> QED BY <1>1, StatusTold, FeatureCleared, FeatureSet, AddressSet, DescriptorTold,
           ConfigurationTold, ConfigurationSet, NotServedStays DEF Chapter9!Handle

-----------------------------------------------------------------------------
(* What a reset and the key may change: the box and the PC start anew.     *)

UsbReset(on) == [usb EXCEPT !.address = 0, !.halted = {}, !.naking = {}, !.enabled = on]
UsbReconnected == [usb EXCEPT !.configuration = 0, !.wakeup = FALSE,
                              !.address = 0, !.halted = {}, !.enabled = FALSE]

LEMMA UsbResetIs ==
  ASSUME DeviceTyped, NEW on \in BOOLEAN, usb' = UsbReset(on)
  PROVE  /\ usb' \in DeviceRecords /\ usb'.address = 0 /\ usb'.halted = {} /\ usb'.naking = {}
         /\ usb'.enabled = on /\ usb'.driver = usb.driver
         /\ usb'.configuration = usb.configuration /\ usb'.wakeup = usb.wakeup
         /\ usb'.fullSpeed = usb.fullSpeed /\ usb'.descr = usb.descr /\ usb'.fifo = usb.fifo
<1> DEFINE zero == 0
           none == {}
           q == UsbAddress(zero)
           w == [q EXCEPT !.halted = none]
           x == [w EXCEPT !.naking = none]
<1>1. usb' = [usb EXCEPT !.address = zero, !.halted = none, !.naking = none, !.enabled = on]
  BY DEF UsbReset
<1>2. zero \in 0..127 /\ none \in SUBSET Ends
  OBVIOUS
<1> HIDE DEF zero, none
<1>3. q \in DeviceRecords /\ q.address = zero
      /\ q.driver = usb.driver /\ q.configuration = usb.configuration /\ q.wakeup = usb.wakeup
      /\ q.fullSpeed = usb.fullSpeed /\ q.descr = usb.descr /\ q.fifo = usb.fifo
  BY <1>2 DEF DeviceTyped, DeviceRecords, UsbAddress
<1>4. usb' = [x EXCEPT !.enabled = on]
  BY <1>1 DEF UsbAddress
<1> HIDE DEF q
<1>5. w \in DeviceRecords /\ w.address = zero /\ w.halted = none
      /\ w.driver = usb.driver /\ w.configuration = usb.configuration /\ w.wakeup = usb.wakeup
      /\ w.fullSpeed = usb.fullSpeed /\ w.descr = usb.descr /\ w.fifo = usb.fifo
  BY <1>2, <1>3 DEF DeviceRecords
<1> HIDE DEF w
<1>6. x \in DeviceRecords /\ x.address = zero /\ x.halted = none /\ x.naking = none
      /\ x.driver = usb.driver /\ x.configuration = usb.configuration /\ x.wakeup = usb.wakeup
      /\ x.fullSpeed = usb.fullSpeed /\ x.descr = usb.descr /\ x.fifo = usb.fifo
  BY <1>2, <1>5 DEF DeviceRecords
<1> HIDE DEF x
<1>7. /\ usb' \in DeviceRecords /\ usb'.address = zero /\ usb'.halted = none /\ usb'.naking = none
      /\ usb'.enabled = on /\ usb'.driver = usb.driver
      /\ usb'.configuration = usb.configuration /\ usb'.wakeup = usb.wakeup
      /\ usb'.fullSpeed = usb.fullSpeed /\ usb'.descr = usb.descr /\ usb'.fifo = usb.fifo
  BY <1>4, <1>6 DEF DeviceRecords
<1> QED BY <1>7 DEF zero, none

LEMMA UsbReconnectedIs ==
  ASSUME DeviceTyped, usb' = UsbReconnected
  PROVE  /\ usb' \in DeviceRecords /\ usb'.address = 0 /\ usb'.halted = {}
         /\ usb'.configuration = 0 /\ ~usb'.wakeup /\ ~usb'.enabled
         /\ usb'.driver = usb.driver /\ usb'.fullSpeed = usb.fullSpeed
         /\ usb'.descr = usb.descr /\ usb'.fifo = usb.fifo
<1> DEFINE zero == 0
           none == {}
           off == FALSE
           q == [usb EXCEPT !.configuration = zero]
           w == [q EXCEPT !.wakeup = off]
           x == [w EXCEPT !.address = zero]
           y == [x EXCEPT !.halted = none]
<1>1. usb' = [usb EXCEPT !.configuration = zero, !.wakeup = off,
                         !.address = zero, !.halted = none, !.enabled = off]
  BY DEF UsbReconnected
<1>2. zero \in 0..127 /\ zero \in {0, 1} /\ none \in SUBSET Ends /\ off \in BOOLEAN
  OBVIOUS
<1> HIDE DEF zero, none, off
<1>3. q \in DeviceRecords /\ q.configuration = zero
      /\ q.driver = usb.driver /\ q.fullSpeed = usb.fullSpeed /\ q.descr = usb.descr /\ q.fifo = usb.fifo
  BY <1>2 DEF DeviceTyped, DeviceRecords
<1>4. usb' = [y EXCEPT !.enabled = off]
  BY <1>1
<1> HIDE DEF q
<1>5. w \in DeviceRecords /\ w.configuration = zero /\ w.wakeup = off
      /\ w.driver = usb.driver /\ w.fullSpeed = usb.fullSpeed /\ w.descr = usb.descr /\ w.fifo = usb.fifo
  BY <1>2, <1>3 DEF DeviceRecords
<1> HIDE DEF w
<1>6. x \in DeviceRecords /\ x.configuration = zero /\ x.wakeup = off /\ x.address = zero
      /\ x.driver = usb.driver /\ x.fullSpeed = usb.fullSpeed /\ x.descr = usb.descr /\ x.fifo = usb.fifo
  BY <1>2, <1>5 DEF DeviceRecords
<1> HIDE DEF x
<1>7. y \in DeviceRecords /\ y.configuration = zero /\ y.wakeup = off /\ y.address = zero
      /\ y.halted = none
      /\ y.driver = usb.driver /\ y.fullSpeed = usb.fullSpeed /\ y.descr = usb.descr /\ y.fifo = usb.fifo
  BY <1>2, <1>6 DEF DeviceRecords
<1> HIDE DEF y
<1>8. /\ usb' \in DeviceRecords /\ usb'.address = zero /\ usb'.halted = none
      /\ usb'.configuration = zero /\ usb'.wakeup = off /\ usb'.enabled = off
      /\ usb'.driver = usb.driver /\ usb'.fullSpeed = usb.fullSpeed
      /\ usb'.descr = usb.descr /\ usb'.fifo = usb.fifo
  BY <1>2, <1>4, <1>7 DEF DeviceRecords
<1>9. off = FALSE
  BY DEF off
<1> QED BY <1>8, <1>9 DEF zero, none

LEMMA ForgottenIs ==
  ASSUME NEW sure \in SUBSET Options
  PROVE  /\ Chapter9!PcForgets(sure) \in PcRecords
         /\ Chapter9!PcForgets(sure).configuration = 0 /\ ~Chapter9!PcForgets(sure).wakeup
         /\ Chapter9!PcForgets(sure).address = 0 /\ Chapter9!PcForgets(sure).halted = {}
         /\ Chapter9!PcForgets(sure).read = 0 /\ Chapter9!PcForgets(sure).packet = 0
         /\ Chapter9!PcForgets(sure).sure = sure
BY DEF Chapter9!PcForgets, PcRecords

LEMMA NothingAsked == ASSUME last' = Chapter9!NoRequest PROVE Chapter9!AnsweredRightly'
<1>1. last'.request.req = "none"
  BY DEF Chapter9!NoRequest, Chapter9!Req
<1> QED BY <1>1 DEF Chapter9!AnsweredRightly

\* The NET2270 may go on with its endpoints, and the PC is sure of nothing.
LEMMA BusIsReset == ASSUME ReqInv, Chapter9!BusReset PROVE ReqInv'
<1>1. PICK on \in {usb.enabled, FALSE} :
        usb' = [usb EXCEPT !.address = 0, !.halted = {}, !.naking = {}, !.enabled = on]
  BY DEF Chapter9!BusReset
<1>2. /\ fast' \in (IF Chapter9!D12 THEN {FALSE} ELSE BOOLEAN)
      /\ pc' = Chapter9!PcForgets({}) /\ last' = Chapter9!NoRequest
  BY DEF Chapter9!BusReset
<1>3. DeviceTyped /\ on \in BOOLEAN
  BY <1>1 DEF ReqInv, DeviceTyped, DeviceRecords
<1>4. usb' = UsbReset(on)
  BY <1>1 DEF UsbReset
<1>5. /\ usb' \in DeviceRecords /\ usb'.address = 0 /\ usb'.halted = {} /\ usb'.naking = {}
      /\ usb'.driver = usb.driver /\ usb'.fullSpeed = usb.fullSpeed
      /\ usb'.descr = usb.descr /\ usb'.fifo = usb.fifo
  BY <1>3, <1>4, UsbResetIs
<1>6. /\ pc' \in PcRecords /\ pc'.address = 0 /\ pc'.halted = {}
      /\ pc'.read = 0 /\ pc'.packet = 0 /\ pc'.sure = {}
  BY <1>2, ForgottenIs
<1>7. fast' \in BOOLEAN /\ (Chapter9!D12 => ~fast')
  BY <1>2
<1>8. Chapter9!D12' = Chapter9!D12
  BY <1>5 DEF Chapter9!D12
<1>9. DeviceTyped'
  BY <1>5, <1>6, <1>7 DEF DeviceTyped
<1>10. SizesAgree'
  BY <1>5, <1>6, <1>7, <1>8 DEF ReqInv, SizesAgree
<1>11. Chapter9!BoxIsAsTold'
  BY <1>5, <1>6, <1>8 DEF Chapter9!BoxIsAsTold
<1> QED BY <1>2, <1>9, <1>10, <1>11, NothingAsked, Changed

LEMMA BoxReconnects == ASSUME ReqInv, Chapter9!Reconnect PROVE ReqInv'
<1> DEFINE both == {"configuration", "wakeup"}
<1>1. /\ Chapter9!D12 /\ usb' = UsbReconnected
      /\ pc' = Chapter9!PcForgets(both) /\ last' = Chapter9!NoRequest /\ fast' = fast
  BY DEF Chapter9!Reconnect, UsbReconnected
<1>2. DeviceTyped /\ both \in SUBSET Options
  BY DEF ReqInv, Options
<1> HIDE DEF both
<1>3. /\ usb' \in DeviceRecords /\ usb'.address = 0 /\ usb'.halted = {}
      /\ usb'.configuration = 0 /\ ~usb'.wakeup /\ ~usb'.enabled
      /\ usb'.driver = usb.driver /\ usb'.fullSpeed = usb.fullSpeed
      /\ usb'.descr = usb.descr /\ usb'.fifo = usb.fifo
  BY <1>1, <1>2, UsbReconnectedIs
<1>4. /\ pc' \in PcRecords /\ pc'.configuration = 0 /\ ~pc'.wakeup /\ pc'.address = 0
      /\ pc'.halted = {} /\ pc'.read = 0 /\ pc'.packet = 0
  BY <1>1, <1>2, ForgottenIs
<1>5. Chapter9!D12' = Chapter9!D12
  BY <1>3 DEF Chapter9!D12
<1>6. DeviceTyped'
  BY <1>1, <1>2, <1>3, <1>4 DEF DeviceTyped
<1>7. SizesAgree'
  BY <1>1, <1>3, <1>4, <1>5 DEF ReqInv, SizesAgree
<1>8. usb'.wakeup = pc'.wakeup
  <2>1. usb'.wakeup \in BOOLEAN /\ pc'.wakeup \in BOOLEAN
    BY <1>3, <1>4 DEF DeviceRecords, PcRecords
  <2> QED BY <1>3, <1>4, <2>1
<1>9. Chapter9!BoxIsAsTold'
  BY <1>1, <1>3, <1>4, <1>5, <1>8 DEF Chapter9!BoxIsAsTold
<1> QED BY <1>1, <1>6, <1>7, <1>9, NothingAsked, Changed

LEMMA DeviceStarts == ASSUME Chapter9!DeviceInit PROVE ReqInv
<1>1. PICK d \in {"d12", "net"} :
        usb = [driver |-> d, configuration |-> 0, wakeup |-> FALSE,
               fullSpeed |-> FALSE, address |-> 0, enabled |-> FALSE,
               descr |-> IF d = "d12" THEN 64 ELSE 512, fifo |-> IF d = "d12" THEN 64 ELSE 0,
               halted |-> {}, naking |-> {}]
  BY DEF Chapter9!DeviceInit
<1> DEFINE de == IF d = "d12" THEN 64 ELSE 512
           fi == IF d = "d12" THEN 64 ELSE 0
           off == FALSE
           none == {}
           both == {"configuration", "wakeup"}
<1>2. usb = [driver |-> d, configuration |-> 0, wakeup |-> off, fullSpeed |-> off, address |-> 0,
             enabled |-> off, descr |-> de, fifo |-> fi, halted |-> none, naking |-> none]
  BY <1>1
<1>3. /\ fast \in (IF Chapter9!D12 THEN {FALSE} ELSE BOOLEAN)
      /\ pc = Chapter9!PcForgets(both) /\ last = Chapter9!NoRequest
  BY DEF Chapter9!DeviceInit
<1>4. /\ de \in {64, 512} /\ fi \in {0, 64, 512} /\ off \in BOOLEAN /\ none \in SUBSET Ends
      /\ both \in SUBSET Options /\ ~off /\ none = {} /\ (d = "d12" => de = 64 /\ fi = 64)
  BY DEF Options
<1> HIDE DEF de, fi, off, none, both
<1>5. /\ usb \in DeviceRecords /\ usb.driver = d /\ usb.configuration = 0 /\ usb.wakeup = off
      /\ usb.fullSpeed = off /\ usb.address = 0 /\ usb.enabled = off /\ usb.descr = de
      /\ usb.fifo = fi /\ usb.halted = none /\ usb.naking = none
  BY <1>2, <1>4 DEF DeviceRecords
<1>6. /\ pc \in PcRecords /\ pc.configuration = 0 /\ ~pc.wakeup /\ pc.address = 0
      /\ pc.halted = {} /\ pc.read = 0 /\ pc.packet = 0
  BY <1>3, <1>4, ForgottenIs
<1>7. (Chapter9!D12 <=> d = "d12") /\ fast \in BOOLEAN /\ (d = "d12" => ~fast)
  BY <1>3, <1>5 DEF Chapter9!D12
<1>8. SizesAgree
  BY <1>4, <1>5, <1>6, <1>7 DEF SizesAgree
<1>9. Chapter9!BoxIsAsTold
  <2>1. usb.wakeup = pc.wakeup
    BY <1>4, <1>5, <1>6 DEF PcRecords
  <2> QED BY <1>4, <1>5, <1>6, <1>7, <2>1 DEF Chapter9!BoxIsAsTold
<1>10. Chapter9!AnsweredRightly
  <2>1. last.request.req = "none"
    BY <1>3 DEF Chapter9!NoRequest, Chapter9!Req
  <2> QED BY <2>1 DEF Chapter9!AnsweredRightly
<1> QED BY <1>5, <1>6, <1>7, <1>8, <1>9, <1>10 DEF ReqInv, DeviceTyped

LEMMA DeviceStays == ASSUME ReqInv, UNCHANGED reqVars PROVE ReqInv'
<1>1. UNCHANGED <<usb, pc, fast, last>>
  BY DEF reqVars
<1>2. Chapter9!AnsweredRightly'
  BY <1>1 DEF ReqInv, Chapter9!AnsweredRightly, Chapter9!Departs, Chapter9!Refused,
              Chapter9!Wakeup, Chapter9!Halt, Chapter9!D12
<1> QED BY <1>1, <1>2, ToldStays, Changed

LEMMA DeviceRuns == [Next]_boxVars => Chapter9!DeviceNext \/ UNCHANGED reqVars
BY DEF Next, Runs, boxVars, usbVars

LEMMA DeviceNexts == ASSUME ReqInv, Chapter9!DeviceNext PROVE ReqInv'
BY RequestHandled, BusIsReset, BoxReconnects DEF Chapter9!DeviceNext

\* chap_9.c of both USB devices: what a PC was told of the box's address, configuration, wakeup,
\* packet sizes and halted endpoints holds of it, and each answer agrees with that, through any
\* sequence of requests, bus resets and reconnections, for any endpoints and lengths asked.
THEOREM AnswersAsStandard == Spec => []AsStandard
<1>1. Init => ReqInv
  BY DeviceStarts DEF Init
<1>2. ReqInv /\ [Next]_boxVars => ReqInv'
  BY DeviceRuns, DeviceNexts, DeviceStays
<1>3. ReqInv => AsStandard
  BY DEF ReqInv, AsStandard, Chapter9!AsStandard
<1> QED BY <1>1, <1>2, <1>3, PTL DEF Spec, boxVars

-----------------------------------------------------------------------------
(* Messages of the USB host controller: Isp116x.                           *)

Messages ==
  [pipe : Host!Pipes, len : Nat, stage : {"idle", "setup", "data", "status"}, done : Nat,
   ret : {"ok", "failed"}]
Jobs ==
  [dir : {"setup", "in", "out"}, at : Nat, len : Nat, done : Nat, out : Nat, tries : Nat]
DeviceStates ==
  [tog : [Host!Pipes -> {0, 1}], total : Nat, n : Nat, ended : BOOLEAN, runs : Nat, setup : BOOLEAN]

\* The message, its job and the device have their types.
HostTyped ==
  /\ toggle \in [Host!Pipes -> {0, 1}] /\ halted \subseteq Host!Bulk
  /\ msg \in Messages /\ job \in Jobs /\ dev \in DeviceStates /\ again \in BOOLEAN

\* The toggle with which the next packet of the message goes is the one the device expects.
InStep == toggle[msg.pipe] = dev.tog[msg.pipe]
Identity(n) == {<<i, i>> : i \in 1..n}

\* A job is the part of its message that is left, or as much of it as a job can hold.
JobOfMessage ==
  /\ msg.stage # "idle" =>
       /\ dev.total <= msg.len /\ (~Host!IsIn(msg.pipe) => dev.total = msg.len) /\ msg.ret = "ok"
  /\ msg.stage = "setup" =>
       /\ msg.pipe \in Host!Control /\ msg.done = 0 /\ job.len = 1 /\ job.done = 0
       /\ dev.n = 0 /\ moved = {}
  /\ msg.stage = "data" =>
       /\ msg.done < msg.len /\ job.len = Host!Least(Host!JobMax, msg.len - msg.done)
       /\ job.done < job.len /\ job.out = job.done
       /\ Host!IsIn(msg.pipe) => dev.n <= dev.total
  /\ msg.stage = "status" => msg.pipe \in Host!Control /\ job.len = 0 /\ job.done = 0

\* The toggles of the OUT pipe agree while its messages go well.
OutInStep ==
  /\ "bulkOut" \notin halted => toggle["bulkOut"] = dev.tog["bulkOut"]
  /\ msg.stage = "data" /\ ~Host!IsIn(msg.pipe) => InStep

\* What is done is in its place, or nothing more comes in: the device has sent a short packet, or
\* has not seen the acknowledgement of a packet and repeats it.
MovedSoFar ==
  ~again =>
    /\ msg.stage = "data" =>
         \/ Host!IsIn(msg.pipe) /\ (dev.ended \/ ~InStep)
         \/ /\ InStep /\ job.at = dev.n /\ dev.n = msg.done + job.done
            /\ dev.n <= dev.total /\ moved = Identity(dev.n)
    /\ msg.stage = "status" => moved = Identity(dev.total)

\* The inductive invariant: Delivered speaks of a message that is over only.
HostInv == HostTyped /\ JobOfMessage /\ OutInStep /\ MovedSoFar /\ Host!Delivered

LEMMA HostHasSizes ==
  /\ MaxPacket \in Nat \ {0} /\ JobPackets \in Nat \ {0} /\ Retries \in Nat /\ Lens \subseteq Nat
  /\ Host!JobMax \in Nat \ {0}
<1>1. MaxPacket \in Nat \ {0} /\ JobPackets \in Nat \ {0} /\ Retries \in Nat /\ Lens \subseteq Nat
  BY PartsAssumption DEF PartsAssumption, Host!HostSizes
<1>2. Host!JobMax \in Nat \ {0}
  BY <1>1 DEF Host!JobMax
<1> QED BY <1>1, <1>2

LEMMA LeastIs ==
  ASSUME NEW a \in Nat, NEW b \in Nat
  PROVE  /\ Host!Least(a, b) \in {a, b} /\ Host!Least(a, b) <= a /\ Host!Least(a, b) <= b
         /\ Host!Least(a, b) \in Nat
BY DEF Host!Least

LEMMA PipesAre ==
  /\ Host!Pipes = {"ctlOut", "ctlIn", "bulkOut", "bulkIn"}
  /\ Host!Control = {"ctlOut", "ctlIn"} /\ Host!Bulk = {"bulkOut", "bulkIn"}
  /\ \A p : Host!IsIn(p) <=> p \in {"ctlIn", "bulkIn"}
BY DEF Host!Pipes, Host!Control, Host!Bulk, Host!IsIn

LEMMA ErrorsAre ==
  /\ Host!NoError = 0 /\ Host!DataToggle = 3 /\ Host!Stalled = 4 /\ Host!NoResponse = 5
  /\ Host!Overrun = 8 /\ Host!NotAccessed = 15
BY DEF Host!NoError, Host!DataToggle, Host!Stalled, Host!NoResponse, Host!Overrun, Host!NotAccessed

\* The packet of each stage.
LEMMA PtdIs ==
  ASSUME HostInv, msg.stage # "idle"
  PROVE  /\ Host!Ptd.toggle = toggle[msg.pipe] /\ Host!Ptd.from = job.at
         /\ Host!Ptd.len \in Nat /\ Host!Ptd.len <= MaxPacket /\ Host!Ptd.len <= job.len - job.done
         /\ msg.stage # "status" => Host!Ptd.len > 0
         /\ msg.stage = "setup" => Host!Ptd.len = 1
         /\ msg.stage = "status" => Host!Ptd.len = 0
         /\ Host!Ptd.len \in {MaxPacket, job.len - job.done}
<1> DEFINE k == job.len - job.done
<1>1. k \in Nat /\ (msg.stage # "status" => k > 0) /\ (msg.stage = "setup" => k = 1)
      /\ (msg.stage = "status" => k = 0)
  BY DEF HostInv, HostTyped, Messages, Jobs, JobOfMessage
<1>2. /\ Host!Ptd.toggle = toggle[msg.pipe] /\ Host!Ptd.from = job.at
      /\ Host!Ptd.len = Host!Least(MaxPacket, k)
  BY DEF Host!Ptd
<1> HIDE DEF k
<1>3. MaxPacket \in Nat /\ MaxPacket > 0
  BY HostHasSizes
<1>4. Host!Least(MaxPacket, k) \in {MaxPacket, k} /\ Host!Least(MaxPacket, k) <= MaxPacket
      /\ Host!Least(MaxPacket, k) <= k /\ Host!Least(MaxPacket, k) \in Nat
  BY <1>1, <1>3, LeastIs
<1> QED BY <1>1, <1>2, <1>3, <1>4 DEF k

\* The device after a packet it took.
Flip(t) == [t EXCEPT ![msg.pipe] = 1 - @]

LEMMA FlipIs ==
  ASSUME HostTyped, NEW t \in [Host!Pipes -> {0, 1}]
  PROVE  /\ Flip(t) \in [Host!Pipes -> {0, 1}] /\ Flip(t)[msg.pipe] = 1 - t[msg.pipe]
         /\ \A p \in Host!Pipes \ {msg.pipe} : Flip(t)[p] = t[p]
<1>1. msg.pipe \in Host!Pipes
  BY DEF HostTyped, Messages
<1>2. 1 - t[msg.pipe] \in {0, 1}
  BY <1>1
<1> QED BY <1>1, <1>2 DEF Flip

LEMMA FlippedIs ==
  ASSUME HostTyped
  PROVE  /\ Host!Flipped \in DeviceStates /\ Host!Flipped.tog = Flip(dev.tog)
         /\ Host!Flipped.total = dev.total /\ Host!Flipped.n = dev.n
         /\ Host!Flipped.ended = dev.ended /\ Host!Flipped.runs = dev.runs
         /\ Host!Flipped.setup = dev.setup
<1>1. dev \in DeviceStates /\ Flip(dev.tog) \in [Host!Pipes -> {0, 1}]
  BY FlipIs DEF HostTyped, DeviceStates
<1> DEFINE f == Flip(dev.tog)
<1>2. Host!Flipped = [dev EXCEPT !.tog = f]
  BY <1>1 DEF Host!Flipped, Flip, DeviceStates
<1> HIDE DEF f
<1> QED BY <1>1, <1>2 DEF DeviceStates, f

OutTaken == [Host!Flipped EXCEPT !.n = @ + Host!Ptd.len]

LEMMA OutTakenIs ==
  ASSUME HostTyped, Host!Ptd.len \in Nat
  PROVE  /\ OutTaken \in DeviceStates /\ OutTaken.tog = Flip(dev.tog)
         /\ OutTaken.total = dev.total /\ OutTaken.n = dev.n + Host!Ptd.len
         /\ OutTaken.ended = dev.ended /\ OutTaken.runs = dev.runs
<1> DEFINE f == Host!Flipped
           k == dev.n + Host!Ptd.len
<1>1. /\ f \in DeviceStates /\ f.tog = Flip(dev.tog) /\ f.total = dev.total /\ f.n = dev.n
      /\ f.ended = dev.ended /\ f.runs = dev.runs
  BY FlippedIs
<1>2. k \in Nat
  BY DEF HostTyped, DeviceStates
<1>3. OutTaken = [f EXCEPT !.n = k]
  BY <1>1 DEF OutTaken, DeviceStates
<1> HIDE DEF f, k
<1> QED BY <1>1, <1>2, <1>3 DEF DeviceStates, k

LEMMA InDoneIs ==
  ASSUME HostTyped, Host!InLen \in Nat
  PROVE  /\ Host!InDone \in DeviceStates /\ Host!InDone.tog = Flip(dev.tog)
         /\ Host!InDone.total = dev.total /\ Host!InDone.n = dev.n + Host!InLen
         /\ Host!InDone.ended <=> (Host!InLen < MaxPacket \/ dev.n + Host!InLen = msg.len)
<1> DEFINE f == Host!Flipped
           k == dev.n + Host!InLen
           e == Host!InLen < MaxPacket \/ k = msg.len
           g == [f EXCEPT !.n = k]
<1>1. f \in DeviceStates /\ f.tog = Flip(dev.tog) /\ f.total = dev.total /\ f.n = dev.n
  BY FlippedIs
<1>2. k \in Nat /\ e \in BOOLEAN
  BY DEF HostTyped, DeviceStates
<1>3. Host!InDone = [f EXCEPT !.n = k, !.ended = e]
  BY <1>1 DEF Host!InDone, DeviceStates
<1> HIDE DEF f, e
<1>4. g \in DeviceStates /\ g.tog = Flip(dev.tog) /\ g.total = dev.total /\ g.n = k
  BY <1>1, <1>2 DEF DeviceStates
<1>5. Host!InDone = [g EXCEPT !.ended = e]
  BY <1>3
<1> HIDE DEF g, k
<1>6. /\ Host!InDone \in DeviceStates /\ Host!InDone.tog = Flip(dev.tog)
      /\ Host!InDone.total = dev.total /\ Host!InDone.n = k /\ Host!InDone.ended = e
  BY <1>2, <1>4, <1>5 DEF DeviceStates
<1> QED BY <1>6 DEF k, e

SetUp == [dev EXCEPT !.setup = TRUE, !.tog["ctlOut"] = 1, !.tog["ctlIn"] = 1]

LEMMA SetUpIs ==
  ASSUME HostTyped
  PROVE  /\ SetUp \in DeviceStates /\ SetUp.total = dev.total /\ SetUp.n = dev.n
         /\ SetUp.tog["ctlOut"] = 1 /\ SetUp.tog["ctlIn"] = 1
         /\ SetUp.tog["bulkOut"] = dev.tog["bulkOut"]
<1> DEFINE on == TRUE
           t == [dev.tog EXCEPT !["ctlOut"] = 1]
           u == [t EXCEPT !["ctlIn"] = 1]
           g == [dev EXCEPT !.setup = on]
<1>1. dev \in DeviceStates /\ on \in BOOLEAN
  BY DEF HostTyped
<1>2. u \in [Host!Pipes -> {0, 1}] /\ u["ctlOut"] = 1 /\ u["ctlIn"] = 1
      /\ u["bulkOut"] = dev.tog["bulkOut"]
  BY <1>1, PipesAre DEF DeviceStates
<1>3. SetUp = [dev EXCEPT !.setup = on, !.tog = u]
  BY <1>1 DEF SetUp, DeviceStates
<1> HIDE DEF on, u
<1>4. g \in DeviceStates /\ g.total = dev.total /\ g.n = dev.n
  BY <1>1 DEF DeviceStates
<1>5. SetUp = [g EXCEPT !.tog = u]
  BY <1>3
<1> HIDE DEF g
<1>6. SetUp \in DeviceStates /\ SetUp.total = dev.total /\ SetUp.n = dev.n /\ SetUp.tog = u
  BY <1>2, <1>4, <1>5 DEF DeviceStates
<1> QED BY <1>2, <1>6

Ran == [dev EXCEPT !.runs = 1]

LEMMA RanIs ==
  ASSUME HostTyped
  PROVE  /\ Ran \in DeviceStates /\ Ran.total = dev.total /\ Ran.n = dev.n /\ Ran.runs = 1
         /\ Ran.tog = dev.tog
BY DEF HostTyped, DeviceStates, Ran

\* What becomes of a packet: it is refused or not answered ...
Refuses(r) ==
  /\ r.cc # 0 /\ r.count = 0 /\ r.dev \in DeviceStates
  /\ r.cc = 15 => r.dev = dev /\ r.moved = {}
  /\ msg.pipe # "bulkOut" => r.dev.tog["bulkOut"] = dev.tog["bulkOut"]

\* ... or it arrives.
Sets(r) ==
  /\ r.dev = SetUp /\ r.count = Host!Ptd.len /\ r.moved = {}
Takes(r) ==
  /\ r.dev = OutTaken /\ r.count = Host!Ptd.len /\ r.moved = Host!Pairs(Host!Ptd.len)
Sends(r) ==
  /\ ~dev.ended /\ InStep /\ Host!InLen <= Host!Ptd.len /\ r.dev \in {dev, Host!InDone}
  /\ r.count = Host!InLen /\ r.moved = Host!Pairs(Host!InLen)
Carries(r) ==
  /\ r.dev = Ran /\ r.count = Host!Ptd.len /\ r.moved = {}
Arrives(r) ==
  /\ r.cc = 0
  /\ msg.stage = "setup" => Sets(r)
  /\ msg.stage = "data" => IF Host!IsIn(msg.pipe) THEN Sends(r) ELSE Takes(r)
  /\ msg.stage = "status" => Carries(r) /\ (Host!IsIn(msg.pipe) \/ dev.n = dev.total)

LEMMA ResultIs ==
  ASSUME NEW cc, NEW count, NEW d, NEW x
  PROVE  /\ Host!Result(cc, count, d, x).cc = cc /\ Host!Result(cc, count, d, x).count = count
         /\ Host!Result(cc, count, d, x).dev = d /\ Host!Result(cc, count, d, x).moved = x
BY DEF Host!Result

LEMMA RefusalsAre ==
  ASSUME HostInv, NEW r \in Host!Refusals PROVE Refuses(r)
<1>1. PICK cc \in {Host!Stalled, Host!NoResponse, Host!NotAccessed} :
        r = Host!Result(cc, 0, dev, {})
  BY DEF Host!Refusals
<1> QED BY <1>1, ResultIs, ErrorsAre DEF Refuses, HostInv, HostTyped

LEMMA TakenIs ==
  ASSUME NEW d \in DeviceStates, NEW x, NEW r \in Host!Taken(d, x),
         msg.pipe # "bulkOut" => d.tog["bulkOut"] = dev.tog["bulkOut"]
  PROVE  \/ Refuses(r)
         \/ r.cc = 0 /\ r.count = Host!Ptd.len /\ r.dev = d /\ r.moved = x
<1>1. CASE r = Host!Result(Host!NoError, Host!Ptd.len, d, x)
  BY <1>1, ResultIs, ErrorsAre
<1>2. CASE r = Host!Result(Host!NoResponse, 0, d, x)
  BY <1>2, ResultIs, ErrorsAre DEF Refuses
<1> QED BY <1>1, <1>2 DEF Host!Taken

LEMMA InLenIs ==
  ASSUME HostInv, msg.stage = "data", Host!IsIn(msg.pipe)
  PROVE  /\ Host!InLen \in Nat /\ Host!InLen <= MaxPacket /\ Host!InLen <= dev.total - dev.n
         /\ Host!InLen = MaxPacket \/ Host!InLen = dev.total - dev.n
<1> DEFINE k == dev.total - dev.n
<1>1. k \in Nat
  BY DEF HostInv, HostTyped, DeviceStates, JobOfMessage
<1>2. Host!InLen = Host!Least(MaxPacket, k)
  BY DEF Host!InLen
<1> HIDE DEF k
<1>3. MaxPacket \in Nat
  BY HostHasSizes
<1>4. Host!Least(MaxPacket, k) \in {MaxPacket, k} /\ Host!Least(MaxPacket, k) <= MaxPacket
      /\ Host!Least(MaxPacket, k) <= k /\ Host!Least(MaxPacket, k) \in Nat
  BY <1>1, <1>3, LeastIs
<1> QED BY <1>2, <1>4 DEF k

LEMMA ResultsAre ==
  ASSUME HostInv, msg.stage # "idle", NEW r \in Host!PacketResults
  PROVE  Refuses(r) \/ Arrives(r)
<1>1. HostTyped /\ msg.stage \in {"setup", "data", "status"} /\ msg.pipe \in Host!Pipes
  BY DEF HostInv, HostTyped, Messages
<1>2. CASE r \in Host!Refusals
  BY <1>2, RefusalsAre
<1>3. CASE msg.stage = "setup" /\ r \in Host!SetupResults
  <2>1. r \in Host!Taken(SetUp, {})
    BY <1>3 DEF Host!SetupResults, SetUp
  <2>2. SetUp \in DeviceStates /\ SetUp.tog["bulkOut"] = dev.tog["bulkOut"]
    BY <1>1, SetUpIs
  <2>3. Refuses(r) \/ (r.cc = 0 /\ r.count = Host!Ptd.len /\ r.dev = SetUp /\ r.moved = {})
    BY <2>1, <2>2, TakenIs
  <2> QED BY <1>3, <2>3 DEF Arrives, Sets
<1>4. CASE msg.stage = "data" /\ ~Host!IsIn(msg.pipe) /\ r \in Host!OutResults
  <2>1. Host!Ptd.toggle = dev.tog[msg.pipe] /\ Host!Ptd.len \in Nat
    BY <1>4, PtdIs DEF HostInv, OutInStep, InStep
  <2>2. r \in Host!Taken(OutTaken, Host!Pairs(Host!Ptd.len))
    BY <1>4, <2>1 DEF Host!OutResults, OutTaken
  <2>3. OutTaken \in DeviceStates /\ OutTaken.tog = Flip(dev.tog) /\ dev.tog \in [Host!Pipes -> {0, 1}]
    BY <1>1, <2>1, OutTakenIs DEF HostTyped, DeviceStates
  <2>4. msg.pipe # "bulkOut" => OutTaken.tog["bulkOut"] = dev.tog["bulkOut"]
    BY <1>1, <2>3, FlipIs, PipesAre
  <2>5. \/ Refuses(r)
        \/ r.cc = 0 /\ r.count = Host!Ptd.len /\ r.dev = OutTaken /\ r.moved = Host!Pairs(Host!Ptd.len)
    BY <2>2, <2>3, <2>4, TakenIs
  <2> QED BY <1>4, <2>5 DEF Arrives, Takes
<1>5. CASE msg.stage = "data" /\ Host!IsIn(msg.pipe) /\ r \in Host!InResults
  <2>1. Host!InLen \in Nat /\ Host!Ptd.toggle = toggle[msg.pipe] /\ dev \in DeviceStates
    BY <1>1, <1>5, InLenIs, PtdIs DEF HostTyped
  <2>2. /\ Host!InDone \in DeviceStates /\ Host!InDone.tog = Flip(dev.tog)
        /\ dev.tog \in [Host!Pipes -> {0, 1}]
    BY <1>1, <2>1, InDoneIs DEF DeviceStates
  <2>3. msg.pipe # "bulkOut" => Host!InDone.tog["bulkOut"] = dev.tog["bulkOut"]
    BY <1>1, <2>2, FlipIs, PipesAre
  <2>4. ~dev.ended
    BY <1>5 DEF Host!InResults
  <2>5. CASE Host!Ptd.toggle # dev.tog[msg.pipe]
    <3>1. r = Host!Result(Host!DataToggle, 0, dev, {})
      BY <1>5, <2>4, <2>5 DEF Host!InResults
    <3> QED BY <2>1, <3>1, ResultIs, ErrorsAre DEF Refuses
  <2>6. CASE Host!Ptd.toggle = dev.tog[msg.pipe] /\ Host!InLen > Host!Ptd.len
    <3>1. PICK d \in {dev, Host!InDone} : r = Host!Result(Host!Overrun, 0, d, {})
      BY <1>5, <2>4, <2>6 DEF Host!InResults
    <3> QED BY <2>1, <2>2, <2>3, <3>1, ResultIs, ErrorsAre DEF Refuses
  <2>7. CASE Host!Ptd.toggle = dev.tog[msg.pipe] /\ ~(Host!InLen > Host!Ptd.len)
    <3>1. PICK d \in {dev, Host!InDone} :
            r = Host!Result(Host!NoError, Host!InLen, d, Host!Pairs(Host!InLen))
      BY <1>5, <2>4, <2>7 DEF Host!InResults
    <3>2. Host!InLen <= Host!Ptd.len /\ InStep
      BY <1>5, <2>1, <2>7, PtdIs DEF InStep
    <3>3. Sends(r) /\ r.cc = 0
      BY <2>4, <3>1, <3>2, ResultIs, ErrorsAre DEF Sends
    <3> QED BY <1>5, <3>3 DEF Arrives
  <2> QED BY <2>5, <2>6, <2>7
<1>6. CASE msg.stage = "status" /\ r \in Host!StatusResults
  <2>1. r \in Host!Taken(Ran, {}) /\ (Host!IsIn(msg.pipe) \/ dev.n = dev.total)
    BY <1>6 DEF Host!StatusResults, Ran
  <2>2. Ran \in DeviceStates /\ Ran.tog["bulkOut"] = dev.tog["bulkOut"]
    BY <1>1, RanIs
  <2>3. Refuses(r) \/ (r.cc = 0 /\ r.count = Host!Ptd.len /\ r.dev = Ran /\ r.moved = {})
    BY <2>1, <2>2, TakenIs
  <2> QED BY <1>6, <2>1, <2>3 DEF Arrives, Carries
<1> QED BY <1>1, <1>2, <1>3, <1>4, <1>5, <1>6 DEF Host!PacketResults

LEMMA ResultKeeps ==
  ASSUME HostInv, msg.stage # "idle", NEW r \in Host!PacketResults
  PROVE  /\ r.dev \in DeviceStates
         /\ msg.pipe # "bulkOut" => r.dev.tog["bulkOut"] = dev.tog["bulkOut"]
<1>1. HostTyped /\ dev \in DeviceStates /\ msg.stage \in {"setup", "data", "status"}
      /\ msg.pipe \in Host!Pipes /\ dev.tog \in [Host!Pipes -> {0, 1}]
  BY DEF HostInv, HostTyped, Messages, DeviceStates
<1>2. Flip(dev.tog) \in [Host!Pipes -> {0, 1}]
      /\ (msg.pipe # "bulkOut" => Flip(dev.tog)["bulkOut"] = dev.tog["bulkOut"])
  BY <1>1, FlipIs, PipesAre
<1>3. Refuses(r) \/ Arrives(r)
  BY ResultsAre
<1>4. CASE Refuses(r)
  BY <1>4 DEF Refuses
<1>5. CASE Arrives(r) /\ msg.stage = "setup"
  BY <1>1, <1>5, SetUpIs DEF Arrives, Sets
<1>6. CASE Arrives(r) /\ msg.stage = "data" /\ Host!IsIn(msg.pipe)
  BY <1>1, <1>2, <1>6, InLenIs, InDoneIs DEF Arrives, Sends
<1>7. CASE Arrives(r) /\ msg.stage = "data" /\ ~Host!IsIn(msg.pipe)
  BY <1>1, <1>2, <1>7, PtdIs, OutTakenIs DEF Arrives, Takes
<1>8. CASE Arrives(r) /\ msg.stage = "status"
  BY <1>1, <1>8, RanIs DEF Arrives, Carries
<1> QED BY <1>1, <1>3, <1>4, <1>5, <1>6, <1>7, <1>8

LEMMA NoJobIs == Host!NoJob \in Jobs
BY HostHasSizes DEF Host!NoJob, Host!Job, Jobs

\* A message that fails: its pipe is halted, and nothing is promised of it.
LEMMA MessageFailed ==
  ASSUME HostInv, Host!MessageFails, toggle' = Host!TogglePipe, dev' \in DeviceStates, again' = again,
         msg.pipe # "bulkOut" => dev'.tog["bulkOut"] = dev.tog["bulkOut"]
  PROVE  HostInv'
<1>1. HostTyped /\ msg \in Messages /\ msg.pipe \in Host!Pipes
  BY DEF HostInv, HostTyped, Messages
<1>2. /\ msg' = [msg EXCEPT !.stage = "idle", !.ret = "failed"]
      /\ halted' = halted \cup ({msg.pipe} \cap Host!Bulk) /\ job' = Host!NoJob
  BY DEF Host!MessageFails
<1>3. msg' \in Messages /\ msg'.stage = "idle" /\ msg'.ret = "failed"
  <2> DEFINE s == "idle"
             f == "failed"
             q == [msg EXCEPT !.stage = s]
  <2>1. msg' = [q EXCEPT !.ret = f]
    BY <1>2
  <2>2. q \in Messages /\ q.stage = s
    BY <1>1 DEF Messages
  <2> HIDE DEF q
  <2> QED BY <2>1, <2>2 DEF Messages
<1>4. toggle' = Flip(toggle) /\ toggle \in [Host!Pipes -> {0, 1}]
  BY <1>1 DEF Host!TogglePipe, Flip, HostTyped
<1>5. toggle' \in [Host!Pipes -> {0, 1}] /\ (msg.pipe # "bulkOut" => toggle'["bulkOut"] = toggle["bulkOut"])
  BY <1>1, <1>4, FlipIs, PipesAre
<1>6. halted' \subseteq Host!Bulk /\ (msg.pipe = "bulkOut" => "bulkOut" \in halted')
      /\ halted \subseteq halted'
  BY <1>1, <1>2, PipesAre DEF HostTyped
<1>7. HostTyped'
  BY <1>1, <1>2, <1>3, <1>5, <1>6, NoJobIs DEF HostTyped
<1>8. JobOfMessage' /\ MovedSoFar'
  BY <1>3 DEF JobOfMessage, MovedSoFar
<1>9. OutInStep'
  BY <1>3, <1>5, <1>6 DEF HostInv, OutInStep
<1>10. Host!Delivered'
  BY <1>3 DEF Host!Delivered
<1> QED BY <1>7, <1>8, <1>9, <1>10 DEF HostInv

LEMMA FailedJobs == ASSUME HostInv, msg.stage # "idle", Host!JobFails PROVE HostInv'
<1>1. PICK r \in Host!PacketResults : dev' = r.dev
  BY DEF Host!JobFails, Host!Exchange
<1>2. Host!MessageFails /\ toggle' = Host!TogglePipe /\ again' = again
  BY DEF Host!JobFails
<1> QED BY <1>1, <1>2, ResultKeeps, MessageFailed

LEMMA NotDoneFails == ASSUME HostInv, Host!NotDone PROVE HostInv'
<1>1. PICK r \in Host!PacketResults : dev' = r.dev
  BY DEF Host!NotDone
<1>2. Host!MessageFails /\ toggle' = Host!TogglePipe /\ again' = again /\ msg.stage # "idle"
  BY DEF Host!NotDone
<1> QED BY <1>1, <1>2, ResultKeeps, MessageFailed

\* A retry begins the job again, with the same toggle; after the first packet it is noted in again.
LEMMA RetriedJobs == ASSUME HostInv, msg.stage # "idle", Host!RetryJob PROVE HostInv'
<1>1. PICK r \in Host!PacketResults :
        /\ r.cc = Host!NotAccessed /\ dev' = r.dev /\ moved' = moved \cup r.moved
  BY DEF Host!RetryJob, Host!Exchange
<1>2. /\ job.tries > 0 /\ job' = Host!Retried /\ toggle' = toggle /\ again' = (again \/ job.done > 0)
      /\ halted' = halted /\ msg' = msg
  BY DEF Host!RetryJob, Host!RetryToggle
<1>3. dev' = dev /\ moved' = moved
  <2>1. Refuses(r)
    BY <1>1, ResultsAre, ErrorsAre DEF Arrives
  <2> QED BY <1>1, <2>1, ErrorsAre DEF Refuses
<1>4. HostTyped /\ job \in Jobs /\ again \in BOOLEAN
  BY DEF HostInv, HostTyped
<1>5. job' \in Jobs /\ job'.len = job.len /\ job'.done = 0 /\ job'.out = 0 /\ job'.at = job.at
  <2> DEFINE k == job.tries - 1
             zero == 0
             q == [job EXCEPT !.done = zero]
             w == [q EXCEPT !.out = zero]
  <2>1. k \in Nat /\ zero \in Nat
    BY <1>2, <1>4 DEF Jobs
  <2>2. job' = [job EXCEPT !.done = zero, !.out = zero, !.tries = k]
    <3>1. Host!Retried = [job EXCEPT !.done = zero, !.out = zero, !.tries = k]
      BY <1>4 DEF Host!Retried, Jobs
    <3> QED BY <1>2, <3>1
  <2> HIDE DEF k, zero
  <2>3. q \in Jobs /\ q.len = job.len /\ q.done = zero /\ q.at = job.at
    BY <1>4, <2>1 DEF Jobs
  <2>4. job' = [w EXCEPT !.tries = k]
    BY <2>2
  <2> HIDE DEF q
  <2>5. w \in Jobs /\ w.len = job.len /\ w.done = zero /\ w.out = zero /\ w.at = job.at
    BY <2>1, <2>3 DEF Jobs
  <2> HIDE DEF w
  <2>6. job' \in Jobs /\ job'.len = job.len /\ job'.done = zero /\ job'.out = zero /\ job'.at = job.at
    BY <2>1, <2>4, <2>5 DEF Jobs
  <2> QED BY <2>6 DEF zero
<1>6. HostTyped'
  BY <1>2, <1>3, <1>4, <1>5 DEF HostTyped
<1>7. JobOfMessage'
  BY <1>2, <1>3, <1>4, <1>5, HostHasSizes DEF HostInv, JobOfMessage, Jobs
<1>8. OutInStep'
  BY <1>2, <1>3 DEF HostInv, OutInStep, InStep
<1>9. MovedSoFar'
  <2>1. ~again' => ~again /\ job.done = 0
    <3>1. ~again' => ~again /\ ~(job.done > 0)
      BY <1>2, Zenon
    <3> QED BY <1>4, <3>1 DEF Jobs
  <2> QED BY <1>2, <1>3, <1>5, <2>1 DEF HostInv, MovedSoFar, InStep
<1>10. Host!Delivered'
  BY <1>2 DEF Host!Delivered
<1> QED BY <1>6, <1>7, <1>8, <1>9, <1>10 DEF HostInv

\* The bytes of a packet go on where the last one ended.
LEMMA PairsAreNext ==
  ASSUME dev.n \in Nat, Host!Ptd.from = dev.n, NEW l \in Nat
  PROVE  Identity(dev.n) \cup Host!Pairs(l) = Identity(dev.n + l)
<1> DEFINE n == dev.n
<1>1. Host!Pairs(l) = {<<n + k, n + k>> : k \in 1..l}
  BY DEF Host!Pairs
<1> HIDE DEF n
<1>2. n \in Nat
  BY DEF n
<1>3. ASSUME NEW x \in Identity(n + l) PROVE x \in Identity(n) \cup Host!Pairs(l)
  <2>1. PICK i \in 1..(n + l) : x = <<i, i>>
    BY <1>3 DEF Identity
  <2>2. CASE i <= n
    <3>1. i \in 1..n
      BY <1>2, <2>2
    <3> QED BY <2>1, <3>1 DEF Identity
  <2>3. CASE i > n
    <3>1. i - n \in 1..l /\ n + (i - n) = i
      BY <1>2, <2>3
    <3> QED BY <1>1, <2>1, <3>1
  <2> QED BY <1>2, <2>2, <2>3
<1>4. ASSUME NEW x \in Identity(n) PROVE x \in Identity(n + l)
  <2>1. PICK i \in 1..n : x = <<i, i>>
    BY <1>4 DEF Identity
  <2>2. i \in 1..(n + l)
    BY <1>2
  <2> QED BY <2>1, <2>2 DEF Identity
<1>5. ASSUME NEW x \in Host!Pairs(l) PROVE x \in Identity(n + l)
  <2>1. PICK k \in 1..l : x = <<n + k, n + k>>
    BY <1>1, <1>5
  <2>2. n + k \in 1..(n + l)
    BY <1>2
  <2> QED BY <2>1, <2>2 DEF Identity
<1>6. Identity(n) \cup Host!Pairs(l) = Identity(n + l)
  BY <1>3, <1>4, <1>5
<1> QED BY <1>6 DEF n

\* A packet of data that arrives: what comes in or goes out next is in its place, or the device
\* repeats a packet, or has sent its last one.
DataGoesOn(r) ==
  LET l == r.count IN
  /\ l \in Nat /\ r.dev \in DeviceStates /\ r.dev.total = dev.total
  /\ Host!IsIn(msg.pipe) => r.dev.n <= dev.total
  /\ r.dev.tog[msg.pipe] \in {dev.tog[msg.pipe], 1 - dev.tog[msg.pipe]}
  /\ ~Host!IsIn(msg.pipe) => r.dev.tog[msg.pipe] = 1 - dev.tog[msg.pipe] /\ l = Host!Ptd.len
  /\ InStep /\ l <= Host!Ptd.len
  /\ Host!IsIn(msg.pipe) => l = MaxPacket \/ l = dev.total - dev.n
  /\ r.dev.tog[msg.pipe] = 1 - dev.tog[msg.pipe] => r.dev.n = dev.n + l
  /\ Host!IsIn(msg.pipe) /\ r.dev.tog[msg.pipe] = 1 - dev.tog[msg.pipe] /\ l < MaxPacket => r.dev.ended
  /\ ~again => /\ dev.n = msg.done + job.done /\ job.at = dev.n /\ dev.n + l <= dev.total
               /\ moved \cup r.moved = Identity(dev.n + l)

LEMMA DataArrives ==
  ASSUME HostInv, msg.stage = "data", NEW r, Arrives(r) PROVE DataGoesOn(r)
<1>1. /\ HostTyped /\ dev \in DeviceStates /\ job \in Jobs /\ msg \in Messages /\ dev.tog[msg.pipe] \in {0, 1}
      /\ dev.tog \in [Host!Pipes -> {0, 1}]
  BY DEF HostInv, HostTyped, DeviceStates, Messages
<1>2. /\ Host!Ptd.len \in Nat /\ Host!Ptd.from = job.at /\ Host!Ptd.len <= job.len - job.done
      /\ Flip(dev.tog)[msg.pipe] = 1 - dev.tog[msg.pipe]
  BY <1>1, PtdIs, FlipIs
<1>3. CASE Host!IsIn(msg.pipe)
  <2>1. Sends(r)
    BY <1>3 DEF Arrives
  <2>2. /\ Host!InLen \in Nat /\ Host!InLen <= dev.total - dev.n
        /\ Host!InLen = MaxPacket \/ Host!InLen = dev.total - dev.n
    BY <1>3, InLenIs
  <2>3. /\ r.count = Host!InLen /\ r.moved = Host!Pairs(Host!InLen) /\ r.dev \in {dev, Host!InDone}
        /\ ~dev.ended /\ InStep /\ Host!InLen <= Host!Ptd.len
    BY <2>1 DEF Sends
  <2>4. /\ Host!InDone \in DeviceStates /\ Host!InDone.tog = Flip(dev.tog)
        /\ Host!InDone.total = dev.total /\ Host!InDone.n = dev.n + Host!InLen
        /\ Host!InDone.ended <=> (Host!InLen < MaxPacket \/ dev.n + Host!InLen = msg.len)
    BY <1>1, <2>2, InDoneIs
  <2>5. ASSUME ~again
        PROVE  /\ dev.n = msg.done + job.done /\ job.at = dev.n /\ dev.n + Host!InLen <= dev.total
               /\ moved \cup Host!Pairs(Host!InLen) = Identity(dev.n + Host!InLen)
    <3>1. job.at = dev.n /\ dev.n = msg.done + job.done /\ moved = Identity(dev.n)
      BY <1>3, <2>3, <2>5 DEF HostInv, MovedSoFar
    <3>2. dev.n \in Nat /\ dev.total \in Nat
      BY <1>1 DEF DeviceStates
    <3> QED BY <1>2, <2>2, <3>1, <3>2, PairsAreNext
  <2>6. dev.n \in Nat /\ dev.total \in Nat /\ dev.n <= dev.total /\ dev.n + Host!InLen <= dev.total
    BY <1>1, <1>3, <2>2 DEF DeviceStates, HostInv, JobOfMessage
  <2>7. CASE r.dev = dev
    <3>1. dev.tog[msg.pipe] # 1 - dev.tog[msg.pipe]
      BY <1>1
    <3> QED BY <1>1, <1>3, <2>2, <2>3, <2>5, <2>6, <2>7, <3>1 DEF DataGoesOn
  <2>8. CASE r.dev = Host!InDone
    BY <1>2, <1>3, <2>2, <2>3, <2>4, <2>5, <2>6, <2>8 DEF DataGoesOn
  <2> QED BY <2>3, <2>7, <2>8
<1>4. CASE ~Host!IsIn(msg.pipe)
  <2>1. Takes(r)
    BY <1>4 DEF Arrives
  <2>2. /\ r.dev = OutTaken /\ r.count = Host!Ptd.len /\ r.moved = Host!Pairs(Host!Ptd.len)
    BY <2>1 DEF Takes
  <2>3. /\ OutTaken \in DeviceStates /\ OutTaken.tog = Flip(dev.tog)
        /\ OutTaken.total = dev.total /\ OutTaken.n = dev.n + Host!Ptd.len
    BY <1>1, <1>2, OutTakenIs
  <2>4. InStep
    BY <1>4 DEF HostInv, OutInStep
  <2>5. ASSUME ~again
        PROVE  /\ dev.n = msg.done + job.done /\ job.at = dev.n /\ dev.n + Host!Ptd.len <= dev.total
               /\ moved \cup Host!Pairs(Host!Ptd.len) = Identity(dev.n + Host!Ptd.len)
    <3>1. job.at = dev.n /\ dev.n = msg.done + job.done /\ moved = Identity(dev.n)
      BY <1>4, <2>5 DEF HostInv, MovedSoFar
    <3>2. dev.n \in Nat /\ dev.total \in Nat
      BY <1>1 DEF DeviceStates
    <3>3. dev.n + Host!Ptd.len <= dev.total
      <4>1. dev.total = msg.len /\ job.len = Host!Least(Host!JobMax, msg.len - msg.done) /\ msg.done < msg.len
        BY <1>4 DEF HostInv, JobOfMessage
      <4>2. msg.len \in Nat /\ msg.done \in Nat /\ job.len \in Nat /\ job.done \in Nat
        BY <1>1 DEF Messages, Jobs
      <4>3. job.len <= msg.len - msg.done
        <5>1. Host!JobMax \in Nat /\ msg.len - msg.done \in Nat
          BY <4>1, <4>2, HostHasSizes
        <5> QED BY <4>1, <5>1, LeastIs
      <4> QED BY <1>2, <3>1, <3>2, <4>1, <4>2, <4>3
    <3> QED BY <1>2, <3>1, <3>2, <3>3, PairsAreNext
  <2> QED BY <1>2, <1>4, <2>2, <2>3, <2>4, <2>5 DEF DataGoesOn
<1> QED BY <1>3, <1>4

\* A job whose packet is not its last.
JobGoesOn(l) == [job EXCEPT !.at = @ + l, !.done = @ + l, !.out = @ + l]

LEMMA JobGoesOnIs ==
  ASSUME job \in Jobs, NEW l \in Nat, job' = JobGoesOn(l)
  PROVE  /\ job' \in Jobs /\ job'.len = job.len /\ job'.at = job.at + l
         /\ job'.done = job.done + l /\ job'.out = job.out + l
<1> DEFINE a == job.at + l
           d == job.done + l
           o == job.out + l
           q == [job EXCEPT !.at = a]
           w == [q EXCEPT !.done = d]
<1>1. a \in Nat /\ d \in Nat /\ o \in Nat
  BY DEF Jobs
<1>2. job' = [job EXCEPT !.at = a, !.done = d, !.out = o]
  BY DEF JobGoesOn, Jobs
<1> HIDE DEF a, d, o
<1>3. q \in Jobs /\ q.len = job.len /\ q.at = a
  BY <1>1 DEF Jobs
<1>4. job' = [w EXCEPT !.out = o]
  BY <1>2
<1> HIDE DEF q
<1>5. w \in Jobs /\ w.len = job.len /\ w.at = a /\ w.done = d
  BY <1>1, <1>3 DEF Jobs
<1> HIDE DEF w
<1>6. job' \in Jobs /\ job'.len = job.len /\ job'.at = a /\ job'.done = d /\ job'.out = o
  BY <1>1, <1>4, <1>5 DEF Jobs
<1> QED BY <1>6 DEF a, d, o

\* A packet that arrives toggles the pipe: whether the two agree then is up to the device.
LEMMA Toggled ==
  ASSUME HostInv, msg.stage = "data", NEW r \in Host!PacketResults, DataGoesOn(r),
         toggle' = Host!TogglePipe, dev' = r.dev
  PROVE  /\ toggle' \in [Host!Pipes -> {0, 1}] /\ toggle'[msg.pipe] = 1 - toggle[msg.pipe]
         /\ toggle'[msg.pipe] = dev'.tog[msg.pipe] <=> dev'.tog[msg.pipe] = 1 - dev.tog[msg.pipe]
         /\ "bulkOut" \notin halted => toggle'["bulkOut"] = dev'.tog["bulkOut"]
<1>1. HostTyped /\ toggle \in [Host!Pipes -> {0, 1}] /\ msg.pipe \in Host!Pipes
      /\ dev.tog \in [Host!Pipes -> {0, 1}]
  BY DEF HostInv, HostTyped, Messages, DeviceStates
<1>2. toggle' = Flip(toggle)
  BY DEF Host!TogglePipe, Flip
<1>3. /\ toggle' \in [Host!Pipes -> {0, 1}] /\ toggle'[msg.pipe] = 1 - toggle[msg.pipe]
      /\ \A p \in Host!Pipes \ {msg.pipe} : toggle'[p] = toggle[p]
  BY <1>1, <1>2, FlipIs
<1>4. toggle[msg.pipe] = dev.tog[msg.pipe] /\ dev'.tog[msg.pipe] \in {dev.tog[msg.pipe], 1 - dev.tog[msg.pipe]}
  BY DEF DataGoesOn, InStep
<1>5. toggle[msg.pipe] \in {0, 1} /\ dev.tog[msg.pipe] \in {0, 1}
  BY <1>1
<1>6. "bulkOut" \notin halted => toggle'["bulkOut"] = dev'.tog["bulkOut"]
  <2>1. CASE msg.pipe = "bulkOut"
    <3>1. dev'.tog[msg.pipe] = 1 - dev.tog[msg.pipe]
      BY <2>1, PipesAre DEF DataGoesOn
    <3> QED BY <1>3, <1>4, <2>1, <3>1
  <2>2. CASE msg.pipe # "bulkOut"
    <3>1. toggle'["bulkOut"] = toggle["bulkOut"]
      BY <1>3, <2>2, PipesAre
    <3>2. dev'.tog["bulkOut"] = dev.tog["bulkOut"]
      BY <2>2, ResultKeeps
    <3> QED BY <3>1, <3>2 DEF HostInv, OutInStep
  <2> QED BY <2>1, <2>2
<1> QED BY <1>3, <1>4, <1>5, <1>6

LEMMA NextPackets == ASSUME HostInv, msg.stage # "idle", Host!NextPacket PROVE HostInv'
<1>1. PICK r \in Host!PacketResults :
        /\ ~Host!LeavesLoop(r) /\ dev' = r.dev /\ moved' = moved \cup r.moved
        /\ job' = [job EXCEPT !.at = @ + Host!Ptd.len, !.done = @ + Host!Ptd.len,
                              !.out = @ + Host!Ptd.len]
  BY DEF Host!NextPacket, Host!Exchange
<1>2. toggle' = Host!TogglePipe /\ halted' = halted /\ msg' = msg /\ again' = again
  BY DEF Host!NextPacket
<1>3. /\ HostTyped /\ job \in Jobs /\ msg \in Messages /\ Host!Ptd.len \in Nat
      /\ Host!Ptd.len <= MaxPacket /\ dev \in DeviceStates
  BY PtdIs DEF HostInv, HostTyped
<1> DEFINE l == Host!Ptd.len
<1>4. ~(r.count < l) /\ ~(job.done + l >= job.len)
  BY <1>1 DEF Host!LeavesLoop
<1>5. msg.stage = "data"
  <2>1. job.done \in Nat /\ job.len \in Nat
    BY <1>3 DEF Jobs
  <2>2. msg.stage \notin {"setup", "status"}
    BY <1>4, <2>1, PtdIs DEF HostInv, JobOfMessage
  <2> QED BY <1>3, <2>2 DEF Messages
<1>6. Arrives(r)
  <2>1. l > 0
    BY <1>5, PtdIs
  <2> QED BY <1>4, <2>1, ResultsAre DEF Refuses
<1>7. DataGoesOn(r)
  BY <1>5, <1>6, DataArrives
<1>8. r.count = l
  BY <1>3, <1>4, <1>7 DEF DataGoesOn
<1>9. /\ job' \in Jobs /\ job'.len = job.len /\ job'.at = job.at + l
      /\ job'.done = job.done + l /\ job'.out = job.out + l
  <2>1. job' = JobGoesOn(l)
    BY <1>1 DEF JobGoesOn
  <2> HIDE DEF l
  <2>2. l \in Nat
    BY <1>3 DEF l
  <2> QED BY <1>3, <2>1, <2>2, JobGoesOnIs
<1>10. /\ toggle' \in [Host!Pipes -> {0, 1}]
       /\ toggle'[msg.pipe] = dev'.tog[msg.pipe] <=> dev'.tog[msg.pipe] = 1 - dev.tog[msg.pipe]
       /\ "bulkOut" \notin halted => toggle'["bulkOut"] = dev'.tog["bulkOut"]
  BY <1>1, <1>2, <1>5, <1>7, Toggled
<1> HIDE DEF l
<1>11. HostTyped'
  BY <1>1, <1>2, <1>3, <1>7, <1>9, <1>10 DEF HostTyped, DataGoesOn
<1>12. JobOfMessage'
  <2>1. job.done \in Nat /\ job.len \in Nat /\ l \in Nat /\ job'.done < job'.len
    BY <1>3, <1>4, <1>9 DEF Jobs, l
  <2>2. Host!IsIn(msg.pipe) => dev'.n <= dev'.total
    BY <1>1, <1>7 DEF DataGoesOn
  <2>3. dev'.total = dev.total
    BY <1>1, <1>7 DEF DataGoesOn
  <2> QED BY <1>2, <1>5, <1>9, <2>1, <2>2, <2>3 DEF HostInv, JobOfMessage
<1>13. OutInStep'
  <2>1. ~Host!IsIn(msg.pipe) => toggle'[msg.pipe] = dev'.tog[msg.pipe]
    BY <1>1, <1>7, <1>10 DEF DataGoesOn
  <2> QED BY <1>2, <1>10, <2>1 DEF OutInStep, InStep
<1>14. MovedSoFar'
  <2>1. CASE Host!IsIn(msg.pipe) /\ dev'.tog[msg.pipe] # 1 - dev.tog[msg.pipe]
    BY <1>2, <1>5, <1>10, <2>1 DEF MovedSoFar, InStep
  <2>2. CASE dev'.tog[msg.pipe] = 1 - dev.tog[msg.pipe] /\ ~again
    <3>1. dev'.n = dev.n + l /\ dev'.total = dev.total
      BY <1>1, <1>7, <1>8, <2>2 DEF DataGoesOn
    <3>2. /\ dev.n = msg.done + job.done /\ job.at = dev.n /\ dev.n + l <= dev.total
          /\ moved' = Identity(dev.n + l)
      BY <1>1, <1>7, <1>8, <2>2 DEF DataGoesOn
    <3>3. job'.at = dev'.n /\ dev'.n = msg.done + job'.done
      BY <1>3, <1>9, <3>1, <3>2 DEF Messages, Jobs, DeviceStates, l
    <3> QED BY <1>2, <1>5, <1>10, <2>2, <3>1, <3>2, <3>3 DEF MovedSoFar, InStep
  <2>3. CASE again
    BY <1>2, <2>3 DEF MovedSoFar
  <2> QED BY <1>1, <1>7, <2>1, <2>2, <2>3 DEF DataGoesOn
<1>15. Host!Delivered'
  BY <1>2, <1>5 DEF Host!Delivered
<1> QED BY <1>11, <1>12, <1>13, <1>14, <1>15 DEF HostInv

\* The jobs a message is cut into, and the message when one of them returns.
LEMMA JobIs ==
  ASSUME NEW d \in {"setup", "in", "out"}, NEW a \in Nat, NEW n \in Nat
  PROVE  /\ Host!Job(d, a, n) \in Jobs /\ Host!Job(d, a, n).at = a /\ Host!Job(d, a, n).len = n
         /\ Host!Job(d, a, n).done = 0 /\ Host!Job(d, a, n).out = 0
BY HostHasSizes DEF Host!Job, Jobs

LEMMA DataJobIs ==
  ASSUME NEW m, m.len \in Nat, m.done \in Nat, m.done < m.len
  PROVE  /\ Host!DataJob(m) \in Jobs /\ Host!DataJob(m).at = m.done
         /\ Host!DataJob(m).len = Host!Least(Host!JobMax, m.len - m.done)
         /\ Host!DataJob(m).len > 0 /\ Host!DataJob(m).done = 0 /\ Host!DataJob(m).out = 0
<1> DEFINE n == Host!Least(Host!JobMax, m.len - m.done)
           d == IF Host!IsIn(m.pipe) THEN "in" ELSE "out"
<1>1. Host!JobMax \in Nat /\ Host!JobMax > 0 /\ m.len - m.done \in Nat /\ m.len - m.done > 0
  BY HostHasSizes
<1>2. n \in Nat /\ n > 0
  BY <1>1, LeastIs
<1>3. d \in {"setup", "in", "out"}
  OBVIOUS
<1>4. Host!DataJob(m) = Host!Job(d, m.done, n)
  BY DEF Host!DataJob
<1> HIDE DEF d, n
<1> QED BY <1>2, <1>3, <1>4, JobIs DEF n

LEMMA StatusJobIs ==
  ASSUME NEW m, m.len \in Nat
  PROVE  Host!StatusJob(m) \in Jobs /\ Host!StatusJob(m).len = 0 /\ Host!StatusJob(m).done = 0
<1> DEFINE d == IF Host!IsIn(m.pipe) THEN "out" ELSE "in"
<1>1. d \in {"setup", "in", "out"}
  OBVIOUS
<1>2. Host!StatusJob(m) = Host!Job(d, m.len, 0)
  BY DEF Host!StatusJob
<1> HIDE DEF d
<1> QED BY <1>1, <1>2, JobIs

MessageGoes(k, to) == [msg EXCEPT !.done = k, !.stage = to]

LEMMA MessageGoesIs ==
  ASSUME msg \in Messages, NEW k \in Nat, NEW to \in {"idle", "setup", "data", "status"},
         msg' = MessageGoes(k, to)
  PROVE  /\ msg' \in Messages /\ msg'.done = k /\ msg'.stage = to
         /\ msg'.pipe = msg.pipe /\ msg'.len = msg.len /\ msg'.ret = msg.ret
<1> DEFINE q == [msg EXCEPT !.done = k]
<1>1. q \in Messages /\ q.done = k /\ q.pipe = msg.pipe /\ q.len = msg.len /\ q.ret = msg.ret
  BY DEF Messages
<1>2. msg' = [q EXCEPT !.stage = to]
  BY DEF MessageGoes
<1> HIDE DEF q
<1> QED BY <1>1, <1>2 DEF Messages

\* What JobReturns makes of a packet that ends its job.
Returns(r, k, to) ==
  /\ r \in Host!PacketResults /\ Host!LeavesLoop(r) /\ Arrives(r)
  /\ dev' = r.dev /\ moved' = moved \cup r.moved
  /\ halted' = halted /\ again' = again
  /\ msg' = MessageGoes(k, to)
  /\ to = "data" => job' = Host!DataJob(msg')
  /\ to = "status" => job' = Host!StatusJob(msg')
  /\ to = "idle" => job' = Host!NoJob
  /\ toggle' = IF to # msg.stage /\ to # "idle" THEN [toggle EXCEPT ![msg.pipe] = 1] ELSE Host!TogglePipe
  /\ k = IF msg.stage = "data" THEN msg.done + (job.out + Host!Ptd.len) ELSE msg.done
  /\ msg.stage = "setup" => to = IF msg.len > 0 THEN "data" ELSE "status"
  /\ msg.stage = "data" =>
       to = IF k >= msg.len \/ (Host!IsIn(msg.pipe) /\ job.out + Host!Ptd.len < Host!JobMax)
            THEN IF msg.pipe \in Host!Control THEN "status" ELSE "idle"
            ELSE "data"
  /\ msg.stage = "status" => to = "idle"

LEMMA ReturnsAre ==
  ASSUME HostInv, msg.stage # "idle", Host!JobReturns
  PROVE  \E r, k, to : Returns(r, k, to)
<1>1. PICK r \in Host!PacketResults :
        /\ Host!LeavesLoop(r) /\ r.cc = Host!NoError /\ Host!Exchange(r)
        /\ LET cnt == job.out + Host!Ptd.len
               m   == IF msg.stage = "data" THEN [msg EXCEPT !.done = @ + cnt] ELSE msg
               to  == Host!NextStage(m, cnt)
           IN /\ msg' = [m EXCEPT !.stage = to]
              /\ job' = CASE to = "data"   -> Host!DataJob(m)
                          [] to = "status" -> Host!StatusJob(m)
                          [] to = "idle"   -> Host!NoJob
              /\ toggle' = IF to # msg.stage /\ to # "idle"
                             THEN [toggle EXCEPT ![msg.pipe] = 1] ELSE Host!TogglePipe
  BY DEF Host!JobReturns
<1>2. halted' = halted /\ again' = again
  BY DEF Host!JobReturns
<1>3. msg \in Messages /\ msg.stage \in {"setup", "data", "status"} /\ job \in Jobs /\ Host!Ptd.len \in Nat
  BY PtdIs DEF HostInv, HostTyped, Messages
<1> DEFINE cnt == job.out + Host!Ptd.len
           k == IF msg.stage = "data" THEN msg.done + cnt ELSE msg.done
           m == IF msg.stage = "data" THEN [msg EXCEPT !.done = msg.done + cnt] ELSE msg
           to == Host!NextStage(m, cnt)
<1>4. k \in Nat
  BY <1>3 DEF Messages, Jobs
<1>5. m = [msg EXCEPT !.done = k]
  BY <1>3 DEF Messages
<1>6. /\ msg' = [m EXCEPT !.stage = to]
      /\ to = "data" => job' = Host!DataJob(m)
      /\ to = "status" => job' = Host!StatusJob(m)
      /\ to = "idle" => job' = Host!NoJob
      /\ toggle' = IF to # msg.stage /\ to # "idle" THEN [toggle EXCEPT ![msg.pipe] = 1] ELSE Host!TogglePipe
  BY <1>1
<1> HIDE DEF m, k
<1>7. m.stage = msg.stage /\ m.pipe = msg.pipe /\ m.len = msg.len /\ m.done = k /\ m \in Messages
  BY <1>3, <1>4, <1>5 DEF Messages
<1>8. /\ to \in {"data", "status", "idle"}
      /\ msg.stage = "setup" => to = IF msg.len > 0 THEN "data" ELSE "status"
      /\ msg.stage = "data" =>
           to = IF k >= msg.len \/ (Host!IsIn(msg.pipe) /\ cnt < Host!JobMax)
                THEN IF msg.pipe \in Host!Control THEN "status" ELSE "idle"
                ELSE "data"
      /\ msg.stage = "status" => to = "idle"
  <2>1. msg.len \in Nat /\ (msg.len > 0 <=> msg.len # 0)
    BY <1>3 DEF Messages
  <2>2. Host!DataDone(m, cnt) <=> k >= msg.len \/ (Host!IsIn(msg.pipe) /\ cnt < Host!JobMax)
    BY <1>7 DEF Host!DataDone
  <2>3. CASE msg.stage = "setup"
    BY <1>7, <2>1, <2>3 DEF Host!NextStage
  <2>4. CASE msg.stage = "data"
    <3> HIDE DEF cnt
    <3>1. Host!NextStage(m, cnt) = IF Host!DataDone(m, cnt)
                                   THEN IF msg.pipe \in Host!Control THEN "status" ELSE "idle"
                                   ELSE "data"
      BY <1>7, <2>4, Zenon DEF Host!NextStage
    <3> QED BY <2>2, <2>4, <3>1
  <2>5. CASE msg.stage = "status"
    BY <1>7, <2>5 DEF Host!NextStage
  <2> QED BY <1>3, <2>3, <2>4, <2>5
<1> HIDE DEF to
<1>9. msg' = MessageGoes(k, to)
  BY <1>5, <1>6 DEF MessageGoes
<1>10. msg'.pipe = m.pipe /\ msg'.len = m.len /\ msg'.done = m.done
  BY <1>6, <1>7 DEF Messages
<1>11. Host!DataJob(msg') = Host!DataJob(m) /\ Host!StatusJob(msg') = Host!StatusJob(m)
  BY <1>10 DEF Host!DataJob, Host!StatusJob, Host!IsIn
<1>12. Arrives(r) /\ dev' = r.dev /\ moved' = moved \cup r.moved
  BY <1>1, ResultsAre, ErrorsAre DEF Refuses, Host!Exchange
<1>13. Returns(r, k, to)
  BY <1>1, <1>2, <1>6, <1>8, <1>9, <1>11, <1>12 DEF Returns, k
<1> QED BY <1>13

\* A control message: the device has its request, and both begin the next stage with DATA1.
LEMMA SetupReturns ==
  ASSUME HostInv, msg.stage = "setup", NEW r, NEW k, NEW to, Returns(r, k, to)
  PROVE  HostInv'
<1>1. /\ HostTyped /\ msg \in Messages /\ toggle \in [Host!Pipes -> {0, 1}] /\ dev \in DeviceStates
      /\ msg.len \in Nat /\ msg.done = 0 /\ msg.pipe \in Host!Control /\ msg.ret = "ok"
      /\ dev.total <= msg.len /\ (~Host!IsIn(msg.pipe) => dev.total = msg.len) /\ dev.n = 0 /\ moved = {}
  BY DEF HostInv, HostTyped, Messages, JobOfMessage
<1>2. /\ r.dev = SetUp /\ r.moved = {} /\ k = 0
      /\ to = IF msg.len > 0 THEN "data" ELSE "status"
  BY <1>1 DEF Returns, Arrives, Sets
<1>3. /\ dev' = SetUp /\ moved' = {} /\ halted' = halted /\ again' = again
      /\ msg' = MessageGoes(k, to) /\ toggle' = [toggle EXCEPT ![msg.pipe] = 1]
  BY <1>1, <1>2 DEF Returns
<1>4. /\ dev' \in DeviceStates /\ dev'.total = dev.total /\ dev'.n = 0
      /\ dev'.tog["ctlOut"] = 1 /\ dev'.tog["ctlIn"] = 1 /\ dev'.tog["bulkOut"] = dev.tog["bulkOut"]
  BY <1>1, <1>3, SetUpIs
<1>5. /\ msg' \in Messages /\ msg'.done = 0 /\ msg'.stage = to /\ msg'.pipe = msg.pipe
      /\ msg'.len = msg.len /\ msg'.ret = "ok"
  BY <1>1, <1>2, <1>3, MessageGoesIs
<1>6. /\ toggle' \in [Host!Pipes -> {0, 1}] /\ toggle'[msg.pipe] = 1
      /\ toggle'["bulkOut"] = toggle["bulkOut"]
  BY <1>1, <1>3, PipesAre
<1>7. toggle'[msg.pipe] = dev'.tog[msg.pipe]
  BY <1>1, <1>4, <1>6, PipesAre
<1>8. Identity(0) = {}
  BY DEF Identity
<1>9. dev.total \in Nat
  BY <1>1 DEF DeviceStates
<1>10. OutInStep'
  BY <1>3, <1>4, <1>5, <1>6, <1>7 DEF HostInv, OutInStep, InStep
<1>11. Host!Delivered'
  BY <1>2, <1>5 DEF Host!Delivered
<1>12. CASE msg.len > 0
  <2>1. to = "data" /\ job' = Host!DataJob(msg')
    BY <1>2, <1>12 DEF Returns
  <2>2. /\ job' \in Jobs /\ job'.at = 0 /\ job'.done = 0 /\ job'.out = 0 /\ job'.len > 0
        /\ job'.len = Host!Least(Host!JobMax, msg'.len - msg'.done)
    BY <1>1, <1>5, <1>12, <2>1, DataJobIs
  <2>3. HostTyped'
    BY <1>1, <1>3, <1>4, <1>5, <1>6, <2>2 DEF HostTyped
  <2>4. JobOfMessage'
    BY <1>1, <1>4, <1>5, <1>9, <1>12, <2>1, <2>2 DEF JobOfMessage
  <2>5. MovedSoFar'
    BY <1>3, <1>4, <1>5, <1>7, <1>8, <1>9, <2>1, <2>2 DEF MovedSoFar, InStep
  <2> QED BY <1>10, <1>11, <2>3, <2>4, <2>5 DEF HostInv
<1>13. CASE ~(msg.len > 0)
  <2>1. to = "status" /\ job' = Host!StatusJob(msg')
    BY <1>2, <1>13 DEF Returns
  <2>2. job' \in Jobs /\ job'.len = 0 /\ job'.done = 0
    BY <1>1, <1>5, <2>1, StatusJobIs
  <2>3. HostTyped'
    BY <1>1, <1>3, <1>4, <1>5, <1>6, <2>2 DEF HostTyped
  <2>4. JobOfMessage'
    BY <1>1, <1>4, <1>5, <2>1, <2>2 DEF JobOfMessage
  <2>5. dev.total = 0
    BY <1>1, <1>9, <1>13
  <2>6. MovedSoFar'
    BY <1>3, <1>4, <1>5, <1>8, <2>1, <2>5 DEF MovedSoFar
  <2> QED BY <1>10, <1>11, <2>3, <2>4, <2>6 DEF HostInv
<1> QED BY <1>12, <1>13

\* The status stage: the device carries the request out.
LEMMA StatusReturns ==
  ASSUME HostInv, msg.stage = "status", NEW r, NEW k, NEW to, Returns(r, k, to)
  PROVE  HostInv'
<1>1. /\ HostTyped /\ msg \in Messages /\ toggle \in [Host!Pipes -> {0, 1}] /\ dev \in DeviceStates
      /\ msg.pipe \in Host!Control /\ msg.ret = "ok" /\ msg.done \in Nat
  BY DEF HostInv, HostTyped, Messages, JobOfMessage
<1>2. r.dev = Ran /\ r.moved = {} /\ k = msg.done /\ to = "idle"
  BY DEF Returns, Arrives, Carries
<1>3. /\ dev' = Ran /\ moved' = moved /\ halted' = halted /\ again' = again /\ job' = Host!NoJob
      /\ msg' = MessageGoes(k, to) /\ toggle' = Flip(toggle)
  BY <1>2 DEF Returns, Host!TogglePipe, Flip
<1>4. /\ dev' \in DeviceStates /\ dev'.total = dev.total /\ dev'.runs = 1 /\ dev'.tog = dev.tog
  BY <1>1, <1>3, RanIs
<1>5. /\ msg' \in Messages /\ msg'.stage = "idle" /\ msg'.pipe = msg.pipe
  BY <1>1, <1>2, <1>3, MessageGoesIs
<1>6. toggle' \in [Host!Pipes -> {0, 1}] /\ toggle'["bulkOut"] = toggle["bulkOut"]
  BY <1>1, <1>3, FlipIs, PipesAre
<1>7. HostTyped'
  BY <1>1, <1>3, <1>4, <1>5, <1>6, NoJobIs DEF HostTyped
<1>8. JobOfMessage' /\ MovedSoFar'
  BY <1>5 DEF JobOfMessage, MovedSoFar
<1>9. OutInStep'
  BY <1>3, <1>4, <1>5, <1>6 DEF HostInv, OutInStep
<1>10. Host!Delivered'
  BY <1>3, <1>4 DEF HostInv, MovedSoFar, Identity, Host!Delivered
<1> QED BY <1>7, <1>8, <1>9, <1>10 DEF HostInv

\* A job of data: the last one of its message has moved what there is, as a packet that is shorter
\* than its job was the last one of the device.
LEMMA DataReturns ==
  ASSUME HostInv, msg.stage = "data", NEW r, NEW k, NEW to, Returns(r, k, to)
  PROVE  HostInv'
<1> DEFINE l == Host!Ptd.len
           o == job.out + l
<1>1. /\ HostTyped /\ msg \in Messages /\ toggle \in [Host!Pipes -> {0, 1}] /\ dev \in DeviceStates
      /\ job \in Jobs /\ msg.pipe \in Host!Pipes /\ msg.len \in Nat /\ msg.done \in Nat /\ msg.ret = "ok"
      /\ job.out \in Nat /\ job.len \in Nat /\ job.done = job.out
      /\ dev.n \in Nat /\ dev.total \in Nat
      /\ dev.total <= msg.len /\ (~Host!IsIn(msg.pipe) => dev.total = msg.len) /\ msg.done < msg.len
      /\ job.len = Host!Least(Host!JobMax, msg.len - msg.done)
  BY DEF HostInv, HostTyped, Messages, JobOfMessage, Jobs, DeviceStates
<1>2. /\ l \in Nat /\ l > 0 /\ l <= MaxPacket /\ l <= job.len - job.out
      /\ (l = MaxPacket \/ l = job.len - job.out)
  BY <1>1, PtdIs
<1>3. /\ r \in Host!PacketResults /\ Host!LeavesLoop(r) /\ dev' = r.dev /\ moved' = moved \cup r.moved
      /\ halted' = halted /\ again' = again /\ msg' = MessageGoes(k, to) /\ k = msg.done + o
      /\ to = IF k >= msg.len \/ (Host!IsIn(msg.pipe) /\ o < Host!JobMax)
              THEN IF msg.pipe \in Host!Control THEN "status" ELSE "idle"
              ELSE "data"
  BY DEF Returns
<1>4. DataGoesOn(r)
  BY DataArrives DEF Returns
<1>5. r.count < l \/ job.done + l >= job.len
  BY <1>3 DEF Host!LeavesLoop
<1>6. /\ job.len \in {Host!JobMax, msg.len - msg.done} /\ job.len <= msg.len - msg.done
      /\ job.len <= Host!JobMax /\ Host!JobMax \in Nat
  <2>1. Host!JobMax \in Nat /\ msg.len - msg.done \in Nat
    BY <1>1, HostHasSizes
  <2> QED BY <1>1, <2>1, LeastIs
<1> DEFINE c == r.count
<1>7. /\ c \in Nat /\ c <= l /\ (Host!IsIn(msg.pipe) => c = MaxPacket \/ c = dev.total - dev.n)
      /\ (~Host!IsIn(msg.pipe) => c = l) /\ dev' \in DeviceStates /\ dev'.total = dev.total
      /\ (Host!IsIn(msg.pipe) => dev'.n <= dev.total)
  BY <1>3, <1>4 DEF DataGoesOn
<1>8. /\ (dev'.tog[msg.pipe] = 1 - dev.tog[msg.pipe] => dev'.n = dev.n + c)
      /\ (Host!IsIn(msg.pipe) /\ dev'.tog[msg.pipe] = 1 - dev.tog[msg.pipe] /\ c < MaxPacket => dev'.ended)
      /\ (~Host!IsIn(msg.pipe) => dev'.tog[msg.pipe] = 1 - dev.tog[msg.pipe])
  BY <1>3, <1>4 DEF DataGoesOn
<1>9. ~again => /\ dev.n = msg.done + job.out /\ job.at = dev.n /\ dev.n + c <= dev.total
                /\ moved' = Identity(dev.n + c)
  BY <1>1, <1>3, <1>4 DEF DataGoesOn
<1> HIDE DEF l, c
<1>10. k \in Nat /\ o \in Nat
  BY <1>1, <1>2, <1>3
<1>11. to \in {"status", "idle", "data"}
  BY <1>3
<1> HIDE DEF o
<1>12. msg' \in Messages /\ msg'.done = k /\ msg'.stage = to /\ msg'.pipe = msg.pipe
       /\ msg'.len = msg.len /\ msg'.ret = "ok"
  BY <1>1, <1>3, <1>10, <1>11, MessageGoesIs
<1>13. CASE to = "data"
  <2>1. k < msg.len /\ (Host!IsIn(msg.pipe) => ~(o < Host!JobMax))
    BY <1>1, <1>3, <1>10, <1>13
  <2>2. job' = Host!DataJob(msg') /\ toggle' = Host!TogglePipe
    BY <1>13 DEF Returns
  <2>3. /\ job' \in Jobs /\ job'.at = k /\ job'.done = 0 /\ job'.out = 0 /\ job'.len > 0
        /\ job'.len = Host!Least(Host!JobMax, msg'.len - msg'.done)
    BY <1>1, <1>10, <1>12, <2>1, <2>2, DataJobIs
  <2>4. /\ toggle' \in [Host!Pipes -> {0, 1}]
        /\ toggle'[msg.pipe] = dev'.tog[msg.pipe] <=> dev'.tog[msg.pipe] = 1 - dev.tog[msg.pipe]
        /\ "bulkOut" \notin halted => toggle'["bulkOut"] = dev'.tog["bulkOut"]
    BY <1>3, <1>4, <2>2, Toggled
  <2>5. HostTyped'
    BY <1>1, <1>3, <1>7, <1>12, <2>3, <2>4 DEF HostTyped
  <2>6. JobOfMessage'
    BY <1>1, <1>7, <1>12, <1>13, <2>1, <2>3 DEF JobOfMessage
  <2>7. OutInStep'
    BY <1>3, <1>8, <1>12, <2>4 DEF OutInStep, InStep
  <2>8. ASSUME ~again, dev'.tog[msg.pipe] = 1 - dev.tog[msg.pipe], c = l
        PROVE  /\ job'.at = dev'.n /\ dev'.n = msg'.done + job'.done
               /\ dev'.n <= dev'.total /\ moved' = Identity(dev'.n)
    <3>1. k = dev.n + c
      BY <1>1, <1>2, <1>3, <1>9, <2>8 DEF o
    <3> QED BY <1>1, <1>7, <1>8, <1>9, <1>10, <1>12, <2>3, <2>8, <3>1
  <2>9. ASSUME Host!IsIn(msg.pipe), dev'.tog[msg.pipe] = 1 - dev.tog[msg.pipe], c # l
        PROVE  dev'.ended
    <3>1. c < MaxPacket
      BY <1>2, <1>7, <2>9, HostHasSizes
    <3> QED BY <1>8, <2>9, <3>1
  <2>10. MovedSoFar'
    BY <1>3, <1>7, <1>8, <1>12, <1>13, <2>4, <2>8, <2>9 DEF MovedSoFar, InStep
  <2>11. Host!Delivered'
    BY <1>12, <1>13 DEF Host!Delivered
  <2> QED BY <2>5, <2>6, <2>7, <2>10, <2>11 DEF HostInv
\* What is delivered when the message is over.
<1>14. ASSUME to # "data", ~again PROVE moved' = Identity(dev'.total)
  <2>1. k >= msg.len \/ (Host!IsIn(msg.pipe) /\ o < Host!JobMax)
    BY <1>3, <1>14
  <2>2. dev.n + c = dev.total
    <3>1. CASE ~Host!IsIn(msg.pipe)
      <4>1. k >= msg.len /\ c = l /\ dev.total = msg.len
        BY <1>1, <1>7, <2>1, <3>1
      <4> QED BY <1>1, <1>2, <1>3, <1>7, <1>9, <1>14, <4>1 DEF o
    <3>2. CASE Host!IsIn(msg.pipe) /\ c = dev.total - dev.n
      BY <1>1, <1>7, <3>2
    <3>3. CASE Host!IsIn(msg.pipe) /\ c = MaxPacket
      <4>1. c = l
        BY <1>2, <1>7, <3>3, HostHasSizes
      <4>2. job.out + l = job.len
        BY <1>1, <1>2, <1>5, <4>1 DEF c, l
      <4>3. k >= msg.len
        <5>1. CASE o < Host!JobMax
          BY <1>1, <1>2, <1>3, <1>6, <4>2, <5>1 DEF o
        <5> QED BY <2>1, <5>1
      <4> QED BY <1>1, <1>2, <1>3, <1>7, <1>9, <1>14, <4>1, <4>3 DEF o
    <3> QED BY <1>7, <3>1, <3>2, <3>3
  <2> QED BY <1>7, <1>9, <1>14, <2>2
<1>15. CASE to = "status"
  <2>1. job' = Host!StatusJob(msg') /\ msg.pipe \in Host!Control /\ toggle' = [toggle EXCEPT ![msg.pipe] = 1]
    BY <1>3, <1>15 DEF Returns
  <2>2. job' \in Jobs /\ job'.len = 0 /\ job'.done = 0
    BY <1>1, <1>12, <2>1, StatusJobIs
  <2>3. toggle' \in [Host!Pipes -> {0, 1}] /\ toggle'["bulkOut"] = toggle["bulkOut"]
    BY <1>1, <2>1, PipesAre
  <2>4. dev'.tog["bulkOut"] = dev.tog["bulkOut"]
    BY <1>3, <2>1, ResultKeeps, PipesAre
  <2>5. HostTyped'
    BY <1>1, <1>3, <1>7, <1>12, <2>2, <2>3 DEF HostTyped
  <2>6. JobOfMessage'
    BY <1>1, <1>7, <1>12, <1>15, <2>1, <2>2 DEF JobOfMessage
  <2>7. OutInStep'
    BY <1>3, <1>12, <1>15, <2>3, <2>4 DEF HostInv, OutInStep
  <2>8. MovedSoFar'
    BY <1>3, <1>12, <1>14, <1>15 DEF MovedSoFar
  <2>9. Host!Delivered'
    BY <1>12, <1>15 DEF Host!Delivered
  <2> QED BY <2>5, <2>6, <2>7, <2>8, <2>9 DEF HostInv
<1>16. CASE to = "idle"
  <2>1. job' = Host!NoJob /\ msg.pipe \notin Host!Control /\ toggle' = Host!TogglePipe
    BY <1>3, <1>16 DEF Returns
  <2>2. /\ toggle' \in [Host!Pipes -> {0, 1}]
        /\ "bulkOut" \notin halted => toggle'["bulkOut"] = dev'.tog["bulkOut"]
    BY <1>3, <1>4, <2>1, Toggled
  <2>3. HostTyped'
    BY <1>1, <1>3, <1>7, <1>12, <2>1, <2>2, NoJobIs DEF HostTyped
  <2>4. JobOfMessage' /\ MovedSoFar'
    BY <1>12, <1>16 DEF JobOfMessage, MovedSoFar
  <2>5. OutInStep'
    BY <1>3, <1>12, <1>16, <2>2 DEF OutInStep
  <2>6. Host!Delivered'
    BY <1>3, <1>12, <1>14, <1>16, <2>1 DEF Host!Delivered, Identity
  <2> QED BY <2>3, <2>4, <2>5, <2>6 DEF HostInv
<1> QED BY <1>11, <1>13, <1>15, <1>16

LEMMA JobsReturn == ASSUME HostInv, msg.stage # "idle", Host!JobReturns PROVE HostInv'
<1>1. PICK r, k, to : Returns(r, k, to)
  BY ReturnsAre
<1>2. msg.stage \in {"setup", "data", "status"}
  BY DEF HostInv, HostTyped, Messages
<1> QED BY <1>1, <1>2, SetupReturns, DataReturns, StatusReturns

\* A message begins, or the controller is not ready for it.
Begun(total) == [dev EXCEPT !.total = total, !.n = 0, !.ended = FALSE, !.runs = 0, !.setup = FALSE]

LEMMA BegunIs ==
  ASSUME dev \in DeviceStates, NEW total \in Nat, dev' = Begun(total)
  PROVE  dev' \in DeviceStates /\ dev'.total = total /\ dev'.n = 0 /\ dev'.tog = dev.tog
<1> DEFINE zero == 0
           off == FALSE
           q == [dev EXCEPT !.total = total]
           w == [q EXCEPT !.n = zero]
           x == [w EXCEPT !.ended = off]
           y == [x EXCEPT !.runs = zero]
<1>1. dev' = [dev EXCEPT !.total = total, !.n = zero, !.ended = off, !.runs = zero, !.setup = off]
  BY DEF Begun
<1>2. zero \in Nat /\ off \in BOOLEAN
  OBVIOUS
<1> HIDE DEF zero, off
<1>3. q \in DeviceStates /\ q.total = total /\ q.tog = dev.tog
  BY DEF DeviceStates
<1>4. dev' = [y EXCEPT !.setup = off]
  BY <1>1
<1> HIDE DEF q
<1>5. w \in DeviceStates /\ w.total = total /\ w.n = zero /\ w.tog = dev.tog
  BY <1>2, <1>3 DEF DeviceStates
<1> HIDE DEF w
<1>6. x \in DeviceStates /\ x.total = total /\ x.n = zero /\ x.tog = dev.tog
  BY <1>2, <1>5 DEF DeviceStates
<1> HIDE DEF x
<1>7. y \in DeviceStates /\ y.total = total /\ y.n = zero /\ y.tog = dev.tog
  BY <1>2, <1>6 DEF DeviceStates
<1> HIDE DEF y
<1>8. dev' \in DeviceStates /\ dev'.total = total /\ dev'.n = zero /\ dev'.tog = dev.tog
  BY <1>2, <1>4, <1>7 DEF DeviceStates
<1> QED BY <1>8 DEF zero

LEMMA Submitted ==
  ASSUME HostInv, NEW p \in Host!Pipes, NEW n \in Lens, NEW total \in Lens, Host!Submit(p, n, total)
  PROVE  HostInv'
<1> DEFINE st == IF p \in Host!Control THEN "setup" ELSE "data"
           m == [pipe |-> p, len |-> n, done |-> 0, ret |-> "ok", stage |-> st]
<1>1. /\ msg.stage = "idle" /\ p \notin halted /\ total <= n /\ (~Host!IsIn(p) => total = n)
      /\ (p \in Host!Bulk => n > 0) /\ moved' = {} /\ again' = FALSE
      /\ IF Host!Usable
         THEN /\ msg' = m
              /\ job' = IF p \in Host!Control THEN Host!SetupJob ELSE Host!DataJob(m)
              /\ toggle' = IF p \in Host!Control THEN [toggle EXCEPT !["ctlOut"] = 0] ELSE toggle
              /\ dev' = Host!Device(total, dev)
              /\ halted' = halted
         ELSE /\ msg' = [m EXCEPT !.stage = "idle", !.ret = "failed"]
              /\ halted' = halted \cup ({p} \cap Host!Bulk)
              /\ UNCHANGED <<job, toggle, dev>>
  BY DEF Host!Submit
<1>2. /\ HostTyped /\ n \in Nat /\ total \in Nat /\ toggle \in [Host!Pipes -> {0, 1}] /\ dev \in DeviceStates
      /\ job \in Jobs /\ halted \subseteq Host!Bulk
      /\ ("bulkOut" \notin halted => toggle["bulkOut"] = dev.tog["bulkOut"])
  BY HostHasSizes DEF HostInv, HostTyped, OutInStep
<1>3. st \in {"setup", "data"} /\ (st = "setup" <=> p \in Host!Control)
  OBVIOUS
<1>4. CASE Host!Usable
  <2>1. /\ msg' \in Messages /\ msg'.pipe = p /\ msg'.len = n /\ msg'.done = 0 /\ msg'.ret = "ok"
        /\ msg'.stage = st
    <3> HIDE DEF st
    <3> QED BY <1>1, <1>2, <1>3, <1>4 DEF Messages
  <2>2. dev' \in DeviceStates /\ dev'.total = total /\ dev'.n = 0 /\ dev'.tog = dev.tog
    <3>1. dev' = Begun(total)
      BY <1>1, <1>4 DEF Host!Device, Begun
    <3> QED BY <1>2, <3>1, BegunIs
  <2>3. /\ toggle' \in [Host!Pipes -> {0, 1}] /\ toggle'["bulkOut"] = toggle["bulkOut"]
        /\ p \notin Host!Control => toggle' = toggle
    BY <1>1, <1>2, <1>4, PipesAre
  <2>4. /\ job' \in Jobs /\ job'.at = 0 /\ job'.done = 0 /\ job'.out = 0
        /\ st = "setup" => job'.len = 1
        /\ st = "data" => n > 0 /\ job'.len > 0 /\ job'.len = Host!Least(Host!JobMax, n - 0)
    <3>1. CASE p \in Host!Control
      <4>1. job' = Host!Job("setup", 0, 1)
        BY <1>1, <1>4, <3>1 DEF Host!SetupJob
      <4> QED BY <1>3, <3>1, <4>1, JobIs
    <3>2. CASE p \notin Host!Control
      <4>1. job' = Host!DataJob(msg') /\ n > 0
        BY <1>1, <1>4, <3>2, PipesAre
      <4> QED BY <1>2, <1>3, <2>1, <3>2, <4>1, DataJobIs
    <3> QED BY <3>1, <3>2
  <2> HIDE DEF st, m
  <2>5. again' = FALSE /\ halted' = halted /\ moved' = {}
    BY <1>1, <1>4
  <2>6. HostTyped'
    BY <1>2, <2>1, <2>2, <2>3, <2>4, <2>5 DEF HostTyped
  <2>7. JobOfMessage'
    BY <1>1, <1>2, <1>3, <2>1, <2>2, <2>4, <2>5 DEF JobOfMessage
  <2>8. OutInStep'
    BY <1>1, <1>2, <1>3, <2>1, <2>2, <2>3, <2>5, PipesAre DEF OutInStep, InStep
  <2>9. MovedSoFar'
    <3>1. CASE st = "setup"
      BY <2>1, <3>1 DEF MovedSoFar
    <3>2. CASE st = "data" /\ Host!IsIn(p) /\ toggle'[p] # dev'.tog[p]
      BY <2>1, <3>2 DEF MovedSoFar, InStep
    <3>3. CASE st = "data" /\ toggle'[p] = dev'.tog[p]
      <4>1. moved' = Identity(dev'.n)
        BY <2>2, <2>5 DEF Identity
      <4> QED BY <1>2, <2>1, <2>2, <2>4, <3>3, <4>1 DEF MovedSoFar, InStep
    <3>4. st = "data" /\ ~Host!IsIn(p) => toggle'[p] = dev'.tog[p]
      BY <2>1, <2>8 DEF OutInStep, InStep
    <3> QED BY <1>3, <3>1, <3>2, <3>3, <3>4
  <2>10. Host!Delivered'
    BY <1>3, <2>1 DEF Host!Delivered
  <2> QED BY <2>6, <2>7, <2>8, <2>9, <2>10 DEF HostInv
<1>5. CASE ~Host!Usable
  <2>1. msg' \in Messages /\ msg'.stage = "idle" /\ msg'.ret = "failed"
    <3>1. m \in Messages
      <4> HIDE DEF st
      <4> QED BY <1>2, <1>3 DEF Messages
    <3>2. msg' = [m EXCEPT !.stage = "idle", !.ret = "failed"]
      BY <1>1, <1>5
    <3> HIDE DEF m
    <3> DEFINE s == "idle"
               f == "failed"
               q == [m EXCEPT !.stage = s]
    <3>3. msg' = [q EXCEPT !.ret = f]
      BY <3>2
    <3>4. q \in Messages /\ q.stage = s
      BY <3>1 DEF Messages
    <3> HIDE DEF q
    <3> QED BY <3>3, <3>4 DEF Messages
  <2>2. halted' = halted \cup ({p} \cap Host!Bulk) /\ UNCHANGED <<job, toggle, dev>> /\ again' = FALSE
    BY <1>1, <1>5
  <2>3. HostTyped'
    BY <1>2, <2>1, <2>2 DEF HostTyped
  <2>4. JobOfMessage' /\ MovedSoFar' /\ Host!Delivered'
    BY <2>1 DEF JobOfMessage, MovedSoFar, Host!Delivered
  <2>5. OutInStep'
    BY <1>2, <2>1, <2>2 DEF OutInStep
  <2> QED BY <2>3, <2>4, <2>5 DEF HostInv
<1> QED BY <1>4, <1>5

\* usb_clear_halt and usb_lowlevel_init put box and device in step again, between messages.
LEMMA StartedAnew ==
  ASSUME HostInv, msg.stage = "idle", UNCHANGED <<msg, job, moved, again>>,
         toggle' \in [Host!Pipes -> {0, 1}], halted' \subseteq Host!Bulk,
         NEW t \in [Host!Pipes -> {0, 1}], dev' = [dev EXCEPT !.tog = t],
         "bulkOut" \notin halted' => toggle'["bulkOut"] = t["bulkOut"]
  PROVE  HostInv'
<1>1. HostTyped /\ dev \in DeviceStates
  BY DEF HostInv, HostTyped
<1>2. dev' \in DeviceStates /\ dev'.tog = t /\ dev'.total = dev.total /\ dev'.runs = dev.runs
  BY <1>1 DEF DeviceStates
<1>3. HostTyped'
  BY <1>1, <1>2 DEF HostTyped
<1>4. JobOfMessage' /\ MovedSoFar'
  BY DEF JobOfMessage, MovedSoFar
<1>5. OutInStep'
  BY <1>2 DEF OutInStep
<1>6. Host!Delivered'
  BY <1>2 DEF HostInv, Host!Delivered
<1> QED BY <1>3, <1>4, <1>5, <1>6 DEF HostInv

LEMMA HaltCleared == ASSUME HostInv, NEW p \in Host!Bulk, Host!ClearHalt(p) PROVE HostInv'
<1> DEFINE t == [dev.tog EXCEPT ![p] = 0]
<1>1. /\ msg.stage = "idle" /\ halted' = halted \ {p} /\ toggle' = [toggle EXCEPT ![p] = 0]
      /\ dev' = [dev EXCEPT !.tog[p] = 0] /\ UNCHANGED <<msg, job, moved, again>>
  BY DEF Host!ClearHalt
<1>2. /\ toggle \in [Host!Pipes -> {0, 1}] /\ dev.tog \in [Host!Pipes -> {0, 1}] /\ dev \in DeviceStates
      /\ halted \subseteq Host!Bulk /\ p \in Host!Pipes
      /\ ("bulkOut" \notin halted => toggle["bulkOut"] = dev.tog["bulkOut"])
  BY PipesAre DEF HostInv, HostTyped, DeviceStates, OutInStep
<1>3. /\ toggle' \in [Host!Pipes -> {0, 1}] /\ t \in [Host!Pipes -> {0, 1}]
      /\ halted' \subseteq Host!Bulk
      /\ "bulkOut" \notin halted' => toggle'["bulkOut"] = t["bulkOut"]
  BY <1>1, <1>2, PipesAre
<1>4. dev' = [dev EXCEPT !.tog = t]
  BY <1>1, <1>2 DEF DeviceStates
<1> HIDE DEF t
<1> QED BY <1>1, <1>3, <1>4, StartedAnew

LEMMA HostBeginsAnew == ASSUME HostInv, Host!LowlevelInit PROVE HostInv'
<1> DEFINE t == [p \in Host!Pipes |-> 0]
<1>1. /\ msg.stage = "idle" /\ halted' = {} /\ toggle' = t /\ dev' = [dev EXCEPT !.tog = t]
      /\ UNCHANGED <<msg, job, moved, again>>
  BY DEF Host!LowlevelInit
<1>2. t \in [Host!Pipes -> {0, 1}]
  OBVIOUS
<1> HIDE DEF t
<1> QED BY <1>1, <1>2, StartedAnew

LEMMA HostStays == ASSUME HostInv, UNCHANGED <<toggle, halted, msg, job, dev, moved, again>> PROVE HostInv'
BY DEF HostInv, HostTyped, JobOfMessage, OutInStep, MovedSoFar, InStep, Host!Delivered

LEMMA HostStarts == ASSUME Host!Init PROVE HostInv
<1>1. /\ toggle \in [Host!Pipes -> {0, 1}] /\ halted = {} /\ job = Host!NoJob /\ again = FALSE
      /\ toggle["bulkOut"] = 0 /\ msg = Host!NoMessage /\ moved = {}
  BY PipesAre DEF Host!Init
<1>2. msg \in Messages /\ msg.stage = "idle"
  BY <1>1, PipesAre DEF Host!NoMessage, Messages
<1>3. dev \in DeviceStates /\ dev.tog["bulkOut"] = 0 /\ dev.total = 0
  <2> DEFINE t == [p \in Host!Pipes |-> 0]
             off == FALSE
  <2>1. dev = [tog |-> t, total |-> 0, n |-> 0, ended |-> off, runs |-> 0, setup |-> off]
    BY DEF Host!Init
  <2>2. t \in [Host!Pipes -> {0, 1}] /\ t["bulkOut"] = 0 /\ off \in BOOLEAN
    BY PipesAre
  <2> HIDE DEF t, off
  <2> QED BY <2>1, <2>2 DEF DeviceStates
<1>4. HostTyped
  BY <1>1, <1>2, <1>3, NoJobIs DEF HostTyped
<1>5. JobOfMessage /\ MovedSoFar
  BY <1>2 DEF JobOfMessage, MovedSoFar
<1>6. OutInStep
  BY <1>1, <1>2, <1>3 DEF OutInStep
<1>7. Host!Delivered
  BY <1>1, <1>3 DEF Host!Delivered
<1> QED BY <1>4, <1>5, <1>6, <1>7 DEF HostInv

LEMMA HostNexts == ASSUME HostInv, Host!Next PROVE HostInv'
<1>1. CASE \E p \in Host!Pipes, n \in Lens, total \in Lens : Host!Submit(p, n, total)
  BY <1>1, Submitted
<1>2. CASE Host!Packet
  BY <1>2, NextPackets, RetriedJobs, FailedJobs, JobsReturn DEF Host!Packet
<1>3. CASE Host!NotDone
  BY <1>3, NotDoneFails
<1>4. CASE \E p \in Host!Bulk : Host!ClearHalt(p)
  BY <1>4, HaltCleared
<1>5. CASE Host!LowlevelInit
  BY <1>5, HostBeginsAnew
<1>6. CASE Host!LowlevelStop
  BY <1>6, HostStays DEF Host!LowlevelStop
<1> QED BY <1>1, <1>2, <1>3, <1>4, <1>5, <1>6 DEF Host!Next

LEMMA HostRuns == [Next]_boxVars => Host!Next \/ UNCHANGED hostVars
BY DEF Next, Runs, boxVars, usbVars

\* isp116x_submit_job and its callers: a message that succeeds has moved every byte once and to its
\* place, and the device has carried out a control request, for any sizes of packets, jobs and
\* messages, whatever was refused, lost or not answered and whatever failed before; a retry after
\* the first packet of a job is the exception that Delivered names.
THEOREM DeliversMessages == Spec => []Delivered
<1>1. Init => HostInv
  BY HostStarts DEF Init
<1>2. HostInv /\ [Next]_boxVars => HostInv'
  <2>1. UNCHANGED hostVars => UNCHANGED <<toggle, halted, msg, job, dev, moved, again>>
    BY DEF hostVars
  <2> QED BY <2>1, HostRuns, HostNexts, HostStays
<1>3. HostInv => Delivered
  BY DEF HostInv, Delivered
<1> QED BY <1>1, <1>2, <1>3, PTL DEF Spec, boxVars
=============================================================================
