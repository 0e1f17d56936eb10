-------------------------- MODULE BurnFlashProofs --------------------------
(***************************************************************************)
(* Burning an image, for any flash and any images: the loader stays whole  *)
(* outside its window, a lost one is reported, what is reported complete   *)
(* is stored, and nothing else is touched.                                 *)
(***************************************************************************)
EXTENDS BurnFlash, TLAPS

\* No sector of a range is protected, and no command on it has timed out.
Open(first, last) ==
    \A s \in protected : SectorEnd(s) < first \/ Start[s] > last
Clean(first, last) == ~failed /\ Open(first, last)

\* What an erase that has come from first to last leaves: a cell is erased, unless
\* its sector is protected or a command timed out.
ErasedTo(first, last) ==
    \A c \in first .. last : ~failed /\ SectorAt(c) \notin protected => flash[c] = Erased

\* The driver erases a range of whole sectors: those behind it are erased.
EraseInv(first, last) ==
    /\ op.kind \in {"erase", "returned"}
    /\ op.kind = "erase" =>
         /\ first <= Start[op.sect] /\ SectorEnd(op.last) = last
         /\ ErasedTo(first, Start[op.sect] - 1)
    /\ op.kind = "returned" => op.rc = 0 /\ ErasedTo(first, last)

\* The driver writes the cells d from base on, n of them, word by word, into a
\* flash that is erased from where it has come to.
WriteInv(base, n, d) ==
    /\ op.kind \in {"write", "returned"}
    /\ op.kind = "write" =>
         /\ base <= op.at /\ op.at % 2 = 0 /\ op.at + Len(op.src) = base + n
         /\ \A j \in 1 .. Len(op.src) : op.src[j] = d[op.at - base + j]
         /\ Clean(base, base + n - 1) =>
              /\ \A c \in base .. op.at - 1 : flash[c] = d[c - base + 1]
              /\ op.half = 1 => flash[op.at] = op.src[1]
              /\ \A c \in op.at + op.half .. base + n - 1 : flash[c] = Erased
    /\ op.kind = "returned" =>
         /\ op.rc = 0 /\ Clean(base, base + n - 1) =>
              \A c \in base .. base + n - 1 : flash[c] = d[c - base + 1]
         /\ op.rc # 0 /\ Open(base, base + n - 1) => failed

BootPlaces  == {"eraseBoot", "writeBoot"}
WritePlaces == BootPlaces \cup {"eraseBody", "writeBody"}

\* A protected sector is as it was delivered.
ProtectedInv == \A s \in protected : \A c \in CellsOf(s) : flash[c] = Factory[c]

\* Which image is being burnt where, and what is at risk.
PlaceInv ==
    /\ op.kind = "erase" => pc \in {"eraseBoot", "eraseBody"}
    /\ op.kind = "write" => pc \in {"writeBoot", "writeBody"}
    /\ pc \in WritePlaces => img.fault = 0
    /\ pc \in WritePlaces /\ risk # "unfit" => Fit(img)
    /\ pc \in BootPlaces => EndsInBoot /\ risk \in {"open", "unfit"}
    /\ pc \in WritePlaces =>
         /\ nbErase = IF EndsInBoot THEN BodyErase ELSE img.erase
         /\ nbData = IF EndsInBoot THEN BodyData ELSE size

RiskInv ==
    /\ Bootable
    /\ risk = "open" => pc \in BootPlaces \cup {"dead"} \/ (pc = "witherr" /\ ret = 2)

\* The loader the image brings is in its place, but for the head that is not
\* compared.
BootHeld ==
    EndsInBoot /\ ~failed /\ protected = {} =>
      \A k \in SkipLen + 1 .. BootLen : flash[BootBase + k - 1] = LoaderAt(k)

\* A proper image in the hands of the driver.
BurnInv ==
    Fit(img) =>
      /\ pc = "eraseBoot" => EraseInv(BootBase, Space - 1)
      /\ pc = "writeBoot" => WriteInv(BootBase, BootLen, LoaderData)
      /\ pc = "eraseBody" => /\ EraseInv(img.start, img.start + nbErase - 1)
                             /\ nbErase > 0 /\ BootHeld
      /\ pc = "writeBody" => /\ WriteInv(img.start, nbData, Data)
                             /\ nbErase > 0 /\ nbData > 0 /\ BootHeld

Inv == /\ TypeOK /\ ProtectedInv /\ PlaceInv /\ RiskInv /\ BurnInv
       /\ CompletedStored /\ NoSpuriousError

-----------------------------------------------------------------------------
\* The sectors lie in order and fill the flash; the loader begins with one.
LEMMA Geometry ==
    /\ Space \in Nat /\ Space % 2 = 0 /\ Len(Start) \in Sectors
    /\ FlashBase \in Nat
    /\ \A s \in Sectors :
         /\ s \in 1 .. Len(Start) /\ Start[s] \in Nat /\ SectorEnd(s) \in Nat
         /\ FlashBase <= Start[s] /\ Start[s] <= SectorEnd(s) /\ SectorEnd(s) <= Space - 1
         /\ Start[s] % 2 = 0 /\ (SectorEnd(s) + 1) % 2 = 0
         /\ s # Len(Start) => s + 1 \in Sectors /\ Start[s + 1] = SectorEnd(s) + 1
         /\ s = Len(Start) => SectorEnd(s) = Space - 1
<1>1. /\ Space \in Nat /\ Space % 2 = 0 /\ Sectors = 1 .. Len(Start) /\ Len(Start) \in Nat \ {0}
      /\ Start \in [Sectors -> Nat]
  BY FlashConstants DEF Sectors
<1>2. Len(Start) \in Sectors /\ 1 \in Sectors /\ FlashBase \in Nat
  BY <1>1 DEF FlashBase
<1>3. ASSUME NEW s \in Sectors
      PROVE  /\ Start[s] \in Nat /\ Start[s] % 2 = 0 /\ Start[s] <= SectorEnd(s)
             /\ SectorEnd(s) \in Nat /\ (SectorEnd(s) + 1) % 2 = 0
             /\ s # Len(Start) => s + 1 \in Sectors /\ Start[s + 1] = SectorEnd(s) + 1
             /\ s = Len(Start) => SectorEnd(s) = Space - 1
  <2>1. Start[s] \in Nat /\ Start[s] % 2 = 0 /\ Start[s] <= SectorEnd(s)
    BY <1>1, FlashConstants
  <2>2. CASE s = Len(Start)
    <3>1. SectorEnd(s) = Space - 1
      BY <2>2 DEF SectorEnd
    <3> QED BY <1>1, <2>1, <2>2, <3>1
  <2>3. CASE s # Len(Start)
    <3>1. SectorEnd(s) = Start[s + 1] - 1
      BY <2>3 DEF SectorEnd
    <3>2. s + 1 \in Sectors
      <4>1. s \in 1 .. Len(Start) /\ Len(Start) \in Nat
        BY <1>1
      <4>2. s + 1 \in 1 .. Len(Start)
        BY <2>3, <4>1
      <4> QED BY <1>1, <4>2
    <3>3. Start[s + 1] \in Nat /\ Start[s + 1] % 2 = 0
      BY <1>1, <3>2, FlashConstants
    <3> QED BY <2>1, <2>3, <3>1, <3>2, <3>3
  <2> QED BY <2>2, <2>3
<1>4. ASSUME NEW s \in Sectors PROVE FlashBase <= Start[s]
  <2>1. CASE s = 1
    BY <1>3, <2>1 DEF FlashBase
  <2>2. CASE s # 1
    <3>1. 1 < s
      BY <1>1, <2>2
    <3>2. SectorEnd(1) < Start[s]
      BY <1>2, <3>1, FlashConstants
    <3>3. FlashBase <= SectorEnd(1) /\ SectorEnd(1) \in Nat /\ Start[s] \in Nat
      BY <1>2, <1>3 DEF FlashBase
    <3> QED BY <1>2, <3>2, <3>3
  <2> QED BY <2>1, <2>2
<1>5. ASSUME NEW s \in Sectors PROVE SectorEnd(s) <= Space - 1
  <2>1. CASE s = Len(Start)
    <3>1. SectorEnd(s) = Space - 1 /\ Space \in Nat
      BY <1>1, <1>3, <2>1
    <3> QED BY <3>1
  <2>2. CASE s # Len(Start)
    <3>1. s < Len(Start)
      <4>1. s \in 1 .. Len(Start) /\ Len(Start) \in Nat
        BY <1>1
      <4> QED BY <2>2, <4>1
    <3>2. SectorEnd(s) < Start[Len(Start)]
      BY <1>2, <3>1, FlashConstants
    <3>3. /\ Start[Len(Start)] \in Nat /\ SectorEnd(s) \in Nat
          /\ Start[Len(Start)] <= SectorEnd(Len(Start)) /\ SectorEnd(Len(Start)) = Space - 1
      BY <1>2, <1>3
    <3> QED BY <1>1, <3>2, <3>3
  <2> QED BY <2>1, <2>2
<1> QED BY <1>1, <1>2, <1>3, <1>4, <1>5

LEMMA OneSector ==
    /\ \A s \in Sectors : CellsOf(s) \subseteq Cells
    /\ \A s, t \in Sectors, c \in Cells : c \in CellsOf(s) /\ c \in CellsOf(t) => s = t
    /\ \A c \in Cells : SectorAt(c) \in Sectors /\ c \in CellsOf(SectorAt(c))
<1>1. \A s \in Sectors : CellsOf(s) \subseteq Cells
  BY Geometry DEF CellsOf, Cells
<1>2. ASSUME NEW s \in Sectors, NEW t \in Sectors, NEW c \in Cells,
             c \in CellsOf(s), c \in CellsOf(t)
      PROVE  s = t
  <2>1. s < t => SectorEnd(s) < Start[t]
    BY FlashConstants
  <2>2. t < s => SectorEnd(t) < Start[s]
    BY FlashConstants
  <2>3. /\ s \in Nat /\ t \in Nat /\ c \in Int
        /\ Start[s] <= c /\ c <= SectorEnd(s) /\ Start[t] <= c /\ c <= SectorEnd(t)
        /\ Start[s] \in Nat /\ SectorEnd(s) \in Nat /\ Start[t] \in Nat /\ SectorEnd(t) \in Nat
    BY <1>2, Geometry DEF CellsOf
  <2> QED BY <2>1, <2>2, <2>3
<1>3. \A c \in Cells : SectorAt(c) \in Sectors /\ c \in CellsOf(SectorAt(c))
  <2>1. \A c \in Cells : \E s \in Sectors : c \in CellsOf(s)
    BY FlashConstants
  <2> QED BY <2>1 DEF SectorAt
<1> QED BY <1>1, <1>2, <1>3

LEMMA Boot ==
    /\ BootBase \in Cells /\ BootBase \in Nat /\ BootLen \in Nat \ {0}
    /\ BootBase % 2 = 0 /\ BootBase >= FlashBase + 2 /\ BootBase + BootLen = Space
    /\ \E k \in Sectors : Start[k] = BootBase
<1>1. PICK k \in Sectors : Start[k] = BootBase
  BY BurnConstants
<1>2. /\ BootBase \in Nat /\ BootBase % 2 = 0 /\ BootBase <= SectorEnd(k)
      /\ SectorEnd(k) \in Nat /\ SectorEnd(k) <= Space - 1 /\ Space \in Nat
      /\ FlashBase \in Nat
  BY <1>1, Geometry
<1>3. FlashBase < BootBase
  BY BurnConstants
<1>4. FlashBase % 2 = 0
  <2>1. 1 \in Sectors
    BY FlashConstants DEF Sectors
  <2> QED BY <2>1, Geometry DEF FlashBase
<1> QED BY <1>1, <1>2, <1>3, <1>4 DEF BootLen, Cells

-----------------------------------------------------------------------------
\* The driver call in progress.
LEMMA EraseType ==
    ASSUME FlashTypeOK, op.kind = "erase"
    PROVE  op.sect \in Sectors /\ op.last \in Sectors /\ op.sect <= op.last
BY DEF FlashTypeOK

LEMMA WriteType ==
    ASSUME FlashTypeOK, op.kind = "write"
    PROVE  /\ op \in [kind : {"write"}, at : Cells, src : Seq(Cell), half : 0 .. 1]
           /\ op.at \in Cells /\ op.src \in Seq(Cell) /\ op.half \in 0 .. 1
           /\ Len(op.src) \in 1 .. Space - op.at
BY DEF FlashTypeOK

LEMMA FlashType ==
    ASSUME FlashTypeOK
    PROVE  /\ flash \in [Cells -> Cell] /\ failed \in BOOLEAN /\ protected \in Protections
           /\ protected \subseteq Sectors /\ Cells \subseteq Nat
<1>1. protected \subseteq Sectors
  BY FlashConstants DEF FlashTypeOK
<1>2. Cells \subseteq Nat
  BY Geometry DEF Cells
<1> QED BY <1>1, <1>2 DEF FlashTypeOK

\* The word at hand: two cells of the flash, of which the data has one or two.
LEMMA WordType ==
    ASSUME FlashTypeOK, op.kind = "write"
    PROVE  /\ WordAt \in Cells /\ WordAt + 1 \in Cells /\ WordAt + op.half \in Cells
           /\ WordAt % 2 = 0 /\ op.at \in {WordAt, WordAt + 1}
           /\ Taken \in {1, 2} /\ Taken <= Len(op.src)
           /\ op.at % 2 = 0 => WordAt = op.at
           /\ Word[1] \in Cell /\ Word[2] \in Cell /\ Word[op.half + 1] \in Cell
<1>1. /\ op.at \in Cells /\ op.src \in Seq(Cell) /\ op.half \in 0 .. 1
      /\ Len(op.src) \in 1 .. Space - op.at /\ Len(op.src) \in Nat
      /\ flash \in [Cells -> Cell]
  BY WriteType DEF FlashTypeOK
<1>2. /\ FlashBase \in Nat /\ FlashBase % 2 = 0 /\ Space \in Nat /\ Space % 2 = 0
  <2>1. 1 \in Sectors
    BY FlashConstants DEF Sectors
  <2> QED BY <2>1, Geometry DEF FlashBase
<1>3. op.at \in Nat /\ FlashBase <= op.at /\ op.at <= Space - 1
  BY <1>1, <1>2 DEF Cells
<1>4. /\ op.at % 2 = 1 => op.at - 1 \in Cells /\ (op.at - 1) % 2 = 0
      /\ op.at % 2 # 1 => op.at + 1 \in Cells /\ op.at % 2 = 0
  BY <1>2, <1>3 DEF Cells
<1>5. /\ WordAt \in Cells /\ WordAt + 1 \in Cells /\ WordAt % 2 = 0
      /\ op.at \in {WordAt, WordAt + 1} /\ (op.at % 2 = 0 => WordAt = op.at)
  BY <1>1, <1>3, <1>4 DEF WordAt, Unaligned
<1>6. Taken \in {1, 2} /\ Taken <= Len(op.src)
  <2>1. Len(op.src) >= 1
    BY <1>1, <1>2, <1>3
  <2>2. Taken = 1 \/ (Taken = 2 /\ Len(op.src) # 1)
    BY DEF Taken
  <2>3. Len(op.src) \in Nat
    BY <1>1
  <2>4. \A n \in Nat, t \in {1, 2} : n >= 1 /\ (t = 1 \/ n # 1) => t <= n
    OBVIOUS
  <2>5. Taken <= Len(op.src)
    BY <2>1, <2>2, <2>3, <2>4
  <2> QED BY <2>2, <2>5
<1>7. op.src[1] \in Cell /\ (Taken = 2 => op.src[2] \in Cell)
  BY <1>1, <1>6
<1>8. Word[1] \in Cell /\ Word[2] \in Cell
  <2>1. CASE Unaligned
    <3>1. Word = <<flash[op.at - 1], op.src[1]>>
      BY <2>1 DEF Word
    <3> QED BY <1>1, <1>4, <1>7, <2>1, <3>1 DEF Unaligned
  <2>2. CASE ~Unaligned /\ Taken = 1
    <3>1. Word = <<op.src[1], flash[op.at + 1]>>
      BY <2>2 DEF Word
    <3> QED BY <1>1, <1>4, <1>7, <2>2, <3>1 DEF Unaligned
  <2>3. CASE ~Unaligned /\ Taken # 1
    <3>1. Word = <<op.src[1], op.src[2]>>
      BY <2>3 DEF Word
    <3> QED BY <1>6, <1>7, <2>3, <3>1
  <2> QED BY <2>1, <2>2, <2>3
<1>9. (op.half = 0 \/ op.half = 1) /\ WordAt + 0 = WordAt
  BY <1>1, <1>5, <1>3 DEF Cells
<1> QED BY <1>5, <1>6, <1>8, <1>9

\* What a command may change, also one that is cut short by a loss of power.
Touchable ==
    IF op.kind = "erase" THEN CellsOf(op.sect)
    ELSE IF op.kind = "write" THEN {WordAt, WordAt + 1} ELSE {}

Touches(new) ==
    /\ new \in [Cells -> Cell]
    /\ \A c \in Cells : new[c] # flash[c] => c \in Touchable /\ SectorAt(c) \notin protected

LEMMA EraseTouches ==
    ASSUME FlashTypeOK, op.kind = "erase", op.sect \notin protected, NEW v \in [CellsOf(op.sect) -> Cell]
    PROVE  Touches([c \in Cells |-> IF c \in CellsOf(op.sect) THEN v[c] ELSE flash[c]])
<1> DEFINE new == [c \in Cells |-> IF c \in CellsOf(op.sect) THEN v[c] ELSE flash[c]]
<1>1. new \in [Cells -> Cell]
  BY DEF FlashTypeOK
<1>2. ASSUME NEW c \in Cells, new[c] # flash[c] PROVE c \in Touchable /\ SectorAt(c) \notin protected
  <2>1. c \in CellsOf(op.sect)
    BY <1>2
  <2>2. SectorAt(c) = op.sect
    BY <2>1, OneSector, EraseType
  <2> QED BY <2>1, <2>2 DEF Touchable
<1> QED BY <1>1, <1>2 DEF Touches

LEMMA ProgramTouches ==
    ASSUME FlashTypeOK, op.kind = "write", NEW v \in Cell,
           SectorAt(WordAt + op.half) \in protected => v = flash[WordAt + op.half]
    PROVE  Touches([flash EXCEPT ![WordAt + op.half] = v])
<1>1. WordAt + op.half \in Cells /\ WordAt + op.half \in {WordAt, WordAt + 1}
  <2>1. op.half \in {0, 1} /\ WordAt \in Nat
    BY WriteType, WordType, FlashType
  <2> QED BY <2>1, WordType
<1>2. flash \in [Cells -> Cell]
  BY DEF FlashTypeOK
<1> QED BY <1>1, <1>2 DEF Touches, Touchable

LEMMA StepTouches ==
    ASSUME FlashTypeOK, FlashStep PROVE Touches(flash')
<1>1. CASE EraseSector
  <2>1. CASE UNCHANGED flash
    BY <2>1 DEF Touches, FlashTypeOK
  <2>2. CASE /\ op.sect \notin protected
             /\ flash' = [c \in Cells |-> IF c \in CellsOf(op.sect) THEN Erased ELSE flash[c]]
    <3> DEFINE v == [c \in CellsOf(op.sect) |-> Erased]
    <3>1. v \in [CellsOf(op.sect) -> Cell]
      BY DEF Cell, Erased
    <3>2. flash' = [c \in Cells |-> IF c \in CellsOf(op.sect) THEN v[c] ELSE flash[c]]
      BY <2>2
    <3> HIDE DEF v
    <3> QED BY <1>1, <2>2, <3>1, <3>2, EraseTouches DEF EraseSector
  <2>3. CASE op.sect \notin protected /\ flash' \in Torn(op.sect)
    <3>1. PICK v \in [CellsOf(op.sect) -> TornCells] :
            flash' = [c \in Cells |-> IF c \in CellsOf(op.sect) THEN v[c] ELSE flash[c]]
      BY <2>3 DEF Torn
    <3>2. v \in [CellsOf(op.sect) -> Cell]
      BY FlashConstants
    <3> QED BY <1>1, <2>3, <3>1, <3>2, EraseTouches DEF EraseSector
  <2> QED BY <1>1, <2>1, <2>2, <2>3 DEF EraseSector
<1>2. CASE NotErased
  BY <1>2 DEF NotErased, Touches, FlashTypeOK
<1>3. CASE Program
  <2>1. PICK v \in Cell :
          /\ \/ SectorAt(WordAt + op.half) \in protected /\ v = flash[WordAt + op.half]
             \/ SectorAt(WordAt + op.half) \notin protected
          /\ flash' = [flash EXCEPT ![WordAt + op.half] = v]
    BY <1>3 DEF Program
  <2> QED BY <1>3, <2>1, ProgramTouches DEF Program
<1> QED BY <1>1, <1>2, <1>3 DEF FlashStep

LEMMA PowerTouches ==
    ASSUME FlashTypeOK, NEW new \in AfterPowerLoss PROVE Touches(new)
<1>1. CASE new = flash
  BY <1>1 DEF Touches, FlashTypeOK
<1>2. CASE op.kind = "erase" /\ op.sect \notin protected /\ new \in Torn(op.sect)
  <2>1. PICK v \in [CellsOf(op.sect) -> TornCells] :
          new = [c \in Cells |-> IF c \in CellsOf(op.sect) THEN v[c] ELSE flash[c]]
    BY <1>2 DEF Torn
  <2>2. v \in [CellsOf(op.sect) -> Cell]
    BY FlashConstants
  <2> QED BY <1>2, <2>1, <2>2, EraseTouches
<1>3. CASE /\ op.kind = "write" /\ SectorAt(WordAt + op.half) \notin protected
           /\ new \in { [flash EXCEPT ![WordAt + op.half] = v] :
                         v \in Partly(flash[WordAt + op.half], Word[op.half + 1]) }
  <2>1. PICK v \in Cell : new = [flash EXCEPT ![WordAt + op.half] = v]
    BY <1>3 DEF Partly
  <2> QED BY <1>3, <2>1, ProgramTouches
<1> QED BY <1>1, <1>2, <1>3 DEF AfterPowerLoss

-----------------------------------------------------------------------------
\* What the driver is asked for, and its steps, keep its types.
LEMMA WrapType ==
    ASSUME NEW x \in Int, x >= -Space, x < 2 * Space
    PROVE  Wrap(x) \in 0 .. Space - 1
BY Geometry DEF Wrap

OpType(o) ==
    \/ o \in [kind : {"returned"}, rc : 0 .. 2]
    \/ o \in [kind : {"erase"}, sect : Sectors, last : Sectors] /\ o.sect <= o.last
    \/ /\ o \in [kind : {"write"}, at : Cells, src : Seq(Cell), half : 0 .. 1]
       /\ Len(o.src) \in 1 .. Space - o.at

LEMMA ReturnedType == ASSUME NEW rc \in 0 .. 2 PROVE OpType(Returned(rc))
BY DEF OpType, Returned

LEMMA CallEraseType ==
    ASSUME NEW first, NEW last, CallErase(first, last)
    PROVE  /\ OpType(op') /\ op'.kind \in {"erase", "returned"}
<1>1. CASE \E s, t \in Sectors : s <= t /\ op' = EraseOp(s, t)
  BY <1>1 DEF EraseOp, OpType
<1>2. CASE op' = Returned(1)
  BY <1>2, ReturnedType DEF Returned
<1> QED BY <1>1, <1>2 DEF CallErase

LEMMA CallWriteType ==
    ASSUME NEW addr \in Nat, NEW cnt \in Nat, NEW src \in [1 .. Space -> Cell], cnt <= Space,
           CallWrite(addr, cnt, src)
    PROVE  OpType(op') /\ op'.kind \in {"write", "returned"}
<1> DEFINE room == Space - addr
           n == IF cnt < room THEN cnt ELSE room
           cells == [i \in 1 .. n |-> src[i]]
<1>1. op' \in {Returned(0), Returned(1)} \/ (addr \in Cells /\ cnt # 0 /\ op' = WriteOp(addr, cells, 0))
  BY DEF CallWrite
<1>2. CASE op' \in {Returned(0), Returned(1)}
  BY <1>2, ReturnedType DEF Returned
<1>3. CASE addr \in Cells /\ cnt # 0 /\ op' = WriteOp(addr, cells, 0)
  <2>1. room \in 1 .. Space /\ Space \in Nat
    BY <1>3, Geometry DEF Cells
  <2>2. n \in 1 .. Space - addr /\ n \in Nat /\ n <= Space
    BY <1>3, <2>1
  <2> HIDE DEF n
  <2>3. cells \in Seq(Cell) /\ Len(cells) = n
    <3>1. \A i \in 1 .. n : src[i] \in Cell
      BY <2>1, <2>2
    <3> QED BY <2>2, <3>1
  <2> HIDE DEF cells
  <2> QED BY <1>3, <2>2, <2>3 DEF OpType, WriteOp
<1> QED BY <1>1, <1>2, <1>3

LEMMA StepType ==
    ASSUME FlashTypeOK, FlashStep
    PROVE  /\ FlashTypeOK' /\ protected' = protected
           /\ op.kind \in {"erase", "write"} /\ op'.kind \in {op.kind, "returned"}
<1>1. flash' \in [Cells -> Cell]
  BY StepTouches DEF Touches
<1>2. protected' = protected /\ failed' \in BOOLEAN
  BY FlashType DEF FlashStep, EraseSector, NotErased, Program
<1>3. CASE EraseSector
  <2>1. op.sect \in Sectors /\ op.last \in Sectors /\ op.sect <= op.last /\ op.kind = "erase"
    BY <1>3, EraseType DEF EraseSector
  <2>2. OpType(op') /\ op'.kind \in {"erase", "returned"}
    <3>1. CASE op.sect = op.last
      BY <1>3, <3>1, ReturnedType DEF EraseSector, EraseEnd, Returned
    <3>2. CASE op.sect # op.last
      <4>1. /\ op.sect \in 1 .. Len(Start) /\ op.last \in 1 .. Len(Start) /\ Len(Start) \in Nat
            /\ Sectors = 1 .. Len(Start)
        <5>1. Sectors = 1 .. Len(Start) /\ Len(Start) \in Nat
          BY FlashConstants DEF Sectors
        <5> QED BY <2>1, <5>1
      <4>2. op.sect + 1 \in Sectors /\ op.sect + 1 <= op.last
        BY <2>1, <3>2, <4>1
      <4>3. op' = EraseOp(op.sect + 1, op.last)
        BY <1>3, <3>2 DEF EraseSector, EraseEnd
      <4> QED BY <2>1, <4>2, <4>3 DEF EraseOp, OpType
    <3> QED BY <3>1, <3>2
  <2> QED BY <1>1, <1>2, <2>1, <2>2 DEF FlashTypeOK, OpType
<1>4. CASE NotErased
  <2>1. OpType(op') /\ op'.kind = "returned"
    BY <1>4, ReturnedType DEF NotErased, Returned
  <2> QED BY <1>1, <1>2, <1>4, <2>1 DEF FlashTypeOK, OpType, NotErased
<1>5. CASE Program
  <2>1. op.kind = "write"
    BY <1>5 DEF Program
  <2>2. \/ op' = Returned(1)
        \/ op' = [op EXCEPT !.half = 1]
        \/ op' = WriteEnd
    BY <1>5 DEF Program
  <2>3. CASE op' = Returned(1)
    BY <2>1, <2>3, <1>1, <1>2, ReturnedType DEF FlashTypeOK, OpType, Returned
  <2>4. CASE op' = [op EXCEPT !.half = 1]
    BY <2>1, <2>4, <1>1, <1>2, WriteType DEF FlashTypeOK
  <2>5. CASE op' = WriteEnd
    <3>1. CASE Taken = Len(op.src)
      BY <2>1, <2>5, <3>1, <1>1, <1>2, ReturnedType DEF FlashTypeOK, OpType, Returned, WriteEnd
    <3>2. CASE Taken # Len(op.src)
      <4>1. /\ op.at \in Cells /\ op.src \in Seq(Cell) /\ Len(op.src) \in Nat
            /\ Len(op.src) <= Space - op.at /\ Taken \in {1, 2} /\ Taken < Len(op.src)
            /\ Space \in Nat /\ op.at \in Nat /\ FlashBase \in Nat
        BY <2>1, <3>2, WriteType, WordType, Geometry, FlashType
      <4>2. op.at + Taken \in Cells
        BY <4>1 DEF Cells
      <4>3. /\ SubSeq(op.src, Taken + 1, Len(op.src)) \in Seq(Cell)
            /\ Len(SubSeq(op.src, Taken + 1, Len(op.src))) = Len(op.src) - Taken
        BY <4>1
      <4>4. OpType(op') /\ op'.kind = "write"
        BY <2>5, <3>2, <4>1, <4>2, <4>3 DEF WriteEnd, WriteOp, OpType
      <4> QED BY <1>1, <1>2, <2>1, <4>4 DEF FlashTypeOK, OpType
    <3> QED BY <3>1, <3>2
  <2> QED BY <2>2, <2>3, <2>4, <2>5
<1> QED BY <1>3, <1>4, <1>5 DEF FlashStep

-----------------------------------------------------------------------------
\* Erasing and writing on a range that is open, with no command timing out.
LEMMA OpenCell ==
    ASSUME FlashTypeOK, NEW first \in Nat, NEW last \in Nat, Open(first, last),
           NEW c \in Cells, first <= c, c <= last
    PROVE  SectorAt(c) \notin protected
<1> SUFFICES ASSUME SectorAt(c) \in protected PROVE FALSE
  OBVIOUS
<1>1. SectorEnd(SectorAt(c)) < first \/ Start[SectorAt(c)] > last
  BY DEF Open
<1>2. Start[SectorAt(c)] <= c /\ c <= SectorEnd(SectorAt(c)) /\ c \in Nat
  BY OneSector, FlashType DEF CellsOf
<1>3. Start[SectorAt(c)] \in Nat /\ SectorEnd(SectorAt(c)) \in Nat
  BY OneSector, Geometry
<1> QED BY <1>1, <1>2, <1>3

LEMMA StepFailed ==
    ASSUME FlashTypeOK, FlashStep, NEW first, NEW last
    PROVE  /\ Open(first, last)' <=> Open(first, last)
           /\ Clean(first, last)' => Clean(first, last)
<1>1. protected' = protected /\ (failed' = failed \/ failed' = TRUE)
  BY StepType DEF FlashStep, EraseSector, NotErased, Program
<1> QED BY <1>1 DEF Open, Clean

LEMMA EraseStep ==
    ASSUME FlashTypeOK, FlashStep, NEW first \in Cells, NEW last \in Cells,
           EraseInv(first, last), op.kind = "erase"
    PROVE  EraseInv(first, last)'
<1>1. /\ op.sect \in Sectors /\ op.last \in Sectors /\ op.sect <= op.last
      /\ first <= Start[op.sect] /\ SectorEnd(op.last) = last
      /\ first \in Nat /\ last \in Nat /\ FlashBase <= first /\ last <= Space - 1
  BY EraseType, FlashType DEF EraseInv, Cells
<1>2. /\ Start[op.sect] \in Nat /\ SectorEnd(op.sect) \in Nat /\ Start[op.sect] <= SectorEnd(op.sect)
      /\ op.sect # Len(Start) => op.sect + 1 \in Sectors /\ Start[op.sect + 1] = SectorEnd(op.sect) + 1
      /\ op.sect \in Nat /\ op.last \in Nat /\ Space \in Nat /\ FlashBase \in Nat
      /\ op.last \in 1 .. Len(Start) /\ op.sect \in 1 .. Len(Start) /\ Len(Start) \in Nat
  <2>1. op.last \in 1 .. Len(Start) /\ op.sect \in 1 .. Len(Start)
    BY <1>1, Geometry
  <2>2. Len(Start) \in Nat
    BY FlashConstants
  <2>3. op.sect \in Nat /\ op.last \in Nat
    BY <2>1
  <2>4. /\ Start[op.sect] \in Nat /\ SectorEnd(op.sect) \in Nat /\ Start[op.sect] <= SectorEnd(op.sect)
        /\ op.sect # Len(Start) => op.sect + 1 \in Sectors /\ Start[op.sect + 1] = SectorEnd(op.sect) + 1
    BY <1>1, Geometry
  <2> QED BY <2>1, <2>2, <2>3, <2>4, Geometry
<1>3. SectorEnd(op.sect) <= last
  <2>1. CASE op.sect = op.last
    BY <1>1, <1>2, <2>1
  <2>2. CASE op.sect # op.last
    <3>1. op.sect < op.last
      BY <1>1, <1>2, <2>2
    <3>2. SectorEnd(op.sect) < Start[op.last]
      BY <1>1, <3>1, FlashConstants
    <3>3. Start[op.last] <= SectorEnd(op.last) /\ Start[op.last] \in Nat
      BY <1>1, Geometry
    <3> QED BY <1>1, <1>2, <3>2, <3>3
  <2> QED BY <2>1, <2>2
<1>4. EraseSector
  BY DEF FlashStep, NotErased, Program
<1>5. PICK end \in Nat : end = SectorEnd(op.sect)
  BY <1>2
<1>6. ErasedTo(first, end)'
  <2> SUFFICES ASSUME NEW c \in first .. end, ~failed', SectorAt(c) \notin protected'
               PROVE  flash'[c] = Erased
    BY DEF ErasedTo
  <2>1. failed = FALSE /\ failed' = FALSE /\ SectorAt(c) \notin protected
    BY <1>4, FlashType DEF EraseSector
  <2>2. c \in Cells /\ c \in Nat
    BY <1>1, <1>2, <1>3, <1>5 DEF Cells
  <2>3. CASE c \in CellsOf(op.sect)
    <3>1. SectorAt(c) = op.sect
      BY <1>1, <2>2, <2>3, OneSector
    <3>2. flash' = [x \in Cells |-> IF x \in CellsOf(op.sect) THEN Erased ELSE flash[x]]
      BY <1>4, <2>1, <3>1 DEF EraseSector
    <3> QED BY <2>2, <2>3, <3>2
  <2>4. CASE c \notin CellsOf(op.sect)
    <3>1. c \in first .. Start[op.sect] - 1
      BY <1>1, <1>2, <1>5, <2>2, <2>4 DEF CellsOf
    <3>2. flash[c] = Erased
      BY <2>1, <3>1 DEF EraseInv, ErasedTo
    <3>3. flash'[c] = flash[c]
      BY <2>2, <2>4, StepTouches DEF Touches, Touchable
    <3> QED BY <3>2, <3>3
  <2> QED BY <2>3, <2>4
<1>7. CASE op.sect = op.last
  <2>1. op' = [kind |-> "returned", rc |-> 0]
    BY <1>4, <1>7 DEF EraseSector, EraseEnd, Returned
  <2>2. end = last
    BY <1>1, <1>7, <1>5
  <2> QED BY <1>6, <2>1, <2>2 DEF EraseInv
<1>8. CASE op.sect # op.last
  <2>1. op' = [kind |-> "erase", sect |-> op.sect + 1, last |-> op.last]
    BY <1>4, <1>8 DEF EraseSector, EraseEnd, EraseOp
  <2>2. op.sect + 1 \in Sectors /\ Start[op.sect + 1] = SectorEnd(op.sect) + 1
    <3>1. op.sect # Len(Start)
      BY <1>1, <1>2, <1>8
    <3> QED BY <1>2, <3>1
  <2>3. first <= Start[op'.sect] /\ Start[op'.sect] - 1 = end
    BY <1>1, <1>2, <1>5, <2>1, <2>2
  <2>4. ErasedTo(first, Start[op.sect] - 1)'
    BY <1>6, <2>3 DEF ErasedTo
  <2> QED BY <1>1, <2>1, <2>3, <2>4 DEF EraseInv
<1> QED BY <1>7, <1>8

\* The word at hand, when the write has come to an even cell of its range.
LEMMA EvenWord ==
    ASSUME FlashTypeOK, op.kind = "write", op.at % 2 = 0
    PROVE  /\ WordAt = op.at /\ op.at + 1 \in Cells
           /\ Taken = IF Len(op.src) = 1 THEN 1 ELSE 2
           /\ Word[1] = op.src[1]
           /\ Word[2] = IF Taken = 1 THEN flash[op.at + 1] ELSE op.src[2]
<1>1. ~Unaligned
  <2>1. op.at \in Nat
    BY WriteType, FlashType
  <2> QED BY <2>1 DEF Unaligned
<1>2. WordAt = op.at /\ Taken = IF Len(op.src) = 1 THEN 1 ELSE 2
  BY <1>1 DEF WordAt, Taken
<1>3. op.at + 1 \in Cells
  BY <1>2, WordType
<1>4. CASE Taken = 1
  <2>1. Word = <<op.src[1], flash[op.at + 1]>>
    BY <1>1, <1>4 DEF Word
  <2> QED BY <1>2, <1>3, <1>4, <2>1
<1>5. CASE Taken # 1
  <2>1. Word = <<op.src[1], op.src[2]>>
    BY <1>1, <1>5 DEF Word
  <2> QED BY <1>2, <1>3, <1>5, <2>1
<1> QED BY <1>4, <1>5

\* On a clean range a cell holds what it was programmed with.
LEMMA ProgramStep ==
    ASSUME FlashTypeOK, Program, NEW base \in Cells, NEW n \in Nat, base + n - 1 \in Cells, NEW d,
           WriteInv(base, n, d)
    PROVE  \E v \in Cell :
             /\ flash' = [flash EXCEPT ![op.at + op.half] = v]
             /\ op' = CASE (D7 \in v) # (D7 \in Word[op.half + 1]) -> Returned(1)
                        [] (D7 \in v) = (D7 \in Word[op.half + 1]) /\ op.half = 0
                                                      -> [op EXCEPT !.half = 1]
                        [] OTHER                      -> WriteEnd
             /\ Clean(base, base + n - 1)' => v = Word[op.half + 1]
             /\ Open(base, base + n - 1) /\ ~failed' => v = Word[op.half + 1]
<1>1. /\ op.kind = "write" /\ op.at % 2 = 0 /\ base <= op.at /\ op.at + Len(op.src) = base + n
  BY DEF Program, WriteInv
<1>2. /\ op.at \in Nat /\ op.half \in {0, 1} /\ Len(op.src) \in Nat /\ Len(op.src) >= 1 /\ base \in Nat
  <2>1. Len(op.src) \in 1 .. Space - op.at /\ op.src \in Seq(Cell) /\ op.at \in Nat /\ Space \in Nat
    BY <1>1, WriteType, FlashType, Geometry
  <2> QED BY <1>1, <2>1, WriteType, FlashType
<1>3. WordAt = op.at /\ op.at + op.half \in Cells /\ Word[op.half + 1] \in Cell
  BY <1>1, EvenWord, WordType
<1> DEFINE c == op.at + op.half
           data == Word[op.half + 1]
<1>4. PICK v \in Cell :
        /\ \/ SectorAt(c) \in protected /\ v = flash[c] /\ UNCHANGED failed
           \/ SectorAt(c) \notin protected /\ v = flash[c] \cap data /\ UNCHANGED failed
           \/ SectorAt(c) \notin protected /\ failed' = TRUE
        /\ flash' = [flash EXCEPT ![c] = v]
        /\ op' = CASE (D7 \in v) # (D7 \in data) -> Returned(1)
                   [] (D7 \in v) = (D7 \in data) /\ op.half = 0
                                                 -> [op EXCEPT !.half = 1]
                   [] OTHER                      -> WriteEnd
  BY <1>3 DEF Program
<1>5. ASSUME Open(base, base + n - 1), ~failed' PROVE v = data
  <2>1. ~failed /\ Clean(base, base + n - 1)
    BY <1>5, <1>4 DEF Clean
  <2>2. CASE c <= base + n - 1
    <3>1. base <= c /\ base + n - 1 \in Nat /\ c \in Nat
      BY <1>1, <1>2, <2>2
    <3>2. SectorAt(c) \notin protected
      BY <1>3, <1>5, <2>2, <3>1, OpenCell, <1>2
    <3>3. c \in op.at + op.half .. base + n - 1
      BY <2>2, <3>1
    <3>4. flash[c] = Erased
      BY <1>1, <2>1, <3>3 DEF WriteInv
    <3> QED BY <1>3, <1>4, <1>5, <3>2, <3>4 DEF Erased, Cell
  <2>3. CASE c > base + n - 1
    <3>1. op.half = 1 /\ Len(op.src) = 1
      <4>1. \A a, m, h, len \in Int :
              len >= 1 /\ h \in {0, 1} /\ a + len = m /\ a + h > m - 1 => h = 1 /\ len = 1
        OBVIOUS
      <4>2. /\ op.at \in Int /\ base + n \in Int /\ op.half \in Int /\ Len(op.src) \in Int
            /\ base + n - 1 = (base + n) - 1
        BY <1>2
      <4>3. op.at + op.half > (base + n) - 1
        BY <2>3, <4>2
      <4> HIDE DEF c
      <4> QED BY <1>1, <1>2, <4>1, <4>2, <4>3
    <3>2. data = flash[c]
      BY <1>1, <3>1, EvenWord
    <3> QED BY <1>4, <1>5, <3>2
  <2>4. c \in Nat /\ base + n - 1 \in Int
    BY <1>2
  <2> QED BY <2>2, <2>3, <2>4
<1>6. Clean(base, base + n - 1)' => Open(base, base + n - 1) /\ ~failed'
  <2>1. FlashStep
    BY DEF FlashStep
  <2> QED BY <2>1, StepFailed DEF Clean
<1> QED BY <1>4, <1>5, <1>6

LEMMA WriteStep ==
    ASSUME FlashTypeOK, FlashStep, NEW base \in Cells, NEW n \in Nat, base + n - 1 \in Cells, NEW d,
           WriteInv(base, n, d), op.kind = "write"
    PROVE  WriteInv(base, n, d)'
<1> DEFINE last == base + n - 1
           len  == Len(op.src)
<1>1. /\ base <= op.at /\ op.at % 2 = 0 /\ op.at + Len(op.src) = base + n
      /\ \A j \in 1 .. Len(op.src) : op.src[j] = d[op.at - base + j]
  BY DEF WriteInv
<1>2. /\ op.at \in Nat /\ op.half \in {0, 1} /\ Len(op.src) \in Nat /\ Len(op.src) >= 1 /\ base \in Nat
      /\ op.at \in Cells /\ op.at + 1 \in Cells /\ flash \in [Cells -> Cell] /\ op.src \in Seq(Cell)
  <2>1. /\ Len(op.src) \in 1 .. Space - op.at /\ op.src \in Seq(Cell) /\ op.at \in Nat /\ Space \in Nat
        /\ base \in Nat
    BY WriteType, FlashType, Geometry
  <2>2. Len(op.src) \in Nat /\ Len(op.src) >= 1
    BY <2>1
  <2> QED BY <1>1, <2>1, <2>2, WriteType, FlashType, EvenWord
<1>7. /\ len \in Nat /\ len >= 1 /\ op.at + len = base + n /\ op.at \in Nat /\ base \in Nat
      /\ base <= op.at /\ op.at % 2 = 0
  BY <1>1, <1>2
<1>8. base .. op.at - 1 \subseteq Cells /\ op.at + 1 .. last \subseteq Cells /\ last \in Cells
  <2>1. FlashBase \in Nat /\ Space \in Nat
    BY Geometry
  <2>2. FlashBase <= base /\ last <= Space - 1 /\ op.at <= Space - 1
    BY <1>2, <2>1 DEF Cells
  <2> QED BY <1>7, <2>1, <2>2 DEF Cells
<1>9. len = Len(op.src)
  OBVIOUS
<1> HIDE DEF len
<1>3. Clean(base, last)' => Clean(base, last)
  BY StepFailed
<1>4. Open(base, last)' <=> Open(base, last)
  BY StepFailed
<1>5. CASE NotErased
  <2>1. op' = [kind |-> "returned", rc |-> 2] /\ UNCHANGED <<flash, failed>> /\ op.half = 0
    BY <1>5 DEF NotErased, Returned
  <2>2. ~Clean(base, last)
    <3> SUFFICES ASSUME Clean(base, last) PROVE FALSE
      OBVIOUS
    <3>1. op.at \in op.at + op.half .. last
      <4>1. \A a, b, m, k \in Nat : a + k = b + m /\ k >= 1 => a \in a .. b + m - 1
        OBVIOUS
      <4> QED BY <1>1, <1>2, <2>1, <4>1
    <3>2. flash[op.at] = Erased
      BY <3>1 DEF WriteInv
    <3>3. WordAt = op.at /\ Word[2] \in Cell
      BY <1>1, EvenWord, WordType
    <3> QED BY <1>5, <3>2, <3>3 DEF NotErased, LooksErased, Erased, Cell
  <2> QED BY <1>4, <2>1, <2>2 DEF WriteInv, Clean
<1>6. CASE Program
  <2>1. PICK v \in Cell :
          /\ flash' = [flash EXCEPT ![op.at + op.half] = v]
          /\ op' = CASE (D7 \in v) # (D7 \in Word[op.half + 1]) -> Returned(1)
                     [] (D7 \in v) = (D7 \in Word[op.half + 1]) /\ op.half = 0
                                                   -> [op EXCEPT !.half = 1]
                     [] OTHER                      -> WriteEnd
          /\ Clean(base, last)' => v = Word[op.half + 1]
          /\ Open(base, last) /\ ~failed' => v = Word[op.half + 1]
    BY <1>6, ProgramStep
  <2>2. CASE (D7 \in v) # (D7 \in Word[op.half + 1])
    <3>1. op' = [kind |-> "returned", rc |-> 1]
      BY <2>1, <2>2 DEF Returned
    <3>2. Open(base, last)' => failed'
      BY <1>4, <2>1, <2>2, StepType DEF FlashTypeOK
    <3> QED BY <3>1, <3>2 DEF WriteInv
  <2>3. CASE (D7 \in v) = (D7 \in Word[op.half + 1]) /\ op.half = 0
    <3>1. op' = [op EXCEPT !.half = 1]
      BY <2>1, <2>3
    <3>2. /\ op'.kind = "write" /\ op'.at = op.at /\ op'.src = op.src /\ op'.half = 1
      BY <3>1, WriteType
    <3>3. ASSUME Clean(base, last)'
          PROVE  /\ flash'[op.at] = op.src[1]
                 /\ \A c \in base .. op.at - 1 : flash'[c] = d[c - base + 1]
                 /\ \A c \in op.at + 1 .. last : flash'[c] = Erased
      <4>1. flash'[op.at] = op.src[1] /\ \A c \in Cells : c # op.at => flash'[c] = flash[c]
        BY <1>1, <1>2, <2>1, <2>3, <3>3, EvenWord
      <4>2. /\ \A c \in base .. op.at - 1 : flash[c] = d[c - base + 1]
            /\ \A c \in op.at .. last : flash[c] = Erased
        BY <1>2, <1>3, <2>3, <3>3 DEF WriteInv
      <4>3. base .. op.at - 1 \subseteq Cells /\ op.at + 1 .. last \subseteq Cells
        BY <1>8
      <4>4. ASSUME NEW c \in base .. op.at - 1 PROVE flash'[c] = d[c - base + 1]
        <5>1. c \in Cells /\ c # op.at
          BY <1>7, <4>3
        <5> QED BY <4>1, <4>2, <5>1
      <4>5. ASSUME NEW c \in op.at + 1 .. last PROVE flash'[c] = Erased
        <5>1. c # op.at /\ c \in op.at .. last
          BY <1>2
        <5> QED BY <4>1, <4>2, <4>3, <5>1
      <4> QED BY <4>1, <4>4, <4>5
    <3> QED BY <1>1, <3>2, <3>3 DEF WriteInv
  <2>4. CASE (D7 \in v) = (D7 \in Word[op.half + 1]) /\ op.half # 0
    <3>1. op' = WriteEnd /\ op.half = 1
      BY <1>2, <2>1, <2>4
    <3>2. Taken = (IF len = 1 THEN 1 ELSE 2) /\ Taken \in {1, 2}
      BY <1>1, <1>9, EvenWord
    <3>3. ASSUME Clean(base, last)'
          PROVE  /\ \A c \in base .. op.at + Taken - 1 : flash'[c] = d[c - base + 1]
                 /\ \A c \in op.at + Taken .. last : flash'[c] = Erased
      <4>1. flash'[op.at + 1] = Word[2] /\ \A c \in Cells : c # op.at + 1 => flash'[c] = flash[c]
        BY <1>2, <2>1, <3>1, <3>3
      <4>2. /\ \A c \in base .. op.at - 1 : flash[c] = d[c - base + 1]
            /\ flash[op.at] = op.src[1]
            /\ \A c \in op.at + 1 .. last : flash[c] = Erased
        BY <1>2, <1>3, <3>1, <3>3 DEF WriteInv
      <4>3. base .. op.at - 1 \subseteq Cells /\ op.at + 1 .. last \subseteq Cells
        BY <1>8
      <4>4. op.src[1] = d[op.at - base + 1]
        BY <1>1, <1>2
      <4>5. Taken = 2 => Word[2] = d[op.at - base + 2]
        <5>1. Taken = 2 => 2 \in 1 .. len
          BY <1>7, <3>2
        <5> QED BY <1>1, <1>9, <3>2, <5>1, EvenWord
      <4>6. ASSUME NEW c \in base .. op.at + Taken - 1 PROVE flash'[c] = d[c - base + 1]
        <5>1. CASE c \in base .. op.at - 1
          BY <1>2, <4>1, <4>2, <4>3, <5>1
        <5>2. CASE c = op.at
          BY <1>2, <4>1, <4>2, <4>4, <5>2
        <5>3. CASE c = op.at + 1 /\ Taken = 2
          <6>1. c - base + 1 = op.at - base + 2
            BY <1>2, <5>3
          <6> QED BY <4>1, <4>5, <5>3, <6>1
        <5>4. c \in base .. op.at - 1 \/ c = op.at \/ (c = op.at + 1 /\ Taken = 2)
          BY <1>2, <3>2
        <5> QED BY <5>1, <5>2, <5>3, <5>4
      <4>7. ASSUME NEW c \in op.at + Taken .. last PROVE flash'[c] = Erased
        <5>1. c # op.at + 1 /\ c \in op.at + 1 .. last
          <6>1. CASE Taken = 1
            <7>1. len = 1
              BY <3>2, <6>1
            <7> QED BY <1>7, <6>1, <7>1
          <6>2. CASE Taken = 2
            BY <1>2, <6>2
          <6> QED BY <3>2, <6>1, <6>2
        <5> QED BY <4>1, <4>2, <4>3, <5>1
      <4> QED BY <4>6, <4>7
    <3>4. CASE Taken = len
      <4>1. op' = [kind |-> "returned", rc |-> 0]
        BY <1>9, <3>1, <3>4 DEF WriteEnd, Returned
      <4>2. op.at + Taken - 1 = base + n - 1
        BY <1>7, <3>4
      <4> QED BY <3>3, <4>1, <4>2 DEF WriteInv
    <3>5. CASE Taken # len
      <4>1. op' = [kind |-> "write", at |-> op.at + Taken,
                   src |-> SubSeq(op.src, Taken + 1, Len(op.src)), half |-> 0]
        BY <1>9, <3>1, <3>5 DEF WriteEnd, WriteOp
      <4>2. Taken = 2 /\ len > 2
        BY <1>7, <3>2, <3>5
      <4>3. /\ Len(op'.src) = len - 2
            /\ \A j \in 1 .. len - 2 : op'.src[j] = op.src[j + 2]
        BY <1>2, <1>9, <4>1, <4>2
      <4>4. /\ base <= op.at + 2 /\ (op.at + 2) % 2 = 0
            /\ op.at + 2 + (len - 2) = base + n
        BY <1>7
      <4>5. op'.kind = "write" /\ op'.at = op.at + 2 /\ op'.half = 0
        BY <4>1, <4>2
      <4>6. ASSUME NEW j \in 1 .. len - 2 PROVE op'.src[j] = d[op'.at - base + j]
        <5>1. \A a, b, l \in Nat : \A i \in 1 .. l - 2 :
                i + 2 \in 1 .. l /\ a - b + (i + 2) = (a + 2) - b + i
          OBVIOUS
        <5>2. j + 2 \in 1 .. len /\ op.at - base + (j + 2) = op'.at - base + j
          BY <1>7, <4>5, <5>1
        <5> QED BY <1>1, <1>9, <4>3, <5>2
      <4>7. ASSUME Clean(base, last)'
            PROVE  /\ \A c \in base .. op'.at - 1 : flash'[c] = d[c - base + 1]
                   /\ \A c \in op'.at + op'.half .. base + n - 1 : flash'[c] = Erased
        <5>1. op.at + 2 - 1 = op'.at - 1 /\ op'.at + op'.half = op.at + 2
          BY <1>7, <4>5
        <5> QED BY <3>3, <4>2, <4>7, <5>1
      <4>8. base <= op'.at /\ op'.at % 2 = 0 /\ op'.at + Len(op'.src) = base + n
        BY <4>3, <4>4, <4>5
      <4> QED BY <4>3, <4>5, <4>6, <4>7, <4>8 DEF WriteInv
    <3> QED BY <3>4, <3>5
  <2> QED BY <2>2, <2>3, <2>4
<1> QED BY <1>5, <1>6 DEF FlashStep, EraseSector

-----------------------------------------------------------------------------
\* The image in the buffer.
LEMMA ImgType ==
    ASSUME buffer \in Files
    PROVE  /\ img \in Images /\ img.fault \in 0 .. 5
           /\ img.start \in 0 .. Space - 1 /\ img.erase \in 0 .. Space - 1
           /\ size \in 0 .. Space - 1
           /\ Data \in [1 .. Space -> Cell] /\ LoaderData \in [1 .. Space -> Cell]
<1>1. img \in Images
  BY DEF Files, img
<1>2. /\ img \in [fault : 0 .. 5, start : Nat, erase : Nat, data : Seq(Cell)]
      /\ img.start < Space /\ img.erase < Space /\ Len(img.data) < Space
  BY <1>1, BurnConstants
<1>3. img.fault \in 0 .. 5 /\ img.start \in Nat /\ img.erase \in Nat /\ img.data \in Seq(Cell)
  BY <1>2
<1>4. size \in Nat /\ size < Space /\ Space \in Nat
  BY <1>2, <1>3, Geometry DEF size
<1>5. \A i : DataAt(i) \in Cell
  <2>1. TAKE i
  <2>2. CASE i \in 1 .. size
    BY <1>3, <2>2 DEF DataAt, size
  <2>3. CASE i \notin 1 .. size
    BY <2>3, BurnConstants DEF DataAt
  <2> QED BY <2>2, <2>3
<1>6. Data \in [1 .. Space -> Cell]
  BY <1>5 DEF Data
<1>7. LoaderData \in [1 .. Space -> Cell]
  BY <1>5 DEF LoaderData, LoaderAt
<1>8. img.start \in 0 .. Space - 1 /\ img.erase \in 0 .. Space - 1 /\ size \in 0 .. Space - 1
  BY <1>2, <1>3, <1>4
<1> QED BY <1>1, <1>3, <1>6, <1>7, <1>8

\* What is left to burn when the loader is not.
BodyCells == IF EndsInBoot THEN BodyErase ELSE img.erase
BodySize  == IF EndsInBoot THEN BodyData ELSE size

LEMMA BodyType ==
    ASSUME buffer \in Files
    PROVE  /\ BodyErase \in 0 .. Space - 1 /\ BodyData \in 0 .. Space - 1
           /\ BodyCells \in 0 .. Space - 1 /\ BodySize \in 0 .. Space - 1
<1>1. /\ Space \in Nat /\ BootBase \in Nat /\ BootLen \in Nat \ {0} /\ BootBase + BootLen = Space
      /\ BootBase <= Space - 1
  BY Boot, Geometry
<1>2. img.start \in 0 .. Space - 1 /\ img.erase \in 0 .. Space - 1 /\ size \in 0 .. Space - 1
  BY ImgType
<1>3. BodyErase \in 0 .. Space - 1
  <2>1. BootBase - img.start \in Int /\ BootBase - img.start >= -Space /\ BootBase - img.start < 2 * Space
    BY <1>1, <1>2
  <2> QED BY <2>1, WrapType DEF BodyErase
<1>4. BodyData \in 0 .. Space - 1
  <2>1. size - BootLen \in Int /\ size - BootLen >= -Space /\ size - BootLen < 2 * Space
    BY <1>1, <1>2
  <2> QED BY <2>1, WrapType DEF BodyData
<1> QED BY <1>2, <1>3, <1>4 DEF BodyCells, BodySize

\* A proper image reaches to the end of the flash or ends before the loader.
LEMMA FitCases ==
    ASSUME buffer \in Files, Fit(img)
    PROVE  /\ img.start \in Cells /\ img.start % 2 = 0 /\ img.erase > 0
           /\ \/ /\ EndsInBoot /\ img.start <= BootBase /\ img.start + img.erase = Space
                 /\ size >= BootLen /\ img.start + size <= Space
                 /\ [k \in 1 .. BootLen |-> LoaderAt(k)] \in Loaders
                 /\ BodyCells = BootBase - img.start /\ BodySize = size - BootLen
              \/ /\ ~EndsInBoot /\ img.start + img.erase <= BootBase /\ size <= img.erase
                 /\ BodyCells = img.erase /\ BodySize = size
<1>1. /\ Space \in Nat /\ BootBase \in Nat /\ BootLen \in Nat \ {0} /\ BootBase + BootLen = Space
      /\ BootBase <= Space - 1 /\ BootBase >= 2 /\ FlashBase \in Nat
  BY Boot, Geometry
<1>2. /\ img.start \in 0 .. Space - 1 /\ img.erase \in 0 .. Space - 1 /\ size \in 0 .. Space - 1
      /\ img.start \in Nat /\ img.erase \in Nat /\ size \in Nat
  BY <1>1, ImgType
<1>3. img.start \in Cells /\ img.start % 2 = 0 /\ img.erase > 0
  <2>1. PICK s \in Sectors : Start[s] = img.start
    BY DEF Fit
  <2>2. FlashBase <= img.start /\ img.start % 2 = 0
    BY <2>1, Geometry
  <2> QED BY <1>1, <1>2, <2>2 DEF Fit, Cells
<1>4. CASE BootFit(img)
  <2>1. /\ img.start <= BootBase /\ img.start + img.erase = Space
        /\ size >= BootLen /\ img.start + size <= Space
        /\ [k \in 1 .. BootLen |-> img.data[size - BootLen + k]] \in Loaders
    BY <1>4 DEF BootFit, size
  <2>2. EndsInBoot
    BY <1>1, <1>2, <2>1 DEF EndsInBoot, Wrap
  <2>3. BodyErase = BootBase - img.start /\ BodyData = size - BootLen
    BY <1>1, <1>2, <2>1 DEF BodyErase, BodyData, Wrap
  <2>4. [k \in 1 .. BootLen |-> LoaderAt(k)] \in Loaders
    <3>1. ASSUME NEW k \in 1 .. BootLen PROVE LoaderAt(k) = img.data[size - BootLen + k]
      <4>1. size - BootLen + k \in 1 .. size
        BY <1>1, <1>2, <2>1
      <4> QED BY <4>1 DEF LoaderAt, DataAt
    <3>2. [k \in 1 .. BootLen |-> LoaderAt(k)] = [k \in 1 .. BootLen |-> img.data[size - BootLen + k]]
      BY <3>1
    <3> QED BY <2>1, <3>2
  <2> QED BY <1>3, <2>1, <2>2, <2>3, <2>4 DEF BodyCells, BodySize
<1>5. CASE BodyFit(img)
  <2>1. img.start + img.erase <= BootBase /\ size <= img.erase
    BY <1>5 DEF BodyFit, size
  <2>2. ~EndsInBoot
    BY <1>1, <1>2, <1>3, <2>1 DEF EndsInBoot, Wrap
  <2> QED BY <1>3, <2>1, <2>2 DEF BodyCells, BodySize
<1> QED BY <1>4, <1>5 DEF Fit

\* The rest of a proper image: whole sectors before the loader.
LEMMA FitBody ==
    ASSUME buffer \in Files, Fit(img)
    PROVE  /\ img.start + BodyCells <= BootBase /\ BodySize <= BodyCells
           /\ (img.start + BodyCells) % 2 = 0
           /\ BodyCells # 0 =>
                \E s, t \in Sectors : /\ s <= t /\ Start[s] = img.start
                                      /\ SectorEnd(t) = img.start + BodyCells - 1
<1>1. /\ Space \in Nat /\ BootBase \in Nat /\ BootLen \in Nat \ {0} /\ BootBase + BootLen = Space
      /\ BootBase % 2 = 0 /\ BootBase >= FlashBase + 2 /\ FlashBase \in Nat
  BY Boot, Geometry
<1>2. /\ img.start \in Nat /\ img.erase \in Nat /\ size \in Nat
      /\ BodyCells \in Nat /\ BodySize \in Nat
  BY <1>1, ImgType, BodyType
<1>3. PICK s \in Sectors : \E t \in Sectors : Start[s] = img.start /\ SectorEnd(t) = img.start + img.erase - 1
  BY DEF Fit
<1>4. PICK u \in Sectors : SectorEnd(u) = img.start + img.erase - 1
  BY <1>3
<1>5. Start[s] = img.start /\ Start[s] \in Nat /\ Start[s] <= SectorEnd(s) /\ SectorEnd(s) \in Nat
  BY <1>3, Geometry
<1>6. ASSUME NEW t \in Sectors, SectorEnd(t) = img.start + BodyCells - 1, BodyCells # 0
      PROVE  s <= t
  <2> SUFFICES ASSUME ~(s <= t) PROVE FALSE
    OBVIOUS
  <2>1. t < s
    <3>1. s \in 1 .. Len(Start) /\ t \in 1 .. Len(Start)
      BY Geometry
    <3>2. Len(Start) \in Nat
      BY FlashConstants
    <3> QED BY <3>1, <3>2
  <2>2. SectorEnd(t) < Start[s]
    BY <2>1, FlashConstants
  <2> QED BY <1>2, <1>5, <1>6, <2>2
<1>7. CASE EndsInBoot
  <2>1. /\ img.start <= BootBase /\ img.start + size <= Space /\ size >= BootLen
        /\ BodyCells = BootBase - img.start /\ BodySize = size - BootLen
    BY <1>7, FitCases
  <2>2. img.start + BodyCells = BootBase /\ BodySize <= BodyCells
    BY <1>1, <1>2, <2>1
  <2>3. ASSUME BodyCells # 0
        PROVE  \E t \in Sectors : SectorEnd(t) = img.start + BodyCells - 1
    <3>1. PICK k \in Sectors : Start[k] = BootBase
      BY Boot
    <3>2. k \in 1 .. Len(Start) /\ Len(Start) \in Nat
      <4>1. Len(Start) \in Nat
        BY FlashConstants
      <4> QED BY <3>1, <4>1, Geometry
    <3>3. k # 1
      BY <1>1, <3>1 DEF FlashBase
    <3>4. k - 1 \in 1 .. Len(Start) /\ k - 1 # Len(Start) /\ (k - 1) + 1 = k
      BY <3>2, <3>3
    <3>5. k - 1 \in Sectors
      BY <3>4, FlashConstants DEF Sectors
    <3>6. SectorEnd(k - 1) = BootBase - 1
      BY <3>1, <3>4 DEF SectorEnd
    <3>7. SectorEnd(k - 1) = img.start + BodyCells - 1
      <4>1. img.start + (BodyCells - 1) = BootBase - 1
        BY <1>1, <1>2, <2>2
      <4> QED BY <3>6, <4>1
    <3> QED BY <3>5, <3>7
  <2> QED BY <1>1, <1>5, <1>6, <2>2, <2>3
<1>8. CASE ~EndsInBoot
  <2>1. img.start + img.erase <= BootBase /\ size <= img.erase /\ BodyCells = img.erase /\ BodySize = size
    BY <1>8, FitCases
  <2>2. (SectorEnd(u) + 1) % 2 = 0
    BY Geometry
  <2>3. SectorEnd(u) + 1 = img.start + BodyCells
    BY <1>2, <1>4, <2>1
  <2> QED BY <1>4, <1>5, <1>6, <2>1, <2>2, <2>3
<1> QED BY <1>7, <1>8

\* An image that stays in the buffer stays what it is.
LEMMA SameImg ==
    ASSUME UNCHANGED buffer
    PROVE  /\ img' = img /\ size' = size /\ (Fit(img)' <=> Fit(img)) /\ (EndsInBoot' <=> EndsInBoot)
           /\ Data' = Data /\ LoaderData' = LoaderData
           /\ BodyErase' = BodyErase /\ BodyData' = BodyData
           /\ BodyCells' = BodyCells /\ BodySize' = BodySize
<1>1. img' = img /\ size' = size
  BY DEF img, size
<1>2. \A i : DataAt(i)' = DataAt(i)
  BY <1>1 DEF DataAt
<1>3. Data' = Data /\ LoaderData' = LoaderData
  BY <1>1, <1>2 DEF Data, LoaderData, LoaderAt
<1>4. (EndsInBoot' <=> EndsInBoot) /\ BodyErase' = BodyErase /\ BodyData' = BodyData
  BY <1>1 DEF EndsInBoot, BodyErase, BodyData
<1>5. Fit(img)' <=> Fit(img)
  BY <1>1 DEF Fit, BootFit, BodyFit
<1> QED BY <1>1, <1>3, <1>4, <1>5 DEF BodyCells, BodySize

-----------------------------------------------------------------------------
\* What the driver may touch lies in the range it was called for.
LEMMA EraseReach ==
    ASSUME FlashTypeOK, NEW first \in Nat, NEW last \in Nat, EraseInv(first, last), op.kind = "erase",
           NEW c \in Touchable
    PROVE  c \in Nat /\ first <= c /\ c <= last
<1>1. /\ op.sect \in Sectors /\ op.last \in Sectors /\ op.sect <= op.last
      /\ first <= Start[op.sect] /\ SectorEnd(op.last) = last
  BY EraseType DEF EraseInv
<1>2. /\ Start[op.sect] \in Nat /\ SectorEnd(op.sect) \in Nat
      /\ Start[op.last] \in Nat /\ Start[op.last] <= SectorEnd(op.last)
  BY <1>1, Geometry
<1>3. SectorEnd(op.sect) <= last
  <2>1. CASE op.sect = op.last
    BY <1>1, <1>2, <2>1
  <2>2. CASE op.sect # op.last
    <3>1. op.sect < op.last
      <4>1. op.sect \in 1 .. Len(Start) /\ op.last \in 1 .. Len(Start)
        BY <1>1, Geometry
      <4>2. Len(Start) \in Nat
        BY FlashConstants
      <4>3. op.sect \in Nat /\ op.last \in Nat
        BY <4>1, <4>2
      <4> QED BY <1>1, <2>2, <4>3
    <3>2. SectorEnd(op.sect) < Start[op.last]
      BY <1>1, <3>1, FlashConstants
    <3> QED BY <1>1, <1>2, <3>2
  <2> QED BY <2>1, <2>2
<1>4. c \in CellsOf(op.sect)
  BY DEF Touchable
<1> QED BY <1>1, <1>2, <1>3, <1>4 DEF CellsOf

LEMMA WriteReach ==
    ASSUME FlashTypeOK, NEW base \in Nat, NEW n \in Nat, NEW d, WriteInv(base, n, d), op.kind = "write",
           NEW end \in Nat, base + n <= end, end % 2 = 0, NEW c \in Touchable
    PROVE  c \in Nat /\ base <= c /\ c < end
<1>1. base <= op.at /\ op.at % 2 = 0 /\ op.at + Len(op.src) = base + n
  BY DEF WriteInv
<1>2. op.at \in Nat /\ Len(op.src) \in Nat /\ Len(op.src) >= 1
  <2>1. Len(op.src) \in 1 .. Space - op.at /\ op.src \in Seq(Cell) /\ op.at \in Nat /\ Space \in Nat
    BY WriteType, FlashType, Geometry
  <2> QED BY <2>1
<1>3. c = op.at \/ c = op.at + 1
  BY <1>1, EvenWord DEF Touchable
<1>4. \A a, b, l, m, e \in Nat : a % 2 = 0 /\ e % 2 = 0 /\ a + l = b + m /\ b + m <= e /\ l >= 1 => a + 1 < e
  OBVIOUS
<1>5. op.at + 1 < end
  BY <1>1, <1>2, <1>4
<1> QED BY <1>1, <1>2, <1>3, <1>5

BodyPlaces == {"eraseBody", "writeBody"}

\* Only the loader is touched while the loader is burnt, only the range before it
\* while the rest is.
LEMMA Reach ==
    ASSUME TypeOK, PlaceInv, BurnInv, Fit(img), NEW c \in Touchable
    PROVE  /\ c \in Nat /\ img.fault = 0
           /\ \/ pc \in BootPlaces /\ EndsInBoot /\ BootBase <= c /\ c < Space
              \/ pc \in BodyPlaces /\ img.start <= c /\ c < img.start + BodyCells
<1>1. FlashTypeOK /\ buffer \in Files
  BY DEF TypeOK
<1>2. /\ BootBase \in Nat /\ BootLen \in Nat /\ BootBase + BootLen = Space /\ Space \in Nat /\ Space % 2 = 0
      /\ BootBase <= Space - 1
  BY Boot, Geometry
<1>3. /\ img.start \in Nat /\ BodyCells \in Nat /\ BodySize \in Nat
      /\ BodySize <= BodyCells /\ (img.start + BodyCells) % 2 = 0
  BY <1>1, ImgType, BodyType, FitBody
<1>4. op.kind \in {"erase", "write"}
  BY DEF Touchable
<1>5. pc \in WritePlaces /\ img.fault = 0
  BY <1>4 DEF PlaceInv, WritePlaces, BootPlaces
<1>6. pc \in WritePlaces => nbErase = BodyCells /\ nbData = BodySize
  BY DEF PlaceInv, BodyCells, BodySize
<1>7. CASE op.kind = "erase" /\ pc = "eraseBoot"
  <2>1. EraseInv(BootBase, Space - 1) /\ EndsInBoot
    BY <1>7 DEF BurnInv, PlaceInv, BootPlaces
  <2>2. Space - 1 \in Nat
    BY <1>2
  <2>3. c \in Nat /\ BootBase <= c /\ c <= Space - 1
    BY <1>1, <1>2, <1>7, <2>1, <2>2, EraseReach
  <2> QED BY <1>2, <1>5, <1>7, <2>1, <2>3 DEF BootPlaces
<1>8. CASE op.kind = "erase" /\ pc = "eraseBody"
  <2>1. EraseInv(img.start, img.start + nbErase - 1) /\ nbErase > 0 /\ nbErase = BodyCells
    BY <1>6, <1>8 DEF BurnInv, WritePlaces
  <2>2. PICK first \in Nat, last \in Nat : first = img.start /\ last = img.start + nbErase - 1
    <3>1. img.start + nbErase - 1 \in Nat
      BY <1>3, <2>1
    <3> QED BY <1>3, <3>1
  <2>3. EraseInv(first, last)
    BY <2>1, <2>2
  <2>4. c \in Nat /\ first <= c /\ c <= last
    BY <1>1, <1>8, <2>3, EraseReach
  <2> QED BY <1>3, <1>5, <1>8, <2>1, <2>2, <2>4 DEF BodyPlaces
<1>9. CASE op.kind = "write" /\ pc = "writeBoot"
  <2>1. WriteInv(BootBase, BootLen, LoaderData) /\ EndsInBoot
    BY <1>9 DEF BurnInv, PlaceInv, BootPlaces
  <2>2. PICK d : d = LoaderData
    OBVIOUS
  <2>3. WriteInv(BootBase, BootLen, d)
    BY <2>1, <2>2
  <2>4. c \in Nat /\ BootBase <= c /\ c < Space
    BY <1>1, <1>2, <1>9, <2>3, WriteReach
  <2> QED BY <1>5, <1>9, <2>1, <2>4 DEF BootPlaces
<1>10. CASE op.kind = "write" /\ pc = "writeBody"
  <2>1. WriteInv(img.start, nbData, Data) /\ nbData = BodySize
    BY <1>6, <1>10 DEF BurnInv, WritePlaces
  <2>2. PICK d : d = Data
    OBVIOUS
  <2>3. PICK base \in Nat, n \in Nat : base = img.start /\ n = nbData
    BY <1>3, <2>1
  <2>4. PICK end \in Nat : end = img.start + BodyCells
    BY <1>3
  <2>5. WriteInv(base, n, d) /\ base + n <= end /\ end % 2 = 0
    BY <1>3, <2>1, <2>2, <2>3, <2>4
  <2>6. c \in Nat /\ base <= c /\ c < end
    BY <1>1, <1>10, <2>5, WriteReach
  <2> QED BY <1>5, <1>10, <2>3, <2>4, <2>6 DEF BodyPlaces
<1> QED BY <1>4, <1>7, <1>8, <1>9, <1>10 DEF PlaceInv

-----------------------------------------------------------------------------
\* Whole sectors are erased; nothing is yet.
LEMMA CallEraseInv ==
    ASSUME NEW first \in Nat, NEW last \in Nat, CallErase(first, last),
           \E s, t \in Sectors : s <= t /\ Start[s] = first /\ SectorEnd(t) = last
    PROVE  EraseInv(first, last)'
<1>1. PICK s \in Sectors, t \in Sectors :
        s <= t /\ Start[s] = first /\ SectorEnd(t) = last /\ op' = EraseOp(s, t)
  BY DEF CallErase
<1>2. op'.kind = "erase" /\ op'.sect = s /\ op'.last = t
  BY <1>1 DEF EraseOp
<1>3. \A c \in first .. first - 1 : FALSE
  OBVIOUS
<1> QED BY <1>1, <1>2, <1>3 DEF EraseInv, ErasedTo

\* A write on an erased range begins, unless a sector of the range is protected.
LEMMA CallWriteInv ==
    ASSUME FlashTypeOK, NEW base \in Cells, base % 2 = 0, NEW cnt \in Nat \ {0}, NEW n \in Nat,
           n = (IF cnt < Space - base THEN cnt ELSE Space - base),
           Wrap(base + cnt - 1) \in Cells,
           \A s \in protected : Wrap(base + cnt - 1) >= Start[s] /\ base <= SectorEnd(s)
                                  => ~Open(base, base + n - 1),
           NEW src, CallWrite(base, cnt, src), UNCHANGED <<protected, flash, failed>>,
           Clean(base, base + n - 1) => \A c \in base .. base + n - 1 : flash[c] = Erased
    PROVE  WriteInv(base, n, src)'
<1> DEFINE end == Wrap(base + cnt - 1)
           refused == \E s \in protected : /\ s # Len(Start)
                                           /\ end >= Start[s] /\ base <= SectorEnd(s)
           cells == [i \in 1 .. n |-> src[i]]
<1>1. base \in Nat /\ Space \in Nat /\ base <= Space - 1
  BY Geometry DEF Cells
<1>2. op' = IF refused THEN Returned(1) ELSE WriteOp(base, cells, 0)
  BY DEF CallWrite
<1>3. (Open(base, base + n - 1)' <=> Open(base, base + n - 1)) /\ (failed' = failed)
      /\ (Clean(base, base + n - 1)' <=> Clean(base, base + n - 1)) /\ flash' = flash
  BY DEF Open, Clean
<1>4. CASE refused
  <2>1. ~Open(base, base + n - 1)
    BY <1>4
  <2>2. op'.kind = "returned" /\ op'.rc = 1
    BY <1>2, <1>4 DEF Returned
  <2> QED BY <1>3, <2>1, <2>2 DEF WriteInv, Clean
<1>5. CASE ~refused
  <2>1. op' = [kind |-> "write", at |-> base, src |-> cells, half |-> 0]
    BY <1>2, <1>5 DEF WriteOp
  <2>2. Len(cells) = n
    OBVIOUS
  <2>3. \A j \in 1 .. n : cells[j] = src[base - base + j]
    BY <1>1
  <2> HIDE DEF cells
  <2>4. /\ op'.kind = "write" /\ op'.at = base /\ op'.half = 0 /\ Len(op'.src) = n
        /\ \A j \in 1 .. Len(op'.src) : op'.src[j] = src[op'.at - base + j]
    BY <2>1, <2>2, <2>3
  <2>5. base <= base /\ base + 0 = base /\ \A c \in base .. base - 1 : FALSE
    BY <1>1
  <2>6. Clean(base, base + n - 1)' =>
          /\ \A c \in base .. op'.at - 1 : flash'[c] = src[c - base + 1]
          /\ op'.half = 1 => flash'[op'.at] = op'.src[1]
          /\ \A c \in op'.at + op'.half .. base + n - 1 : flash'[c] = Erased
    BY <1>3, <2>4, <2>5
  <2> QED BY <2>4, <2>5, <2>6 DEF WriteInv
<1> QED BY <1>4, <1>5

\* The call that writes the loader: its count wraps, and it is never refused.
LEMMA LoaderCall ==
    ASSUME FlashTypeOK, NEW src, CallWrite(BootBase, Space - 1, src),
           UNCHANGED <<protected, flash, failed>>, ErasedTo(BootBase, Space - 1)
    PROVE  WriteInv(BootBase, BootLen, src)'
<1>1. /\ BootBase \in Nat /\ BootBase \in Cells /\ BootLen \in Nat /\ BootBase + BootLen = Space
      /\ Space \in Nat /\ BootBase >= FlashBase + 2 /\ FlashBase \in Nat /\ BootBase % 2 = 0
      /\ BootBase <= Space - 1
  BY Boot, Geometry
<1>2. /\ BootBase + BootLen - 1 = Space - 1
      /\ BootLen = (IF Space - 1 < Space - BootBase THEN Space - 1 ELSE Space - BootBase)
      /\ Space - 1 \in Nat \ {0}
  BY <1>1
<1>3. Wrap(BootBase + (Space - 1) - 1) = BootBase - 2
  BY <1>1 DEF Wrap
<1>4. BootBase - 2 \in Cells
  BY <1>1 DEF Cells
<1>5. ASSUME NEW s \in protected, BootBase - 2 >= Start[s], BootBase <= SectorEnd(s) PROVE FALSE
  <2>1. s \in Sectors
    BY FlashType
  <2>2. PICK k \in Sectors : Start[k] = BootBase
    BY Boot
  <2>3. /\ Start[s] \in Nat /\ SectorEnd(s) \in Nat
        /\ SectorEnd(k) \in Nat /\ Start[k] <= SectorEnd(k)
    BY <2>1, Geometry
  <2>5. BootBase \in CellsOf(s) /\ BootBase \in CellsOf(k)
    BY <1>1, <1>5, <2>2, <2>3 DEF CellsOf
  <2>4. s = k
    BY <1>1, <2>1, <2>5, OneSector
  <2> QED BY <1>1, <1>5, <2>2, <2>4
<1>6. PICK cnt \in Nat \ {0} : cnt = Space - 1
  BY <1>2
<1>7. BootBase + cnt - 1 = BootBase + (Space - 1) - 1
  BY <1>6
<1>8. Clean(BootBase, BootBase + BootLen - 1) =>
        \A c \in BootBase .. BootBase + BootLen - 1 : flash[c] = Erased
  <2> SUFFICES ASSUME Clean(BootBase, Space - 1), NEW c \in BootBase .. Space - 1
               PROVE  flash[c] = Erased
    BY <1>2
  <2>1. c \in Cells /\ c \in Nat /\ BootBase <= c /\ c <= Space - 1 /\ Space - 1 \in Nat
    BY <1>1 DEF Cells
  <2>2. SectorAt(c) \notin protected
    BY <1>1, <2>1, OpenCell DEF Clean
  <2> QED BY <2>2 DEF Clean, ErasedTo
<1> QED BY <1>1, <1>2, <1>3, <1>4, <1>5, <1>6, <1>7, <1>8, CallWriteInv

\* The call that writes the rest of a proper image.
LEMMA BodyCall ==
    ASSUME FlashTypeOK, buffer \in Files, Fit(img), BodySize # 0,
           CallWrite(img.start, BodySize, Data), UNCHANGED <<protected, flash, failed, buffer>>,
           ErasedTo(img.start, img.start + BodyCells - 1)
    PROVE  WriteInv(img.start, BodySize, Data)'
<1>1. /\ BootBase \in Nat /\ Space \in Nat /\ BootBase <= Space - 1 /\ FlashBase \in Nat
  BY Boot, Geometry
<1>2. /\ img.start \in Cells /\ img.start \in Nat /\ img.start % 2 = 0 /\ FlashBase <= img.start
      /\ BodySize \in Nat /\ BodyCells \in Nat
      /\ img.start + BodyCells <= BootBase /\ BodySize <= BodyCells
  <2>1. img.start \in Cells /\ img.start % 2 = 0
    BY FitCases
  <2>2. FlashBase <= img.start
    BY <2>1 DEF Cells
  <2> QED BY <2>1, <2>2, ImgType, BodyType, FitBody
<1>3. PICK base \in Cells : base = img.start
  BY <1>2
<1>4. PICK n \in Nat \ {0} : n = BodySize
  BY <1>2
<1>5. PICK e \in Nat : e = BodyCells
  BY <1>2
<1>6. PICK d : d = Data
  OBVIOUS
<1>7. base \in Nat /\ base + e <= BootBase /\ n <= e /\ base % 2 = 0 /\ FlashBase <= base
  BY <1>2, <1>3, <1>4, <1>5
<1>8. /\ n = (IF n < Space - base THEN n ELSE Space - base)
      /\ base + n - 1 \in Cells /\ base + n - 1 < Space /\ base + n - 1 \in Nat
  BY <1>1, <1>7 DEF Cells
<1>9. Wrap(base + n - 1) = base + n - 1
  <2>1. ~(base + n - 1 < 0) /\ ~(base + n - 1 >= Space)
    BY <1>1, <1>8
  <2> QED BY <2>1 DEF Wrap
<1>10. ASSUME Clean(base, base + n - 1), NEW c \in base .. base + n - 1
       PROVE  flash[c] = Erased
  <2>1. c \in base .. base + e - 1
    BY <1>7
  <2>2. c \in Cells /\ c \in Nat /\ base <= c /\ c <= base + n - 1
    BY <1>1, <1>7, <1>8 DEF Cells
  <2>3. SectorAt(c) \notin protected
    BY <1>7, <1>8, <1>10, <2>2, OpenCell DEF Clean
  <2>4. ErasedTo(base, base + e - 1)
    BY <1>3, <1>5
  <2> QED BY <1>10, <2>1, <2>3, <2>4 DEF Clean, ErasedTo
<1>11. ASSUME NEW s \in protected, base + n - 1 >= Start[s], base <= SectorEnd(s)
       PROVE  ~Open(base, base + n - 1)
  <2>1. Start[s] \in Nat /\ SectorEnd(s) \in Nat
    BY FlashType, Geometry
  <2>2. ~(SectorEnd(s) < base) /\ ~(Start[s] > base + n - 1)
    BY <1>7, <1>8, <1>11, <2>1
  <2> QED BY <2>2 DEF Open
<1>12. CallWrite(base, n, d)
  BY <1>3, <1>4, <1>6
<1>13. WriteInv(base, n, d)'
  BY <1>7, <1>8, <1>9, <1>10, <1>11, <1>12, CallWriteInv
<1>14. img.start' = base /\ BodySize' = n /\ Data' = d
  BY <1>3, <1>4, <1>6, SameImg
<1> QED BY <1>13, <1>14 DEF WriteInv, Clean, Open

-----------------------------------------------------------------------------
\* The types.
LEMMA OpTypeOK ==
    ASSUME TypeOK, UNCHANGED <<protected, flash, failed>>, OpType(op')
    PROVE  FlashTypeOK'
BY DEF TypeOK, FlashTypeOK, OpType

LEMMA CallTypes ==
    ASSUME TypeOK
    PROVE  /\ \A e \in 0 .. Space - 1, d \in 0 .. Space - 1 :
                DoFlash(e, d) => OpType(op') /\ pc' \in {"eraseBody", "writeBody", "terminate"}
                                 /\ (op'.kind # "returned" => pc' # "terminate")
                                 /\ status' \in {"UNUSED", "ERASE", "WRITE"}
                                 /\ shown' \in {shown, "completed"}
           /\ WriteLoader => OpType(op') /\ pc' = "writeBoot" /\ status' = "WRITE" /\ shown' = shown
<1>1. /\ img.start \in Nat /\ Data \in [1 .. Space -> Cell] /\ LoaderData \in [1 .. Space -> Cell]
      /\ Space \in Nat /\ BootBase \in Nat
  BY ImgType, Geometry, Boot DEF TypeOK
<1>2. ASSUME NEW d \in 0 .. Space - 1, WriteBody(d)
      PROVE  /\ OpType(op') /\ pc' \in {"writeBody", "terminate"}
             /\ (op'.kind # "returned" => pc' # "terminate")
             /\ status' \in {"UNUSED", "ERASE", "WRITE"} /\ shown' \in {shown, "completed"}
  <2>1. CASE d # 0
    <3>1. PICK a \in Nat, v \in [1 .. Space -> Cell] : a = img.start /\ v = Data
      BY <1>1
    <3>2. CallWrite(a, d, v) /\ pc' = "writeBody" /\ status' = "WRITE" /\ shown' = shown
      BY <1>2, <2>1, <3>1 DEF WriteBody
    <3>3. d \in Nat /\ d <= Space
      BY <1>1
    <3> QED BY <3>2, <3>3, CallWriteType
  <2>2. CASE d = 0
    BY <1>2, <2>2, ReturnedType DEF WriteBody, Completed, Returned, TypeOK
  <2> QED BY <2>1, <2>2
<1>3. ASSUME NEW e \in 0 .. Space - 1, NEW d \in 0 .. Space - 1, DoFlash(e, d)
      PROVE  /\ OpType(op') /\ pc' \in {"eraseBody", "writeBody", "terminate"}
             /\ (op'.kind # "returned" => pc' # "terminate")
             /\ status' \in {"UNUSED", "ERASE", "WRITE"} /\ shown' \in {shown, "completed"}
  <2>1. CASE e # 0
    BY <1>3, <2>1, CallEraseType DEF DoFlash
  <2>2. CASE e = 0
    BY <1>2, <1>3, <2>2 DEF DoFlash
  <2> QED BY <2>1, <2>2
<1>4. ASSUME WriteLoader
      PROVE  OpType(op') /\ pc' = "writeBoot" /\ status' = "WRITE" /\ shown' = shown
  <2>1. PICK v \in [1 .. Space -> Cell] : v = LoaderData
    BY <1>1
  <2>2. CallWrite(BootBase, Space - 1, v)
    BY <1>4, <2>1 DEF WriteLoader
  <2>3. Space - 1 \in Nat /\ Space - 1 <= Space
    BY <1>1, Boot, Geometry
  <2> QED BY <1>1, <1>4, <2>2, <2>3, CallWriteType DEF WriteLoader
<1> QED BY <1>3, <1>4

LEMMA TypeStep == TypeOK /\ [Next]_vars => TypeOK'
<1> SUFFICES ASSUME TypeOK, [Next]_vars PROVE TypeOK'
  OBVIOUS
<1> USE DEF WritePlaces, BootPlaces
<1>1. /\ BodyErase \in 0 .. Space - 1 /\ BodyData \in 0 .. Space - 1
      /\ img.erase \in 0 .. Space - 1 /\ size \in 0 .. Space - 1 /\ img.fault \in 0 .. 5
      /\ 0 \in 0 .. Space - 1
  BY BodyType, ImgType, Boot, Geometry DEF TypeOK
<1>2. ASSUME NEW r, risk \in {"no", "open", "told", "unfit", "failed"}, Risk(r),
             r \in {"no", "open", "failed", risk}
      PROVE  risk' \in {"no", "open", "told", "unfit", "failed"}
  BY <1>2 DEF Risk
<1>3. CASE LoadBuffer
  BY <1>3 DEF LoadBuffer, TypeOK, FlashTypeOK, flashVars
<1>4. CASE BurnFlashImg
  <2>1. buffer' \in Files
    <3>1. PICK n \in {"plain", "gz", "other"}, z \in BOOLEAN, i \in Images :
            buffer = [name |-> n, zipped |-> z, img |-> i]
      BY DEF TypeOK, Files
    <3>2. buffer' = [name |-> n, zipped |-> FALSE, img |-> i]
      BY <1>4, <3>1 DEF BurnFlashImg
    <3>3. \A z1 \in BOOLEAN : [name |-> n, zipped |-> z1, img |-> i] \in Files
      BY DEF Files
    <3>4. FALSE \in BOOLEAN
      OBVIOUS
    <3> QED BY <3>2, <3>3, <3>4, Zenon
  <2> QED BY <1>4, <2>1 DEF BurnFlashImg, TypeOK, FlashTypeOK, flashVars, PCs
<1>5. CASE Refuse
  BY <1>1, <1>5 DEF Refuse, Fails, TypeOK, FlashTypeOK, flashVars, PCs
<1>6. CASE BurnBodyOnly
  <2>1. FlashTypeOK'
    BY <1>1, <1>6, CallTypes, OpTypeOK DEF BurnBodyOnly
  <2>2. risk' \in {"no", "open", "told", "unfit", "failed"}
    BY <1>2, <1>6 DEF BurnBodyOnly, TypeOK
  <2> QED BY <1>1, <1>6, <2>1, <2>2, CallTypes DEF BurnBodyOnly, TypeOK, PCs
<1>7. CASE RefuseLoader
  BY <1>1, <1>7 DEF RefuseLoader, Fails, TypeOK, FlashTypeOK, flashVars, PCs
<1>8. CASE BurnWithLoader
  <2>1. risk' \in {"no", "open", "told", "unfit", "failed"}
    BY <1>2, <1>8 DEF BurnWithLoader, TypeOK
  <2>2. nbErase' \in 0 .. Space - 1 /\ nbData' \in 0 .. Space - 1
    BY <1>1, <1>8 DEF BurnWithLoader
  <2>3. ret' \in {0, 2, 3} /\ tries' \in 0 .. 2 /\ errorno' = errorno /\ buffer' = buffer
    BY <1>8 DEF BurnWithLoader, TypeOK
  <2>4. /\ OpType(op') /\ pc' \in PCs /\ (op'.kind # "returned" => pc' \in WritePlaces)
        /\ status' \in {"UNUSED", "ERASE", "WRITE"} /\ shown' \in {shown, "completed"}
    <3>1. CASE DoFlash(BodyErase, BodyData)
      BY <1>1, <3>1, CallTypes DEF PCs
    <3>2. CASE pc' = "eraseBoot" /\ status' = "ERASE" /\ shown' = shown /\ CallErase(BootBase, Space - 1)
      BY <3>2, CallEraseType DEF PCs
    <3>3. CASE WriteLoader
      BY <3>3, CallTypes DEF PCs
    <3> QED BY <1>8, <3>1, <3>2, <3>3 DEF BurnWithLoader
  <2>5. FlashTypeOK'
    BY <1>8, <2>4, OpTypeOK DEF BurnWithLoader
  <2> QED BY <2>1, <2>2, <2>3, <2>4, <2>5 DEF TypeOK
<1>9. CASE BootErased
  <2>1. CASE op.rc # 0
    BY <1>9, <2>1 DEF BootErased, Ends, Fails, TypeOK, FlashTypeOK, PCs
  <2>2. CASE op.rc = 0
    <3>1. nbErase \in 0 .. Space - 1 /\ nbData \in 0 .. Space - 1
      BY DEF TypeOK
    <3>2. /\ OpType(op') /\ pc' \in PCs /\ (op'.kind # "returned" => pc' \in WritePlaces)
          /\ status' \in {"UNUSED", "ERASE", "WRITE"} /\ shown' \in {shown, "completed"}
      BY <1>9, <2>2, <3>1, CallTypes DEF BootErased, PCs
    <3>3. FlashTypeOK'
      BY <1>9, <3>2, OpTypeOK DEF BootErased
    <3> QED BY <1>9, <2>2, <3>2, <3>3 DEF BootErased, TypeOK
  <2> QED BY <2>1, <2>2
<1>10. CASE BootWritten
  <2>1. CASE op.rc # 0
    BY <1>10, <2>1 DEF BootWritten, Ends, Fails, TypeOK, FlashTypeOK, PCs
  <2>2. CASE op.rc = 0
    <3>1. nbErase \in 0 .. Space - 1 /\ nbData \in 0 .. Space - 1
      BY DEF TypeOK
    <3>2. /\ OpType(op') /\ pc' \in PCs /\ (op'.kind # "returned" => pc' \in WritePlaces)
          /\ status' \in {"UNUSED", "ERASE", "WRITE"} /\ shown' \in {shown, "completed"}
      BY <1>10, <2>2, <3>1, CallTypes DEF BootWritten, PCs
    <3>3. FlashTypeOK'
      BY <1>10, <3>2, OpTypeOK DEF BootWritten
    <3>4. risk' \in {"no", "open", "told", "unfit", "failed"}
      BY <1>10, <2>2 DEF BootWritten, Risk
    <3> QED BY <1>10, <2>2, <3>2, <3>3, <3>4 DEF BootWritten, TypeOK
  <2> QED BY <2>1, <2>2
<1>11. CASE BodyErased
  <2>1. CASE op.rc # 0
    BY <1>11, <2>1 DEF BodyErased, Ends, Fails, TypeOK, FlashTypeOK, PCs
  <2>2. CASE op.rc = 0
    <3>1. nbData \in 0 .. Space - 1 /\ DoFlash(0, nbData)
      BY <1>11, <2>2 DEF TypeOK, BodyErased, DoFlash
    <3>2. /\ OpType(op') /\ pc' \in PCs /\ (op'.kind # "returned" => pc' \in WritePlaces)
          /\ status' \in {"UNUSED", "ERASE", "WRITE"} /\ shown' \in {shown, "completed"}
      BY <1>1, <3>1, CallTypes DEF PCs
    <3>3. FlashTypeOK'
      BY <1>11, <3>2, OpTypeOK DEF BodyErased
    <3> QED BY <1>11, <2>2, <3>2, <3>3 DEF BodyErased, TypeOK
  <2> QED BY <2>1, <2>2
<1>12. CASE BodyWritten
  BY <1>12 DEF BodyWritten, Ends, Fails, Completed, TypeOK, FlashTypeOK, flashVars, PCs
<1>13. CASE TerminateWithErr
  BY <1>13 DEF TerminateWithErr, TypeOK, FlashTypeOK, flashVars, PCs
<1>14. CASE Terminate
  <2>1. FlashTypeOK' /\ op'.kind = "returned"
    <3>1. OpType(op') /\ op'.kind = "returned"
      BY <1>14, ReturnedType DEF Terminate, Returned
    <3> QED BY <1>14, <3>1 DEF Terminate, TypeOK, FlashTypeOK, OpType
  <2> QED BY <1>1, <1>14, <2>1 DEF Terminate, TypeOK, PCs
<1>15. CASE DriverStep
  <2>1. FlashTypeOK' /\ op.kind \in {"erase", "write"}
    BY <1>15, StepType DEF DriverStep, TypeOK
  <2> QED BY <1>15, <2>1 DEF DriverStep, burnVars, TypeOK
<1>16. CASE PowerLoss
  <2>1. flash' \in [Cells -> Cell]
    <3>1. PICK new \in AfterPowerLoss : new = flash'
      BY <1>16 DEF PowerLoss
    <3> QED BY <3>1, PowerTouches DEF Touches, TypeOK
  <2>2. FlashTypeOK' /\ op'.kind = "returned"
    <3>1. OpType(op') /\ op'.kind = "returned"
      BY <1>16, ReturnedType DEF PowerLoss, Returned
    <3> QED BY <1>16, <2>1, <3>1 DEF PowerLoss, TypeOK, FlashTypeOK, OpType
  <2> QED BY <1>1, <1>16, <2>2 DEF PowerLoss, TypeOK, PCs
<1>17. CASE UNCHANGED vars
  BY <1>17 DEF vars, burnVars, flashVars, TypeOK, FlashTypeOK
<1> QED BY <1>3, <1>4, <1>5, <1>6, <1>7, <1>8, <1>9, <1>10, <1>11, <1>12, <1>13, <1>14, <1>15,
           <1>16, <1>17 DEF Next, Burn

-----------------------------------------------------------------------------
\* A protected sector is never touched.
LEMMA ProtectedStep == TypeOK /\ ProtectedInv /\ [Next]_vars => ProtectedInv'
<1> SUFFICES ASSUME TypeOK, ProtectedInv, [Next]_vars PROVE ProtectedInv'
  OBVIOUS
<1>1. protected' = protected /\ (flash' = flash \/ DriverStep \/ PowerLoss)
  <2>1. CASE DriverStep
    BY <2>1, StepType DEF DriverStep, TypeOK
  <2>2. CASE PowerLoss
    BY <2>2 DEF PowerLoss
  <2>3. CASE ~DriverStep /\ ~PowerLoss
    BY <2>3 DEF Next, Burn, LoadBuffer, BurnFlashImg, Refuse, BurnBodyOnly, RefuseLoader,
       BurnWithLoader, BootErased, BootWritten, BodyErased, BodyWritten, TerminateWithErr, Terminate,
       vars, flashVars
  <2> QED BY <2>1, <2>2, <2>3
<1>2. CASE flash' = flash
  BY <1>1, <1>2 DEF ProtectedInv
<1>3. CASE DriverStep \/ PowerLoss
  <2>1. Touches(flash')
    <3>1. CASE DriverStep
      BY <3>1, StepTouches DEF DriverStep, TypeOK
    <3>2. CASE PowerLoss
      <4>1. PICK new \in AfterPowerLoss : new = flash'
        BY <3>2 DEF PowerLoss
      <4> QED BY <4>1, PowerTouches DEF TypeOK
    <3> QED BY <1>3, <3>1, <3>2
  <2>2. ASSUME NEW s \in protected, NEW c \in CellsOf(s) PROVE flash'[c] = Factory[c]
    <3>1. s \in Sectors /\ c \in Cells
      BY FlashType, OneSector DEF TypeOK
    <3>2. SectorAt(c) = s
      BY <3>1, OneSector
    <3>3. flash'[c] = flash[c]
      BY <2>1, <3>1, <3>2 DEF Touches
    <3> QED BY <3>3 DEF ProtectedInv
  <2> QED BY <1>1, <2>2 DEF ProtectedInv
<1> QED BY <1>1, <1>2, <1>3

-----------------------------------------------------------------------------
\* Where no driver call is in progress there is little to say.
LEMMA Resting ==
    ASSUME op'.kind = "returned", pc' \notin WritePlaces \cup {"terminate", "witherr"}
    PROVE  PlaceInv' /\ BurnInv' /\ CompletedStored' /\ NoSpuriousError'
BY DEF PlaceInv, BurnInv, CompletedStored, NoSpuriousError, WritePlaces, BootPlaces

\* The flash holds a proper image once it holds its loader and its body.
LEMMA HoldsStored ==
    ASSUME buffer \in Files, Fit(img),
           \A k \in 1 .. BodySize : flash[img.start + k - 1] = Data[k],
           EndsInBoot => \A k \in SkipLen + 1 .. BootLen : flash[BootBase + k - 1] = LoaderAt(k)
    PROVE  Stored(img)
<1>1. /\ Space \in Nat /\ BootBase \in Nat /\ BootLen \in Nat \ {0} /\ BootBase + BootLen = Space
      /\ BootBase <= Space - 1
  BY Boot, Geometry
<1>2. /\ img.start \in Nat /\ size \in Nat /\ size <= Space - 1 /\ BodySize \in Nat
      /\ Len(img.data) = size /\ img.erase \in Nat /\ SkipLen \in Nat
  BY <1>1, ImgType, BodyType, BurnConstants DEF size
<1>3. /\ EndsInBoot <=> img.start + img.erase = Space
      /\ BodySize = IF img.start + img.erase = Space THEN Len(img.data) - BootLen ELSE Len(img.data)
      /\ BodySize <= size
  BY <1>1, <1>2, FitCases
<1>4. ASSUME NEW k \in 1 .. BodySize PROVE flash[img.start + k - 1] = img.data[k]
  <2>1. k \in 1 .. size /\ k \in 1 .. Space
    BY <1>1, <1>2, <1>3
  <2> QED BY <2>1 DEF Data, DataAt
<1>5. ASSUME img.start + img.erase = Space, NEW k \in SkipLen + 1 .. BootLen
      PROVE  flash[BootBase + k - 1] = img.data[Len(img.data) - BootLen + k]
  <2>1. EndsInBoot /\ size >= BootLen
    BY <1>3, <1>5, FitCases
  <2>2. size - BootLen + k \in 1 .. size
    BY <1>1, <1>2, <2>1
  <2>3. LoaderAt(k) = img.data[size - BootLen + k]
    BY <2>2 DEF LoaderAt, DataAt
  <2> QED BY <1>2, <2>1, <2>3
<1> QED BY <1>3, <1>4, <1>5 DEF Stored

\* From do_flash on, with the loader in its place.
LEMMA DoFlashInv ==
    ASSUME TypeOK, Fit(img), BootHeld, DoFlash(BodyCells, BodySize),
           nbErase' = BodyCells, nbData' = BodySize, UNCHANGED <<protected, flash, failed, buffer>>
    PROVE  BurnInv' /\ CompletedStored'
<1>1. /\ buffer \in Files /\ img.start \in Nat /\ BodyCells \in Nat /\ BodySize \in Nat
      /\ BodySize <= BodyCells
  BY ImgType, BodyType, FitBody DEF TypeOK
<1>2. BootHeld'
  <2>1. \A k : LoaderAt(k)' = LoaderAt(k)
    BY SameImg DEF LoaderAt, DataAt
  <2> QED BY <2>1, SameImg DEF BootHeld
<1>3. CASE BodyCells # 0
  <2>1. pc' = "eraseBody" /\ CallErase(img.start, Wrap(img.start + BodyCells - 1))
    BY <1>3 DEF DoFlash
  <2>2. PICK first \in Nat, last \in Nat : first = img.start /\ last = img.start + BodyCells - 1
    <3>1. img.start + BodyCells - 1 \in Nat
      BY <1>1, <1>3
    <3> QED BY <1>1, <3>1
  <2>3. Wrap(img.start + BodyCells - 1) = last
    <3>1. img.start + BodyCells <= BootBase /\ BootBase < Space /\ BootBase \in Nat /\ Space \in Nat
      <4>1. BootBase \in Nat /\ Space \in Nat /\ BootBase <= Space - 1
        BY Boot, Geometry
      <4> QED BY <1>1, <4>1, FitBody
    <3>2. last < Space /\ ~(last < 0) /\ ~(last >= Space)
      BY <1>1, <2>2, <3>1
    <3> QED BY <2>2, <3>2 DEF Wrap
  <2>4. \E s, t \in Sectors : s <= t /\ Start[s] = first /\ SectorEnd(t) = last
    BY <1>1, <1>3, <2>2, FitBody
  <2>5. CallErase(first, last)
    BY <2>1, <2>2, <2>3
  <2>6. EraseInv(first, last)'
    BY <2>4, <2>5, CallEraseInv
  <2>7. img.start' = first /\ img.start' + nbErase' - 1 = last
    BY <2>2, SameImg
  <2>8. nbErase' > 0
    BY <1>1, <1>3
  <2>9. EraseInv(img.start, img.start + nbErase - 1)'
    BY <2>6, <2>7 DEF EraseInv, ErasedTo
  <2>10. BurnInv'
    BY <1>2, <2>1, <2>8, <2>9 DEF BurnInv
  <2> QED BY <2>1, <2>10 DEF CompletedStored
<1>4. CASE BodyCells = 0
  <2>1. BodySize = 0
    BY <1>1, <1>4
  <2>2. pc' = "terminate"
    BY <1>4, <2>1 DEF DoFlash, WriteBody, Completed
  <2>3. BurnInv'
    BY <2>2 DEF BurnInv
  <2>4. CompletedStored'
    <3> SUFFICES ASSUME ~failed, protected = {} PROVE Stored(img)'
      BY DEF CompletedStored
    <3>1. EndsInBoot => \A k \in SkipLen + 1 .. BootLen : flash[BootBase + k - 1] = LoaderAt(k)
      BY DEF BootHeld
    <3>2. \A k \in 1 .. BodySize : FALSE
      BY <2>1
    <3>3. Stored(img)
      BY <1>1, <3>1, <3>2, HoldsStored
    <3> QED BY <3>3, SameImg DEF Stored
  <2> QED BY <2>3, <2>4
<1> QED BY <1>3, <1>4

-----------------------------------------------------------------------------
\* Where burn_flash goes when it goes on.
LEMMA DoFlashPlace ==
    ASSUME TypeOK, NEW e \in 0 .. Space - 1, NEW d \in 0 .. Space - 1, DoFlash(e, d)
    PROVE  /\ pc' \in BodyPlaces \cup {"terminate"}
           /\ op'.kind = "erase" => pc' = "eraseBody"
           /\ op'.kind = "write" => pc' = "writeBody"
<1>1. /\ img.start \in Nat /\ Data \in [1 .. Space -> Cell] /\ Space \in Nat
  BY ImgType, Geometry DEF TypeOK
<1>2. CASE e # 0
  BY <1>2, CallEraseType DEF DoFlash, BodyPlaces
<1>3. CASE e = 0 /\ d # 0
  <2>1. PICK a \in Nat, v \in [1 .. Space -> Cell] : a = img.start /\ v = Data
    BY <1>1
  <2>2. CallWrite(a, d, v) /\ pc' = "writeBody"
    BY <1>3, <2>1 DEF DoFlash, WriteBody
  <2>3. d \in Nat /\ d <= Space
    BY <1>1
  <2> QED BY <2>2, <2>3, CallWriteType DEF BodyPlaces
<1>4. CASE e = 0 /\ d = 0
  BY <1>4 DEF DoFlash, WriteBody, Completed, Returned, BodyPlaces
<1> QED BY <1>2, <1>3, <1>4

LEMMA LoaderPlace ==
    ASSUME TypeOK, WriteLoader
    PROVE  pc' = "writeBoot" /\ op'.kind \in {"write", "returned"}
<1>1. PICK v \in [1 .. Space -> Cell] : v = LoaderData
  BY ImgType DEF TypeOK
<1>2. CallWrite(BootBase, Space - 1, v) /\ pc' = "writeBoot"
  BY <1>1 DEF WriteLoader
<1>3. Space - 1 \in Nat /\ Space - 1 <= Space /\ BootBase \in Nat
  BY Boot, Geometry
<1> QED BY <1>2, <1>3, CallWriteType

\* A place with a driver call is reached, or kept, with an image that passed its
\* checks, and with what is left to burn.
LEMMA PlaceKept ==
    ASSUME TypeOK, PlaceInv, pc \in WritePlaces, UNCHANGED <<buffer, nbErase, nbData>>,
           pc' \in WritePlaces \cup {"terminate", "witherr"},
           op'.kind = "erase" => pc' \in {"eraseBoot", "eraseBody"},
           op'.kind = "write" => pc' \in {"writeBoot", "writeBody"},
           risk' = risk \/ Risk(IF failed \/ PartlyProtected THEN "failed" ELSE "no"),
           pc' \in BootPlaces => pc \in BootPlaces /\ risk' = risk
    PROVE  PlaceInv'
<1>1. img' = img /\ (Fit(img)' <=> Fit(img)) /\ (EndsInBoot' <=> EndsInBoot)
      /\ BodyErase' = BodyErase /\ BodyData' = BodyData /\ size' = size
  BY SameImg
<1>2. pc' \in WritePlaces => img'.fault = 0
  BY <1>1 DEF PlaceInv
<1>3. pc' \in WritePlaces /\ risk' # "unfit" => Fit(img)'
  BY <1>1 DEF PlaceInv, Risk
<1>4. pc' \in BootPlaces => EndsInBoot' /\ risk' \in {"open", "unfit"}
  BY <1>1 DEF PlaceInv
<1>5. pc' \in WritePlaces =>
        /\ nbErase' = IF EndsInBoot' THEN BodyErase' ELSE img'.erase
        /\ nbData' = IF EndsInBoot' THEN BodyData' ELSE size'
  BY <1>1 DEF PlaceInv
<1> QED BY <1>2, <1>3, <1>4, <1>5 DEF PlaceInv

LEMMA PlaceStarted ==
    ASSUME TypeOK, pc = "check", img.fault = 0, UNCHANGED buffer, NEW r, Risk(r),
           nbErase' = BodyCells, nbData' = BodySize,
           op'.kind = "erase" => pc' \in {"eraseBoot", "eraseBody"},
           op'.kind = "write" => pc' \in {"writeBoot", "writeBody"},
           pc' \in BootPlaces => EndsInBoot /\ r = "open"
    PROVE  PlaceInv'
<1>1. img' = img /\ (Fit(img)' <=> Fit(img)) /\ (EndsInBoot' <=> EndsInBoot)
      /\ BodyErase' = BodyErase /\ BodyData' = BodyData /\ size' = size
  BY SameImg
<1>2. risk' # "unfit" => Fit(img)'
  BY <1>1 DEF Risk
<1>3. pc' \in BootPlaces => EndsInBoot' /\ risk' \in {"open", "unfit"}
  BY <1>1 DEF Risk
<1>4. /\ nbErase' = IF EndsInBoot' THEN BodyErase' ELSE img'.erase
      /\ nbData' = IF EndsInBoot' THEN BodyData' ELSE size'
  BY <1>1 DEF BodyCells, BodySize
<1> QED BY <1>1, <1>2, <1>3, <1>4 DEF PlaceInv

LEMMA PlaceStep == TypeOK /\ PlaceInv /\ [Next]_vars => PlaceInv'
<1> SUFFICES ASSUME TypeOK, PlaceInv, [Next]_vars PROVE PlaceInv'
  OBVIOUS
<1> USE DEF WritePlaces, BootPlaces, BodyPlaces
<1>1. /\ BodyErase \in 0 .. Space - 1 /\ BodyData \in 0 .. Space - 1
      /\ img.erase \in 0 .. Space - 1 /\ size \in 0 .. Space - 1
      /\ nbErase \in 0 .. Space - 1 /\ nbData \in 0 .. Space - 1 /\ 0 \in 0 .. Space - 1
  BY BodyType, ImgType, Boot, Geometry DEF TypeOK
<1>2. ASSUME op'.kind = "returned", pc' \notin WritePlaces PROVE PlaceInv'
  BY <1>2 DEF PlaceInv
<1>3. pc \notin WritePlaces => op.kind = "returned"
  BY DEF TypeOK
<1>4. CASE LoadBuffer \/ BurnFlashImg \/ Refuse \/ RefuseLoader \/ TerminateWithErr
  BY <1>2, <1>3, <1>4 DEF LoadBuffer, BurnFlashImg, Refuse, RefuseLoader, TerminateWithErr, Fails,
     flashVars
<1>5. CASE Terminate \/ PowerLoss
  BY <1>2, <1>5 DEF Terminate, PowerLoss, Returned
<1>6. CASE BurnBodyOnly
  <2>1. DoFlash(img.erase, size) /\ pc = "check" /\ img.fault = 0 /\ UNCHANGED buffer /\ Risk(risk)
        /\ nbErase' = BodyCells /\ nbData' = BodySize
    BY <1>6 DEF BurnBodyOnly, BodyCells, BodySize
  <2>2. /\ pc' \in BodyPlaces \cup {"terminate"}
        /\ op'.kind = "erase" => pc' = "eraseBody"
        /\ op'.kind = "write" => pc' = "writeBody"
    BY <1>1, <2>1, DoFlashPlace
  <2> QED BY <2>1, <2>2, PlaceStarted
<1>7. CASE BurnWithLoader
  <2>1. /\ pc = "check" /\ img.fault = 0 /\ UNCHANGED buffer /\ EndsInBoot
        /\ nbErase' = BodyCells /\ nbData' = BodySize
    BY <1>7 DEF BurnWithLoader, BodyCells, BodySize
  <2>2. CASE DoFlash(BodyErase, BodyData) /\ Risk(risk)
    <3>1. /\ pc' \in BodyPlaces \cup {"terminate"}
          /\ op'.kind = "erase" => pc' = "eraseBody"
          /\ op'.kind = "write" => pc' = "writeBody"
      BY <1>1, <2>2, DoFlashPlace
    <3> QED BY <2>1, <2>2, <3>1, PlaceStarted
  <2>3. CASE pc' = "eraseBoot" /\ CallErase(BootBase, Space - 1) /\ Risk("open")
    <3>1. op'.kind \in {"erase", "returned"}
      BY <2>3, CallEraseType
    <3> QED BY <2>1, <2>3, <3>1, PlaceStarted
  <2>4. CASE WriteLoader /\ Risk("open")
    BY <2>1, <2>4, LoaderPlace, PlaceStarted
  <2> QED BY <1>7, <2>2, <2>3, <2>4 DEF BurnWithLoader
<1>8. CASE BootErased
  <2>1. pc = "eraseBoot" /\ op.kind = "returned" /\ UNCHANGED <<buffer, nbErase, nbData, risk>>
    BY <1>8 DEF BootErased, Ends
  <2>2. CASE op.rc # 0
    BY <1>2, <1>8, <2>1, <2>2 DEF BootErased, Fails
  <2>3. CASE op.rc = 0 /\ WriteLoader
    BY <2>1, <2>3, LoaderPlace, PlaceKept
  <2>4. CASE op.rc = 0 /\ DoFlash(nbErase, nbData)
    BY <1>1, <2>1, <2>4, DoFlashPlace, PlaceKept
  <2> QED BY <1>8, <2>2, <2>3, <2>4 DEF BootErased
<1>9. CASE BootWritten
  <2>1. pc = "writeBoot" /\ op.kind = "returned" /\ UNCHANGED <<buffer, nbErase, nbData>>
    BY <1>9 DEF BootWritten, Ends
  <2>2. CASE op.rc # 0
    BY <1>2, <1>9, <2>1, <2>2 DEF BootWritten, Fails
  <2>3. CASE op.rc = 0
    <3>1. DoFlash(nbErase, nbData) /\ Risk(IF failed \/ PartlyProtected THEN "failed" ELSE "no")
      BY <1>9, <2>3 DEF BootWritten
    <3> QED BY <1>1, <2>1, <3>1, DoFlashPlace, PlaceKept
  <2> QED BY <2>2, <2>3
<1>10. CASE BodyErased
  <2>1. pc = "eraseBody" /\ op.kind = "returned" /\ UNCHANGED <<buffer, nbErase, nbData, risk>>
    BY <1>10 DEF BodyErased, Ends
  <2>2. CASE op.rc # 0
    BY <1>2, <1>10, <2>1, <2>2 DEF BodyErased, Fails
  <2>3. CASE op.rc = 0
    <3>1. DoFlash(0, nbData)
      BY <1>10, <2>3 DEF BodyErased, DoFlash
    <3> QED BY <1>1, <2>1, <3>1, DoFlashPlace, PlaceKept
  <2> QED BY <2>2, <2>3
<1>11. CASE BodyWritten
  BY <1>2, <1>11 DEF BodyWritten, Ends, Fails, Completed, flashVars
<1>12. CASE DriverStep
  <2>1. op.kind \in {"erase", "write"} /\ op'.kind \in {op.kind, "returned"}
    BY <1>12, StepType DEF DriverStep, TypeOK
  <2>2. UNCHANGED <<buffer, pc, nbErase, nbData, risk>> /\ pc \in WritePlaces
    BY <1>12, <2>1 DEF DriverStep, burnVars, TypeOK
  <2>3. /\ op'.kind = "erase" => pc' \in {"eraseBoot", "eraseBody"}
        /\ op'.kind = "write" => pc' \in {"writeBoot", "writeBody"}
    BY <2>1, <2>2 DEF PlaceInv
  <2> QED BY <2>2, <2>3, PlaceKept
<1>13. CASE UNCHANGED vars
  <2>1. UNCHANGED <<op, pc, buffer, nbErase, nbData, risk>>
    BY <1>13 DEF vars, burnVars, flashVars
  <2>2. CASE pc \in WritePlaces
    BY <2>1, <2>2, PlaceKept DEF PlaceInv
  <2>3. CASE pc \notin WritePlaces
    BY <1>2, <1>3, <2>1, <2>3
  <2> QED BY <2>2, <2>3
<1> QED BY <1>4, <1>5, <1>6, <1>7, <1>8, <1>9, <1>10, <1>11, <1>12, <1>13 DEF Next, Burn

-----------------------------------------------------------------------------
\* A proper image from the first call to the last.
LEMMA Unfit ==
    ASSUME UNCHANGED buffer, ~Fit(img)
    PROVE  BurnInv' /\ CompletedStored' /\ NoSpuriousError'
<1>1. ~Fit(img)'
  BY SameImg
<1> QED BY <1>1 DEF BurnInv, CompletedStored, NoSpuriousError

LEMMA HeldKept ==
    ASSUME BootHeld, UNCHANGED <<buffer, protected, failed>>,
           \A c \in BootBase .. Space - 1 : flash'[c] = flash[c]
    PROVE  BootHeld'
<1>1. (EndsInBoot' <=> EndsInBoot) /\ \A k : LoaderAt(k)' = LoaderAt(k)
  BY SameImg DEF LoaderAt, DataAt
<1>2. ASSUME NEW k \in SkipLen + 1 .. BootLen PROVE BootBase + k - 1 \in BootBase .. Space - 1
  <2>1. BootBase \in Nat /\ BootLen \in Nat /\ BootBase + BootLen = Space /\ SkipLen \in Nat
    BY Boot, BurnConstants
  <2> QED BY <2>1
<1> QED BY <1>1, <1>2 DEF BootHeld

LEMMA DriverKeeps ==
    ASSUME TypeOK, PlaceInv, BurnInv, DriverStep, Fit(img)
    PROVE  BurnInv'
<1>1. /\ FlashTypeOK /\ FlashStep /\ buffer \in Files
      /\ UNCHANGED <<buffer, pc, nbErase, nbData>>
      /\ op.kind \in {"erase", "write"} /\ protected' = protected /\ FlashTypeOK'
  BY StepType DEF TypeOK, DriverStep, burnVars
<1>2. /\ BootBase \in Cells /\ BootBase \in Nat /\ BootLen \in Nat /\ BootBase + BootLen = Space
      /\ Space \in Nat /\ Space - 1 \in Cells
      /\ BootBase + BootLen - 1 = Space - 1 /\ BootBase <= Space - 1 /\ FlashBase \in Nat
  <2>1. /\ BootBase \in Cells /\ BootBase \in Nat /\ BootLen \in Nat /\ BootBase + BootLen = Space
        /\ Space \in Nat /\ FlashBase \in Nat /\ BootLen > 0
    BY Boot, Geometry
  <2> QED BY <2>1 DEF Cells
<1>3. /\ img.start \in Cells /\ img.start \in Nat /\ BodyCells \in Nat /\ BodySize \in Nat
      /\ FlashBase <= img.start /\ BodySize <= BodyCells /\ img.start + BodyCells <= BootBase
  <2>1. img.start \in Cells
    BY <1>1, FitCases
  <2> QED BY <1>1, <2>1, ImgType, BodyType, FitBody DEF Cells
<1>4. pc \in BodyPlaces => nbErase = BodyCells /\ nbData = BodySize
  BY DEF PlaceInv, WritePlaces, BodyPlaces, BodyCells, BodySize
<1>5. img' = img /\ size' = size /\ Data' = Data /\ LoaderData' = LoaderData
  BY <1>1, SameImg
<1>6. CASE pc = "eraseBoot"
  <2>1. EraseInv(BootBase, Space - 1) /\ op.kind = "erase"
    BY <1>1, <1>6 DEF BurnInv, EraseInv
  <2>2. EraseInv(BootBase, Space - 1)'
    BY <1>1, <1>2, <2>1, EraseStep
  <2> QED BY <1>1, <1>6, <2>2 DEF BurnInv
<1>7. CASE pc = "writeBoot"
  <2>1. WriteInv(BootBase, BootLen, LoaderData) /\ op.kind = "write"
    BY <1>1, <1>7 DEF BurnInv, WriteInv
  <2>2. PICK d : d = LoaderData
    OBVIOUS
  <2>3. BootBase + BootLen - 1 \in Cells
    BY <1>2
  <2>4. WriteInv(BootBase, BootLen, d)'
    BY <1>1, <1>2, <2>1, <2>2, <2>3, WriteStep
  <2>5. WriteInv(BootBase, BootLen, LoaderData)'
    BY <1>5, <2>2, <2>4 DEF WriteInv
  <2> QED BY <1>1, <1>7, <2>5 DEF BurnInv
<1>8. ASSUME pc \in BodyPlaces, BootHeld PROVE BootHeld' \/ failed'
  <2>1. ASSUME NEW c \in BootBase .. Space - 1 PROVE flash'[c] = flash[c]
    <3>1. c \notin Touchable
      <4> SUFFICES ASSUME c \in Touchable PROVE FALSE
        OBVIOUS
      <4>1. c \in Nat /\ c < img.start + BodyCells
        BY <1>8, Reach DEF BootPlaces, BodyPlaces
      <4> QED BY <1>2, <1>3, <4>1
    <3>2. c \in Cells
      BY <1>2 DEF Cells
    <3> QED BY <1>1, <3>1, <3>2, StepTouches DEF Touches
  <2>2. ASSUME ~failed' PROVE failed' = failed
    BY <1>1, <2>2, FlashType DEF FlashStep, EraseSector, NotErased, Program
  <2> QED BY <1>1, <1>8, <2>1, <2>2, HeldKept
<1>9. ASSUME pc \in BodyPlaces, BootHeld PROVE BootHeld'
  BY <1>8, <1>9 DEF BootHeld
<1>10. CASE pc = "eraseBody"
  <2>1. EraseInv(img.start, img.start + nbErase - 1) /\ nbErase > 0 /\ BootHeld /\ op.kind = "erase"
    BY <1>1, <1>10 DEF BurnInv, EraseInv
  <2>2. img.start + nbErase - 1 \in Cells
    BY <1>2, <1>3, <1>4, <1>10, <2>1 DEF Cells, BodyPlaces
  <2>3. PICK first \in Cells, last \in Cells : first = img.start /\ last = img.start + nbErase - 1
    BY <1>3, <2>2
  <2>4. EraseInv(first, last)'
    BY <1>1, <2>1, <2>3, EraseStep
  <2>5. img'.start = first /\ img'.start + nbErase' - 1 = last
    BY <1>1, <1>5, <2>3
  <2>6. EraseInv(img.start, img.start + nbErase - 1)'
    BY <2>4, <2>5 DEF EraseInv, ErasedTo
  <2> QED BY <1>1, <1>9, <1>10, <2>1, <2>6 DEF BurnInv, BodyPlaces
<1>11. CASE pc = "writeBody"
  <2>1. /\ WriteInv(img.start, nbData, Data) /\ nbErase > 0 /\ nbData > 0 /\ BootHeld
        /\ op.kind = "write"
    BY <1>1, <1>11 DEF BurnInv, WriteInv
  <2>2. img.start + nbData - 1 \in Cells /\ nbData \in Nat
    BY <1>2, <1>3, <1>4, <1>11, <2>1 DEF Cells, BodyPlaces
  <2>3. PICK base \in Cells, n \in Nat : base = img.start /\ n = nbData
    BY <1>3, <2>2
  <2>4. PICK d : d = Data
    OBVIOUS
  <2>5. base + n - 1 \in Cells
    BY <2>2, <2>3
  <2>6. WriteInv(base, n, d)'
    BY <1>1, <2>1, <2>3, <2>4, <2>5, WriteStep
  <2>7. img'.start = base /\ nbData' = n /\ Data' = d
    BY <1>1, <1>5, <2>3, <2>4
  <2>8. WriteInv(img.start, nbData, Data)'
    BY <2>6, <2>7 DEF WriteInv, Clean, Open
  <2> QED BY <1>1, <1>9, <1>11, <2>1, <2>8 DEF BurnInv, BodyPlaces
<1>12. pc \in WritePlaces
  BY <1>1 DEF TypeOK, WritePlaces, BootPlaces
<1> QED BY <1>6, <1>7, <1>10, <1>11, <1>12 DEF WritePlaces, BootPlaces

LEMMA BurnStep ==
    TypeOK /\ PlaceInv /\ BurnInv /\ CompletedStored /\ NoSpuriousError /\ [Next]_vars
      => BurnInv' /\ CompletedStored' /\ NoSpuriousError'
<1> SUFFICES ASSUME TypeOK, PlaceInv, BurnInv, CompletedStored, NoSpuriousError, [Next]_vars
             PROVE  BurnInv' /\ CompletedStored' /\ NoSpuriousError'
  OBVIOUS
<1> USE DEF WritePlaces, BootPlaces, BodyPlaces
<1>1. FlashTypeOK /\ buffer \in Files
  BY DEF TypeOK
<1>2. pc \notin WritePlaces => op.kind = "returned"
  BY DEF TypeOK
<1>3. BodyCells \in 0 .. Space - 1 /\ BodySize \in 0 .. Space - 1
  BY <1>1, BodyType
<1>4. pc \in WritePlaces => nbErase = BodyCells /\ nbData = BodySize
  BY DEF PlaceInv, BodyCells, BodySize
<1>5. CASE LoadBuffer \/ BurnFlashImg \/ Terminate \/ PowerLoss
  BY <1>2, <1>5, Resting DEF LoadBuffer, BurnFlashImg, Terminate, PowerLoss, Returned, flashVars
<1>6. CASE Refuse \/ RefuseLoader
  BY <1>6 DEF Refuse, RefuseLoader, Fails, BurnInv, CompletedStored, NoSpuriousError
<1>7. ASSUME pc' \in BodyPlaces \cup {"terminate"} PROVE NoSpuriousError'
  BY <1>7 DEF NoSpuriousError
<1>8. ASSUME DoFlash(BodyCells, BodySize), nbErase' = BodyCells, nbData' = BodySize,
             UNCHANGED <<protected, flash, failed, buffer>>, Fit(img) => BootHeld
      PROVE  BurnInv' /\ CompletedStored' /\ NoSpuriousError'
  BY <1>3, <1>7, <1>8, DoFlashInv, DoFlashPlace, Unfit
<1>9. CASE BurnBodyOnly
  <2>1. /\ DoFlash(BodyCells, BodySize) /\ nbErase' = BodyCells /\ nbData' = BodySize
        /\ UNCHANGED <<protected, flash, failed, buffer>> /\ ~EndsInBoot
    BY <1>9 DEF BurnBodyOnly, BodyCells, BodySize
  <2> QED BY <1>8, <2>1 DEF BootHeld
<1>10. CASE BurnWithLoader
  <2>1. /\ nbErase' = BodyCells /\ nbData' = BodySize /\ EndsInBoot
        /\ UNCHANGED <<protected, flash, failed, buffer>>
    BY <1>10 DEF BurnWithLoader, BodyCells, BodySize
  <2>2. CASE ~Fit(img)
    BY <2>1, <2>2, Unfit
  <2>3. CASE Fit(img) /\ SameLoader /\ DoFlash(BodyErase, BodyData)
    <3>1. BootHeld
      BY <2>3 DEF BootHeld, SameLoader
    <3> QED BY <1>8, <2>1, <2>3, <3>1 DEF BodyCells, BodySize
  <2>4. CASE Fit(img) /\ pc' = "eraseBoot" /\ CallErase(BootBase, Space - 1)
    <3>1. PICK k \in Sectors : Start[k] = BootBase
      BY Boot
    <3>2. k <= Len(Start) /\ Len(Start) \in Sectors /\ SectorEnd(Len(Start)) = Space - 1
      <4>1. k \in 1 .. Len(Start) /\ Len(Start) \in Sectors /\ SectorEnd(Len(Start)) = Space - 1
        BY <3>1, Geometry
      <4>2. Len(Start) \in Nat
        BY FlashConstants
      <4> QED BY <4>1, <4>2
    <3>3. BootBase \in Nat /\ Space - 1 \in Nat
      BY <3>2, Boot, Geometry
    <3>4. EraseInv(BootBase, Space - 1)'
      BY <2>4, <3>1, <3>2, <3>3, CallEraseInv
    <3> QED BY <2>4, <3>4 DEF BurnInv, CompletedStored, NoSpuriousError
  <2>5. Fit(img) => img.erase # 0
    BY <1>1, FitCases
  <2> QED BY <1>10, <2>2, <2>3, <2>4, <2>5 DEF BurnWithLoader
<1>11. CASE BootErased
  <2>1. pc = "eraseBoot" /\ op.kind = "returned" /\ UNCHANGED <<protected, flash, failed, buffer>>
    BY <1>11 DEF BootErased, Ends
  <2>2. CASE ~Fit(img)
    BY <2>1, <2>2, Unfit
  <2>3. CASE Fit(img)
    <3>1. op.rc = 0 /\ ErasedTo(BootBase, Space - 1) /\ EndsInBoot
      BY <2>1, <2>3 DEF BurnInv, EraseInv, PlaceInv
    <3>2. size # 0
      <4>1. size >= BootLen /\ BootLen \in Nat \ {0}
        BY <1>1, <2>3, <3>1, FitCases, Boot
      <4> QED BY <4>1
    <3>3. WriteLoader
      BY <1>11, <3>1, <3>2 DEF BootErased
    <3>4. PICK src : src = LoaderData
      OBVIOUS
    <3>5. CallWrite(BootBase, Space - 1, src)
      BY <3>3, <3>4 DEF WriteLoader
    <3>6. WriteInv(BootBase, BootLen, src)'
      BY <1>1, <2>1, <3>1, <3>5, LoaderCall
    <3>7. LoaderData' = src
      BY <2>1, <3>4, SameImg
    <3>8. WriteInv(BootBase, BootLen, LoaderData)'
      BY <3>6, <3>7 DEF WriteInv
    <3> QED BY <3>3, <3>8 DEF WriteLoader, BurnInv, CompletedStored, NoSpuriousError
  <2> QED BY <2>2, <2>3
<1>12. CASE BootWritten
  <2>1. pc = "writeBoot" /\ op.kind = "returned" /\ UNCHANGED <<protected, flash, failed, buffer>>
    BY <1>12 DEF BootWritten, Ends
  <2>2. CASE ~Fit(img)
    BY <2>1, <2>2, Unfit
  <2>3. CASE Fit(img) /\ op.rc # 0
    <3>1. protected = {} => failed
      BY <2>1, <2>3 DEF BurnInv, WriteInv, Open
    <3>2. pc' = "witherr"
      BY <1>12, <2>3 DEF BootWritten, Fails
    <3> QED BY <2>1, <3>1, <3>2 DEF BurnInv, CompletedStored, NoSpuriousError
  <2>4. CASE Fit(img) /\ op.rc = 0
    <3>1. DoFlash(BodyCells, BodySize) /\ nbErase' = BodyCells /\ nbData' = BodySize
      BY <1>4, <1>12, <2>1, <2>4 DEF BootWritten
    <3>2. BootHeld
      <4> SUFFICES ASSUME ~failed, protected = {}, NEW k \in SkipLen + 1 .. BootLen
                   PROVE  flash[BootBase + k - 1] = LoaderAt(k)
        BY DEF BootHeld
      <4>1. /\ BootBase \in Nat /\ BootLen \in Nat /\ BootBase + BootLen = Space /\ SkipLen \in Nat
        BY Boot, BurnConstants
      <4>2. BootBase + k - 1 \in BootBase .. BootBase + BootLen - 1 /\ (BootBase + k - 1) - BootBase + 1 = k
            /\ k \in 1 .. Space
        BY <4>1
      <4>3. flash[BootBase + k - 1] = LoaderData[(BootBase + k - 1) - BootBase + 1]
        BY <2>1, <2>4, <4>2 DEF BurnInv, WriteInv, Clean, Open
      <4> QED BY <4>2, <4>3 DEF LoaderData
    <3> QED BY <1>8, <2>1, <3>1, <3>2
  <2> QED BY <2>2, <2>3, <2>4
<1>13. CASE BodyErased
  <2>1. pc = "eraseBody" /\ op.kind = "returned" /\ UNCHANGED <<protected, flash, failed, buffer>>
        /\ nbErase' = nbErase /\ nbData' = nbData
    BY <1>13 DEF BodyErased, Ends
  <2>2. CASE ~Fit(img)
    BY <2>1, <2>2, Unfit
  <2>3. CASE Fit(img)
    <3>1. /\ op.rc = 0 /\ nbErase > 0 /\ BootHeld /\ nbErase = BodyCells /\ nbData = BodySize
          /\ ErasedTo(img.start, img.start + BodyCells - 1)
      BY <1>4, <2>1, <2>3 DEF BurnInv, EraseInv
    <3>2. WriteBody(BodySize)
      BY <1>13, <3>1 DEF BodyErased
    <3>3. BootHeld'
      BY <2>1, <3>1, HeldKept
    <3>4. CASE BodySize # 0
      <4>1. pc' = "writeBody" /\ CallWrite(img.start, BodySize, Data)
        BY <3>2, <3>4 DEF WriteBody
      <4>2. WriteInv(img.start, BodySize, Data)'
        BY <1>1, <2>1, <2>3, <3>1, <3>4, <4>1, BodyCall
      <4>3. nbData' = BodySize' /\ nbData' > 0 /\ nbErase' > 0
        <5>1. BodySize > 0
          <6>1. BodySize \in Nat
            BY <1>3
          <6> QED BY <3>4, <6>1
        <5> QED BY <2>1, <3>1, <5>1, SameImg
      <4>4. WriteInv(img.start, nbData, Data)'
        BY <4>2, <4>3
      <4> QED BY <3>3, <4>1, <4>3, <4>4 DEF BurnInv, CompletedStored, NoSpuriousError
    <3>5. CASE BodySize = 0
      <4>1. pc' = "terminate"
        BY <3>2, <3>5 DEF WriteBody, Completed
      <4>2. CompletedStored'
        <5> SUFFICES ASSUME ~failed, protected = {} PROVE Stored(img)'
          BY <2>1 DEF CompletedStored
        <5>1. EndsInBoot => \A k \in SkipLen + 1 .. BootLen : flash[BootBase + k - 1] = LoaderAt(k)
          BY <3>1 DEF BootHeld
        <5>2. \A k \in 1 .. BodySize : FALSE
          BY <3>5
        <5>3. Stored(img)
          BY <1>1, <2>3, <5>1, <5>2, HoldsStored
        <5> QED BY <2>1, <5>3, SameImg DEF Stored
      <4> QED BY <4>1, <4>2 DEF BurnInv, NoSpuriousError
    <3> QED BY <3>4, <3>5
  <2> QED BY <2>2, <2>3
<1>14. CASE BodyWritten
  <2>1. pc = "writeBody" /\ op.kind = "returned" /\ UNCHANGED <<protected, flash, failed, buffer>>
    BY <1>14 DEF BodyWritten, Ends, flashVars
  <2>2. CASE ~Fit(img)
    BY <2>1, <2>2, Unfit
  <2>3. CASE Fit(img) /\ op.rc # 0
    <3>1. protected = {} => failed
      BY <2>1, <2>3 DEF BurnInv, WriteInv, Open
    <3>2. pc' = "witherr"
      BY <1>14, <2>3 DEF BodyWritten, Fails
    <3> QED BY <2>1, <3>1, <3>2 DEF BurnInv, CompletedStored, NoSpuriousError
  <2>4. CASE Fit(img) /\ op.rc = 0
    <3>1. pc' = "terminate"
      BY <1>14, <2>4 DEF BodyWritten, Completed
    <3>2. CompletedStored'
      <4> SUFFICES ASSUME ~failed, protected = {} PROVE Stored(img)'
        BY <2>1 DEF CompletedStored
      <4>1. EndsInBoot => \A k \in SkipLen + 1 .. BootLen : flash[BootBase + k - 1] = LoaderAt(k)
        BY <2>1, <2>4 DEF BurnInv, BootHeld
      <4>2. \A c \in img.start .. img.start + BodySize - 1 : flash[c] = Data[c - img.start + 1]
        BY <1>4, <2>1, <2>4 DEF BurnInv, WriteInv, Clean, Open
      <4>3. ASSUME NEW k \in 1 .. BodySize PROVE flash[img.start + k - 1] = Data[k]
        <5>1. img.start \in Nat /\ BodySize \in Nat
          BY <1>1, <1>3, ImgType
        <5>2. img.start + k - 1 \in img.start .. img.start + BodySize - 1
              /\ (img.start + k - 1) - img.start + 1 = k
          BY <5>1
        <5> QED BY <4>2, <5>2
      <4>4. Stored(img)
        BY <1>1, <2>4, <4>1, <4>3, HoldsStored
      <4> QED BY <2>1, <4>4, SameImg DEF Stored
    <3> QED BY <3>1, <3>2 DEF BurnInv, NoSpuriousError
  <2> QED BY <2>2, <2>3, <2>4
<1>15. CASE TerminateWithErr
  BY <1>15 DEF TerminateWithErr, BurnInv, CompletedStored, NoSpuriousError
<1>16. CASE DriverStep
  <2>1. UNCHANGED <<buffer, pc>> /\ pc \in WritePlaces
    BY <1>1, <1>2, <1>16, StepType DEF DriverStep, burnVars
  <2>2. CASE ~Fit(img)
    BY <2>1, <2>2, Unfit
  <2>3. CASE Fit(img)
    BY <1>16, <2>1, <2>3, DriverKeeps DEF CompletedStored, NoSpuriousError
  <2> QED BY <2>2, <2>3
<1>17. CASE UNCHANGED vars
  <2>1. UNCHANGED <<protected, flash, op, failed, buffer, pc, nbErase, nbData, ret, shown>>
    BY <1>17 DEF vars, burnVars, flashVars
  <2>2. /\ img' = img /\ (Fit(img)' <=> Fit(img)) /\ Data' = Data /\ LoaderData' = LoaderData
    BY <2>1, SameImg
  <2>3. BootHeld => BootHeld'
    BY <2>1, HeldKept
  <2>4. BurnInv'
    BY <2>1, <2>2, <2>3 DEF BurnInv, EraseInv, ErasedTo, WriteInv, Clean, Open
  <2>5. CompletedStored' /\ NoSpuriousError'
    BY <2>1, <2>2 DEF CompletedStored, NoSpuriousError, Stored
  <2> QED BY <2>4, <2>5
<1> QED BY <1>5, <1>6, <1>9, <1>10, <1>11, <1>12, <1>13, <1>14, <1>15, <1>16, <1>17 DEF Next, Burn

-----------------------------------------------------------------------------
\* The loader at risk.
LEMMA AreaKept ==
    ASSUME \A c \in BootBase .. Space - 1 : flash'[c] = flash[c]
    PROVE  BootArea(flash)' = BootArea(flash)
<1>1. ASSUME NEW k \in 1 .. BootLen PROVE BootBase + k - 1 \in BootBase .. Space - 1
  <2>1. BootBase \in Nat /\ BootLen \in Nat /\ BootBase + BootLen = Space
    BY Boot
  <2> QED BY <2>1
<1> QED BY <1>1 DEF BootArea

\* A risk that is not raised, with the loader left alone.
LEMMA RiskKept ==
    ASSUME RiskInv, BootArea(flash)' = BootArea(flash), risk' \in {risk, "unfit", "told"},
           risk' = "open" => pc' \in BootPlaces \cup {"dead"} \/ (pc' = "witherr" /\ ret' = 2)
    PROVE  RiskInv'
BY DEF RiskInv, Bootable

\* The driver, or a loss of power, leaves a loader alone that is not at risk.
LEMMA LoaderAlone ==
    ASSUME TypeOK, PlaceInv, BurnInv, risk = "no", Touches(flash'),
           NEW c \in BootBase .. Space - 1
    PROVE  flash'[c] = flash[c]
<1>1. BootBase \in Cells /\ BootBase \in Nat /\ Space \in Nat /\ FlashBase \in Nat /\ FlashBase <= BootBase
  BY Boot, Geometry DEF Cells
<1>2. c \in Cells /\ c \in Nat /\ BootBase <= c
  BY <1>1 DEF Cells
<1>3. c \notin Touchable
  <2> SUFFICES ASSUME c \in Touchable PROVE FALSE
    OBVIOUS
  <2>1. pc \in WritePlaces
    BY DEF Touchable, PlaceInv, WritePlaces, BootPlaces
  <2>2. Fit(img) /\ pc \notin BootPlaces /\ buffer \in Files
    BY <2>1 DEF PlaceInv, TypeOK
  <2>3. c < img.start + BodyCells
    BY <2>2, Reach
  <2>4. img.start \in Nat /\ BodyCells \in Nat /\ img.start + BodyCells <= BootBase
    BY <1>1, <2>2, ImgType, BodyType, FitBody
  <2> QED BY <1>1, <1>2, <2>3, <2>4
<1> QED BY <1>2, <1>3 DEF Touches

\* A loader that was written without a fault is in its place.
LEMMA LoaderWritten ==
    ASSUME TypeOK, ProtectedInv, PlaceInv, BurnInv, Fit(img), pc = "writeBoot", op.kind = "returned",
           op.rc = 0, ~failed, ~PartlyProtected
    PROVE  BootArea(flash) \in Loaders
<1>1. /\ BootBase \in Nat /\ BootLen \in Nat /\ BootBase + BootLen = Space /\ Space \in Nat
      /\ BootBase \in Cells
  BY Boot, Geometry
<1>2. CASE protected \cap BootSectors = {}
  <2>1. Open(BootBase, BootBase + BootLen - 1)
    <3> SUFFICES ASSUME NEW s \in protected PROVE SectorEnd(s) < BootBase
      BY DEF Open
    <3>1. s \in Sectors /\ ~(Start[s] >= BootBase)
      BY <1>2, FlashType DEF BootSectors, TypeOK
    <3>2. PICK k \in Sectors : Start[k] = BootBase
      BY Boot
    <3>3. /\ Start[s] \in Nat /\ SectorEnd(s) \in Nat /\ SectorEnd(k) \in Nat
          /\ Start[k] <= SectorEnd(k)
      BY <3>1, Geometry
    <3>4. BootBase \in CellsOf(k) /\ s # k
      BY <1>1, <3>1, <3>2, <3>3 DEF CellsOf
    <3>5. BootBase \notin CellsOf(s)
      BY <1>1, <3>1, <3>4, OneSector
    <3> QED BY <1>1, <3>1, <3>3, <3>5 DEF CellsOf
  <2>2. \A c \in BootBase .. BootBase + BootLen - 1 : flash[c] = LoaderData[c - BootBase + 1]
    BY <2>1 DEF BurnInv, WriteInv, Clean
  <2>3. ASSUME NEW k \in 1 .. BootLen PROVE flash[BootBase + k - 1] = LoaderAt(k)
    <3>1. /\ BootBase + k - 1 \in BootBase .. BootBase + BootLen - 1
          /\ (BootBase + k - 1) - BootBase + 1 = k /\ k \in 1 .. Space
      BY <1>1
    <3>2. flash[BootBase + k - 1] = LoaderData[(BootBase + k - 1) - BootBase + 1]
      BY <2>2, <3>1
    <3> QED BY <3>1, <3>2 DEF LoaderData
  <2>4. BootArea(flash) = [k \in 1 .. BootLen |-> LoaderAt(k)]
    BY <2>3 DEF BootArea
  <2>5. EndsInBoot /\ buffer \in Files
    BY DEF PlaceInv, BootPlaces, TypeOK
  <2> QED BY <2>4, <2>5, FitCases
<1>3. CASE protected \cap BootSectors = BootSectors
  <2>1. ASSUME NEW k \in 1 .. BootLen PROVE flash[BootBase + k - 1] = Factory[BootBase + k - 1]
    <3>1. BootBase + k - 1 \in Nat /\ BootBase <= BootBase + k - 1 /\ BootBase + k - 1 <= Space - 1
      BY <1>1
    <3>2. PICK c \in Cells : c = BootBase + k - 1
      <4>1. FlashBase \in Nat /\ FlashBase <= BootBase
        BY <1>1, Geometry DEF Cells
      <4>2. BootBase + k - 1 \in Cells
        BY <1>1, <3>1, <4>1 DEF Cells
      <4> QED BY <4>2
    <3>3. PICK s \in Sectors : c \in CellsOf(s)
      BY OneSector
    <3>4. Start[s] >= BootBase
      <4> SUFFICES ASSUME ~(Start[s] >= BootBase) PROVE FALSE
        OBVIOUS
      <4>1. PICK t \in Sectors : Start[t] = BootBase
        BY Boot
      <4>2. /\ Start[s] \in Nat /\ SectorEnd(s) \in Nat /\ SectorEnd(t) \in Nat
            /\ Start[t] <= SectorEnd(t) /\ c <= SectorEnd(s)
        BY <3>3, <4>1, Geometry DEF CellsOf
      <4>3. BootBase \in CellsOf(s) /\ BootBase \in CellsOf(t)
        BY <1>1, <3>1, <3>2, <4>1, <4>2 DEF CellsOf
      <4>4. s = t
        BY <1>1, <4>3, OneSector
      <4> QED BY <1>1, <4>1, <4>4
    <3>5. s \in protected
      BY <1>3, <3>4 DEF BootSectors
    <3> QED BY <3>2, <3>3, <3>5 DEF ProtectedInv
  <2>2. BootArea(flash) = [k \in 1 .. BootLen |-> Factory[BootBase + k - 1]]
    BY <2>1 DEF BootArea
  <2> QED BY <2>2, BurnConstants
<1> QED BY <1>2, <1>3 DEF PartlyProtected

LEMMA RiskStep ==
    TypeOK /\ ProtectedInv /\ PlaceInv /\ RiskInv /\ BurnInv /\ [Next]_vars => RiskInv'
<1> SUFFICES ASSUME TypeOK, ProtectedInv, PlaceInv, RiskInv, BurnInv, [Next]_vars PROVE RiskInv'
  OBVIOUS
<1> USE DEF BootPlaces
<1>1. /\ BodyErase \in 0 .. Space - 1 /\ BodyData \in 0 .. Space - 1
      /\ img.erase \in 0 .. Space - 1 /\ size \in 0 .. Space - 1
      /\ nbErase \in 0 .. Space - 1 /\ nbData \in 0 .. Space - 1 /\ buffer \in Files
  BY BodyType, ImgType DEF TypeOK
<1>2. flash' = flash => BootArea(flash)' = BootArea(flash)
  BY DEF BootArea
<1>3. CASE LoadBuffer \/ BurnFlashImg \/ Refuse \/ RefuseLoader \/ TerminateWithErr \/ Terminate
           \/ BodyErased \/ BodyWritten
  <2>1. flash' = flash /\ pc \notin BootPlaces \cup {"dead"} /\ risk' \in {risk, "told"}
    BY <1>3 DEF LoadBuffer, BurnFlashImg, Refuse, RefuseLoader, TerminateWithErr, Terminate,
       BodyErased, BodyWritten, Ends, flashVars
  <2>2. risk' # "open"
    <3>1. CASE pc # "witherr"
      <4>1. ~TerminateWithErr
        BY <3>1 DEF TerminateWithErr
      <4>2. risk' = risk
        BY <1>3, <4>1 DEF LoadBuffer, BurnFlashImg, Refuse, RefuseLoader, Terminate, BodyErased,
           BodyWritten
      <4> QED BY <2>1, <3>1, <4>2 DEF RiskInv
    <3>2. CASE pc = "witherr"
      <4>1. TerminateWithErr
        BY <1>3, <3>2 DEF LoadBuffer, BurnFlashImg, Refuse, RefuseLoader, Terminate, BodyErased,
           BodyWritten, Ends
      <4> QED BY <3>2, <4>1 DEF TerminateWithErr, RiskInv
    <3> QED BY <3>1, <3>2
  <2> QED BY <1>2, <2>1, <2>2, RiskKept
<1>4. CASE BurnBodyOnly
  <2>1. flash' = flash /\ risk # "open" /\ risk' \in {risk, "unfit"}
    BY <1>4 DEF BurnBodyOnly, Risk, RiskInv
  <2> QED BY <1>2, <2>1, RiskKept
<1>5. CASE BurnWithLoader
  <2>1. flash' = flash /\ risk # "open"
    BY <1>5 DEF BurnWithLoader, RiskInv
  <2>2. CASE Risk(risk)
    <3>1. risk' \in {risk, "unfit"}
      BY <2>2 DEF Risk
    <3> QED BY <1>2, <2>1, <3>1, RiskKept
  <2>3. CASE Risk("open") /\ (pc' = "eraseBoot" \/ WriteLoader)
    <3>1. risk' \in {"open", "unfit"} /\ pc' \in BootPlaces
      BY <2>3 DEF Risk, WriteLoader
    <3> QED BY <3>1 DEF RiskInv, Bootable
  <2> QED BY <1>5, <2>2, <2>3 DEF BurnWithLoader
<1>6. CASE BootErased
  <2>1. pc = "eraseBoot" /\ flash' = flash /\ risk' = risk
    BY <1>6 DEF BootErased, Ends
  <2>2. CASE op.rc # 0
    <3>1. pc' = "witherr" /\ ret' = 2
      BY <1>6, <2>2 DEF BootErased, Fails
    <3> QED BY <1>2, <2>1, <3>1, RiskKept
  <2>3. CASE op.rc = 0 /\ WriteLoader
    <3>1. pc' = "writeBoot"
      BY <2>3 DEF WriteLoader
    <3> QED BY <1>2, <2>1, <3>1, RiskKept
  <2>4. CASE op.rc = 0 /\ size = 0
    <3>1. risk # "open"
      <4> SUFFICES ASSUME risk = "open" PROVE FALSE
        OBVIOUS
      <4>1. Fit(img) /\ EndsInBoot
        BY <2>1 DEF PlaceInv, WritePlaces
      <4>2. size >= BootLen /\ BootLen \in Nat \ {0}
        BY <1>1, <4>1, FitCases, Boot
      <4> QED BY <2>4, <4>2
    <3> QED BY <1>2, <2>1, <3>1, RiskKept
  <2> QED BY <1>6, <2>2, <2>3, <2>4 DEF BootErased
<1>7. CASE BootWritten
  <2>1. pc = "writeBoot" /\ op.kind = "returned" /\ flash' = flash
    BY <1>7 DEF BootWritten, Ends
  <2>2. CASE op.rc # 0
    <3>1. pc' = "witherr" /\ ret' = 2 /\ risk' = risk
      BY <1>7, <2>2 DEF BootWritten, Fails
    <3> QED BY <1>2, <2>1, <3>1, RiskKept
  <2>3. CASE op.rc = 0
    <3>1. risk' = IF Fit(img) THEN (IF failed \/ PartlyProtected THEN "failed" ELSE "no") ELSE "unfit"
      BY <1>7, <2>3 DEF BootWritten, Risk
    <3>2. risk' = "no" => BootArea(flash) \in Loaders
      BY <2>1, <2>3, <3>1, LoaderWritten
    <3> QED BY <1>2, <2>1, <3>1, <3>2 DEF RiskInv, Bootable
  <2> QED BY <2>2, <2>3
<1>8. CASE DriverStep
  <2>1. UNCHANGED <<pc, ret, risk>> /\ Touches(flash')
    BY <1>8, StepTouches DEF DriverStep, burnVars, TypeOK
  <2>2. risk = "no" => BootArea(flash)' = BootArea(flash)
    BY <2>1, LoaderAlone, AreaKept
  <2> QED BY <2>1, <2>2 DEF RiskInv, Bootable
<1>9. CASE PowerLoss
  <2>1. /\ risk' = IF BootArea(flash') \in Loaders THEN "no" ELSE risk
        /\ pc' = IF BootArea(flash') \in Loaders THEN "idle" ELSE "dead"
    BY <1>9 DEF PowerLoss
  <2>2. Touches(flash')
    <3>1. PICK new \in AfterPowerLoss : new = flash'
      BY <1>9 DEF PowerLoss
    <3> QED BY <3>1, PowerTouches DEF TypeOK
  <2>3. BootArea(flash)' = BootArea(flash')
    BY DEF BootArea
  <2>4. risk = "no" => BootArea(flash') \in Loaders
    BY <2>2, <2>3, LoaderAlone, AreaKept DEF RiskInv, Bootable
  <2> QED BY <2>1, <2>3, <2>4 DEF RiskInv, Bootable
<1>10. CASE UNCHANGED vars
  <2>1. UNCHANGED <<flash, pc, ret, risk>>
    BY <1>10 DEF vars, burnVars, flashVars
  <2> QED BY <1>2, <2>1 DEF RiskInv, Bootable
<1> QED BY <1>3, <1>4, <1>5, <1>6, <1>7, <1>8, <1>9, <1>10 DEF Next, Burn

-----------------------------------------------------------------------------
LEMMA InitInv == Init => Inv
<1> SUFFICES ASSUME Init PROVE Inv
  OBVIOUS
<1>1. op.kind = "returned" /\ op.rc = 0 /\ pc = "idle" /\ risk = "no" /\ flash = Factory
  BY DEF Init, Returned
<1>2. FlashTypeOK
  <2>1. protected \in Protections /\ failed \in BOOLEAN
    BY DEF Init
  <2>2. flash \in [Cells -> Cell]
    BY <1>1, BurnConstants
  <2>3. op \in [kind : {"returned"}, rc : 0 .. 2]
    BY DEF Init, Returned
  <2> QED BY <2>1, <2>2, <2>3 DEF FlashTypeOK
<1>3. 0 \in 0 .. Space - 1
  BY Boot, Geometry
<1>4. TypeOK
  BY <1>1, <1>2, <1>3 DEF Init, TypeOK, PCs
<1>5. BootArea(flash) \in Loaders
  BY <1>1, BurnConstants DEF BootArea
<1> QED BY <1>1, <1>4, <1>5 DEF Inv, ProtectedInv, PlaceInv, RiskInv, Bootable, BurnInv,
           CompletedStored, NoSpuriousError, WritePlaces, BootPlaces

LEMMA NextInv == Inv /\ [Next]_vars => Inv'
BY TypeStep, ProtectedStep, PlaceStep, RiskStep, BurnStep DEF Inv

THEOREM Invariant == Spec => []Inv
BY InitInv, NextInv, PTL DEF Spec

\* burn_flash and the driver keep to their types: every address the driver is at
\* is in the flash, every counter in its range.
THEOREM TypeCorrect == Spec => []TypeOK
<1>1. Inv => TypeOK
  BY DEF Inv
<1> QED BY <1>1, Invariant, PTL

\* Outside the window burn_flash announces, the flash holds a loader that starts
\* the box, after any losses of power, on any flash.
THEOREM StaysBootable == Spec => []Bootable
<1>1. Inv => Bootable
  BY DEF Inv, RiskInv
<1> QED BY <1>1, Invariant, PTL

\* burn_flash returns with the loader half replaced only after its warning, or
\* from a burn of an image that is no proper one or on a chip that failed or that
\* protects a part of the loader.
THEOREM LossIsTold == Spec => []NoSilentLoss
<1>1. Inv => NoSilentLoss
  BY DEF Inv, RiskInv, Bootable, NoSilentLoss, BootPlaces, TypeOK
<1> QED BY <1>1, Invariant, PTL

\* What burn_flash reports as completed is in the flash, for every proper image on
\* every flash, whatever earlier burns and losses of power left.
THEOREM CompletedIsStored == Spec => []CompletedStored
<1>1. Inv => CompletedStored
  BY DEF Inv
<1> QED BY <1>1, Invariant, PTL

\* A flash error of a proper image is the fault of the chip.
THEOREM ErrorIsReal == Spec => []NoSpuriousError
<1>1. Inv => NoSpuriousError
  BY DEF Inv
<1> QED BY <1>1, Invariant, PTL

\* No step of a burn, a loss of power included, touches a cell outside the range
\* its header names.
THEOREM OnlyTargetTouched == Spec => OnlyTarget
<1>1. ASSUME Inv, Next, pc # "idle", Fit(img) \/ img.fault # 0, NEW c \in Cells, flash'[c] # flash[c]
      PROVE  InRange(c) /\ img.fault = 0
  <2>1. TypeOK /\ PlaceInv /\ BurnInv /\ buffer \in Files
    BY <1>1 DEF Inv, TypeOK
  <2>2. Touches(flash')
    <3>1. CASE DriverStep
      BY <2>1, <3>1, StepTouches DEF DriverStep, TypeOK
    <3>2. CASE PowerLoss
      <4>1. PICK new \in AfterPowerLoss : new = flash'
        BY <3>2 DEF PowerLoss
      <4> QED BY <2>1, <4>1, PowerTouches DEF TypeOK
    <3>3. CASE ~DriverStep /\ ~PowerLoss
      <4>1. flash' = flash
        BY <1>1, <3>3 DEF Next, Burn, LoadBuffer, BurnFlashImg, Refuse, BurnBodyOnly, RefuseLoader,
           BurnWithLoader, BootErased, BootWritten, BodyErased, BodyWritten, TerminateWithErr,
           Terminate, flashVars
      <4> QED BY <1>1, <4>1
    <3> QED BY <3>1, <3>2, <3>3
  <2>3. c \in Touchable
    BY <1>1, <2>2 DEF Touches
  <2>4. img.fault = 0
    BY <2>1, <2>3 DEF Touchable, PlaceInv, WritePlaces, BootPlaces
  <2>5. Fit(img)
    BY <1>1, <2>4
  <2>6. /\ c \in Nat
        /\ \/ pc \in BootPlaces /\ EndsInBoot /\ BootBase <= c /\ c < Space
           \/ pc \in BodyPlaces /\ img.start <= c /\ c < img.start + BodyCells
    BY <2>1, <2>3, <2>5, Reach
  <2>7. /\ img.start \in Nat /\ img.erase \in Nat /\ BootBase \in Nat /\ Space \in Nat
        /\ BodyCells \in Nat /\ BootBase <= Space
    <3>1. BootBase \in Nat /\ Space \in Nat /\ BootBase <= Space - 1
      BY Boot, Geometry
    <3> QED BY <2>1, <3>1, ImgType, BodyType
  <2>8. /\ EndsInBoot => /\ img.start <= BootBase /\ img.start + img.erase = Space
                         /\ BodyCells = BootBase - img.start
        /\ ~EndsInBoot => BodyCells = img.erase
    BY <2>1, <2>5, FitCases
  <2>9. img.start <= c /\ c < img.start + img.erase
    BY <2>6, <2>7, <2>8
  <2>10. c \in img.start .. img.start + img.erase - 1
    BY <2>6, <2>7, <2>9
  <2> QED BY <2>4, <2>10 DEF InRange
<1>2. Inv /\ [Next]_vars =>
        [(pc # "idle" /\ (Fit(img) \/ img.fault # 0)) =>
            \A c \in Cells : flash'[c] # flash[c] => InRange(c) /\ img.fault = 0]_vars
  BY <1>1
<1> QED BY <1>2, Invariant, PTL DEF Spec, OnlyTarget
=============================================================================
