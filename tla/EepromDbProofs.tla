--------------------------- MODULE EepromDbProofs ---------------------------
(***************************************************************************)
(* The EEPROM database, for every size of the device and every set of keys *)
(* and values: what its writes stay within, that its chain stays readable, *)
(* what a search in it finds, and that it implements KeyStore.             *)
(***************************************************************************)
EXTENDS EepromDb, WellFoundedInduction, TLAPS

-----------------------------------------------------------------------------
(* Every write stays within twice the device and writes numbers, whatever  *)
(* fails and wherever power is lost: the type invariant.                   *)

DelPlaces == {"delWalk", "delNext", "delSave"}
AddPlaces == {"addSearch", "addData", "fitHead", "splitHead", "appData", "appHead"}
EndPlaces == {"splitRest", "appEnd"}
ItemPlaces == DelPlaces \cup AddPlaces \cup EndPlaces \cup {"appUndo"}
StartPlaces == {"magic", "initEnd", "initMagic"}

\* Which operation is where, and with which key.
CmdInv ==
    /\ pc \in StartPlaces => cmd \in AllCommands \ {"eepromadd"} /\ key \in Keys
    /\ pc \in DelPlaces => cmd \in {"add", "eepromadd", "del", "clear"} /\ key \in Keys
    /\ pc \in ItemPlaces \ DelPlaces => cmd \in {"add", "eepromadd", "clear"} /\ key \in Keys
    /\ pc \in {"clrWalk", "clrImage"} => cmd = "clear"
    /\ pc \in {"envWalk", "dumpWalk"} => cmd \in {"toenv", "dump"} /\ key \in Keys
    /\ cmd \in AllCommands => cmd \in Commands
    /\ cmd = "clear" /\ pc \notin {"idle", "undefined"} => key \in {Ethaddr, Prodnum}

\* A value that fits into an empty database.
Short(d) == MagicSize + 2 * HeadSize + Len(d) < Size

\* The values and the places the writes take.
SizeInv ==
    /\ Short(data) /\ \A k \in {Ethaddr, Prodnum} : Len(kept[k]) < CopySize
    /\ prev.key = Null => InRange(prev.off)
    /\ pc \in {"delNext", "delSave"} \cup (ItemPlaces \ (DelPlaces \cup {"addSearch"}))
          => InRange(off)
    /\ pc = "addData" => Fits(len)
    /\ pc \in {"splitHead", "splitRest"} => len >= Len(data) + HeadSize

TypeInv == TypeOK /\ CmdInv /\ SizeInv

-----------------------------------------------------------------------------
Mem == [Addr -> Nat]

\* A write that starts before twice the size puts its own cells, or leaves the
\* old ones: eeprom_write with an address counter that wraps.
LEMMA WrittenType ==
    ASSUME NEW mem \in Mem, NEW a \in Nat, a < 2 * Size, NEW cells \in Seq(Nat),
           NEW n \in Nat, n <= Len(cells)
    PROVE  Written(mem, a, cells, n) \in Mem
<1> DEFINE b == IF a < Size THEN a ELSE a - Size
           i(c) == IF c >= b THEN c - b ELSE c + Size - b
           new == [c \in Addr |-> IF i(c) < n THEN cells[i(c) + 1] ELSE mem[c]]
<1>1. b \in Nat /\ b < Size
  BY DbConstants
<1>2. ASSUME NEW c \in Addr PROVE i(c) \in Nat
  BY <1>1, <1>2, DbConstants DEF Addr
<1>3. ASSUME NEW c \in Addr PROVE (IF i(c) < n THEN cells[i(c) + 1] ELSE mem[c]) \in Nat
  <2>1. mem[c] \in Nat
    BY DEF Mem
  <2>2. i(c) < n => i(c) + 1 \in 1 .. Len(cells)
    BY <1>2
  <2> HIDE DEF i
  <2> QED BY <2>1, <2>2
<1>4. new \in Mem
  BY <1>3 DEF Mem
<1> QED BY <1>4 DEF Written

LEMMA HeaderSeq ==
    ASSUME NEW k \in Nat, NEW l \in Nat
    PROVE  /\ Header(k, l) \in Seq(Nat) /\ Len(Header(k, l)) = HeadSize
           /\ Header(k, l)[1] = k /\ Header(k, l)[2] = l
BY DEF Header, HeadSize

\* The smallest device the assumptions allow, and the keys.
LEMMA Sizes == /\ Size \in Nat /\ Size >= 6 /\ ImageSize <= Size /\ Short(<<>>)
               /\ \A k \in Keys : k \in Nat /\ k # Null /\ k # End
BY DbConstants, DbRoom DEF ImageEnd, MagicSize, HeadSize, Short

LEMMA ImageSeq == Image \in Seq(Nat) /\ Len(Image) = ImageSize
BY DbConstants DEF Image, ImageCell, End

\* What each place writes.
LEMMA PendingIs ==
    /\ pc = "initEnd" => Pending = [at |-> MagicSize, cells |-> Header(End, 0)]
    /\ pc = "initMagic" => Pending = [at |-> 0, cells |-> <<Magic>>]
    /\ pc = "delSave" => Pending = [at |-> off, cells |-> Header(Null, len)]
    /\ pc \in {"addData", "appData"} => Pending = [at |-> off + HeadSize, cells |-> data]
    /\ pc \in {"fitHead", "splitHead", "appHead"} =>
          Pending = [at |-> off, cells |-> Header(key, Len(data))]
    /\ pc = "splitRest" =>
          Pending = [at |-> ItemEnd, cells |-> Header(Null, len - Len(data) - HeadSize)]
    /\ pc = "appEnd" => Pending = [at |-> ItemEnd, cells |-> Header(End, 0)]
    /\ pc = "appUndo" => Pending = [at |-> off, cells |-> Header(End, 0)]
    /\ pc = "clrImage" => Pending = [at |-> 0, cells |-> Image]
    /\ pc \notin {"initEnd", "initMagic", "delSave", "addData", "appData", "fitHead",
                  "splitHead", "appHead", "splitRest", "appEnd", "appUndo", "clrImage"}
          => Pending = [at |-> 0, cells |-> <<>>]
BY DEF Pending

\* Every place that writes has a good address and good cells.
LEMMA PendingType ==
    ASSUME TypeInv
    PROVE  /\ Pending.at \in Nat /\ Pending.at < 2 * Size
           /\ Pending.cells \in Seq(Nat)
<1> DEFINE Good(w) == w.at \in Nat /\ w.at < 2 * Size /\ w.cells \in Seq(Nat)
<1>0. /\ Size \in Nat /\ Size >= 6
      /\ data \in Seq(Nat) /\ Len(data) \in Nat /\ Len(data) < Size
      /\ off \in Nat /\ len \in Nat /\ key \in Nat
  <2>1. data \in Seq(Nat) /\ off \in Nat /\ len \in Nat /\ key \in Keys \cup {Null}
    BY DEF TypeInv, TypeOK
  <2>2. Short(data)
    BY DEF TypeInv, SizeInv
  <2>3. Size \in Nat /\ Size >= 6 /\ key \in Nat
    BY <2>1, Sizes DEF Null
  <2> QED BY <2>1, <2>2, <2>3 DEF Short, MagicSize, HeadSize
<1>1. ASSUME NEW a \in Nat, a < 2 * Size, NEW cells \in Seq(Nat)
      PROVE  Good([at |-> a, cells |-> cells])
  BY <1>1
<1>2. /\ \A l \in Nat : /\ Header(Null, l) \in Seq(Nat) /\ Header(End, l) \in Seq(Nat)
                        /\ Header(key, l) \in Seq(Nat)
      /\ Null \in Nat /\ End \in Nat
  BY <1>0, HeaderSeq DEF Null, End
<1>3. pc \in ItemPlaces \ {"delWalk", "delNext", "addSearch"} =>
         /\ off < 2 * Size /\ off + HeadSize \in Nat /\ off + HeadSize < 2 * Size
         /\ ItemEnd \in Nat /\ ItemEnd < 2 * Size
  BY <1>0 DEF TypeInv, SizeInv, InRange, ItemPlaces, AddPlaces, EndPlaces, DelPlaces,
              ItemEnd, HeadSize
<1>4. pc = "splitRest" => len - Len(data) - HeadSize \in Nat
  BY <1>0 DEF TypeInv, SizeInv, HeadSize
<1>5. 0 < 2 * Size /\ MagicSize < 2 * Size /\ MagicSize \in Nat
  BY <1>0 DEF MagicSize
<1>6. <<Magic>> \in Seq(Nat) /\ Image \in Seq(Nat) /\ <<>> \in Seq(Nat)
  BY DbConstants, ImageSeq
<1> HIDE DEF Good
<1>7. Good(Pending)
  <2>1. CASE pc \in {"initEnd", "initMagic", "clrImage"}
    BY <2>1, <1>1, <1>2, <1>5, <1>6, PendingIs
  <2>2. CASE pc \in {"delSave", "appUndo", "fitHead", "splitHead", "appHead"}
    BY <2>2, <1>0, <1>1, <1>2, <1>3, PendingIs DEF ItemPlaces, AddPlaces, EndPlaces, DelPlaces
  <2>3. CASE pc \in {"addData", "appData"}
    BY <2>3, <1>0, <1>1, <1>3, PendingIs DEF ItemPlaces, AddPlaces, EndPlaces, DelPlaces
  <2>4. CASE pc \in {"splitRest", "appEnd"}
    BY <2>4, <1>1, <1>2, <1>3, <1>4, PendingIs DEF ItemPlaces, AddPlaces, EndPlaces, DelPlaces
  <2>5. CASE pc \notin {"initEnd", "initMagic", "delSave", "addData", "appData", "fitHead",
                        "splitHead", "appHead", "splitRest", "appEnd", "appUndo", "clrImage"}
    BY <2>5, <1>1, <1>5, <1>6, PendingIs
  <2> QED BY <2>1, <2>2, <2>3, <2>4, <2>5
<1> QED BY <1>7 DEF Good

\* The device holds numbers after a write, finished or cut short.
LEMMA WriteType ==
    ASSUME TypeInv, WriteDone \/ WriteCut
    PROVE  eeprom' \in Mem
<1>1. eeprom \in Mem
  BY DEF TypeInv, TypeOK, Mem
<1> DEFINE at == Pending.at
           cells == Pending.cells
<1>2. at \in Nat /\ at < 2 * Size /\ cells \in Seq(Nat) /\ Len(cells) \in Nat
  BY PendingType
<1> HIDE DEF at, cells
<1>3. CASE WriteDone
  <2>1. eeprom' = Written(eeprom, at, cells, Len(cells))
    BY <1>3 DEF WriteDone, at, cells
  <2> QED BY <2>1, <1>1, <1>2, WrittenType
<1>4. CASE WriteCut
  <2>1. PICK n \in 0 .. Len(cells) - 1 : eeprom' = Written(eeprom, at, cells, n)
    BY <1>4 DEF WriteCut, at, cells
  <2> QED BY <2>1, <1>1, <1>2, WrittenType
<1> QED BY <1>3, <1>4

-----------------------------------------------------------------------------
(* Every step keeps the type invariant.                                    *)

\* The sets of places, and the values of both commands' copies.
LEMMA KeptShort ==
    ASSUME TypeInv, cmd = "clear"
    PROVE  \A k \in {Ethaddr, Prodnum} : kept[k] \in Seq(Nat) /\ Short(kept[k])
<1>1. ImageEnd + 3 * HeadSize + 2 * (CopySize - 1) < Size
  BY DbRoom DEF TypeInv, CmdInv, AllCommands
<1>2. ASSUME NEW k \in {Ethaddr, Prodnum} PROVE kept[k] \in Seq(Nat) /\ Short(kept[k])
  <2>1. kept[k] \in Seq(Nat) /\ Len(kept[k]) < CopySize
    BY DEF TypeInv, TypeOK, SizeInv
  <2> QED BY <2>1, <1>1, DbConstants DEF Short, MagicSize, HeadSize, ImageEnd
<1> QED BY <1>2

LEMMA NoPrevKey == NoPrev \in [off : Nat, key : Nat, len : Nat] /\ NoPrev.key # Null
BY DEF NoPrev, End, Null

\* A step that starts del_item's walk for one of the callers.
LEMMA EnterType ==
    ASSUME TypeInv, eeprom' \in Mem, NEW k \in Keys, NEW d \in Seq(Nat), Short(d),
           Enter(k, d),
           cmd' \in Commands, cmd' \in {"add", "eepromadd", "clear"},
           cmd' = "clear" => k \in {Ethaddr, Prodnum},
           kept' \in [{Ethaddr, Prodnum} -> Seq(Nat)],
           \A c \in {Ethaddr, Prodnum} : Len(kept'[c]) < CopySize,
           rc' \in {"none", "ok", "failed", "no such key"}, out' \in SUBSET Seq(Nat)
    PROVE  TypeInv'
<1>1. /\ pc' = "delWalk" /\ key' = k /\ data' = d
      /\ off' = MagicSize /\ len' = 0 /\ prev' = NoPrev
  BY DEF Enter
<1>2. TypeOK'
  BY <1>1 DEF TypeOK, Mem, Places, MagicSize, NoPrev, End
<1>3. CmdInv'
  BY <1>1 DEF CmdInv, StartPlaces, ItemPlaces, DelPlaces, AddPlaces, EndPlaces, AllCommands
<1>4. SizeInv'
  <2>1. prev'.key # Null /\ Short(data)'
    BY <1>1, NoPrevKey DEF Short
  <2> QED BY <1>1, <2>1 DEF SizeInv, ItemPlaces, DelPlaces, AddPlaces, EndPlaces
<1> QED BY <1>2, <1>3, <1>4 DEF TypeInv

\* The end of an operation.
LEMMA IdleType ==
    ASSUME TypeInv, eeprom' \in Mem, pc' = "idle", off' \in Nat, len' \in Nat, prev' = NoPrev,
           UNCHANGED <<cmd, key, data, kept>>,
           rc' \in {"none", "ok", "failed", "no such key"}, out' \in SUBSET Seq(Nat)
    PROVE  TypeInv'
<1>1. TypeOK'
  BY DEF TypeInv, TypeOK, Mem, Places, NoPrev, End
<1>2. CmdInv'
  BY DEF TypeInv, CmdInv, StartPlaces, ItemPlaces, DelPlaces, AddPlaces, EndPlaces
<1>3. SizeInv'
  <2>1. prev'.key # Null /\ Short(data)'
    BY NoPrevKey DEF Short, TypeInv, SizeInv
  <2>2. \A k \in {Ethaddr, Prodnum} : Len(kept'[k]) < CopySize
    BY DEF TypeInv, SizeInv
  <2> QED BY <2>1, <2>2 DEF SizeInv, ItemPlaces, DelPlaces, AddPlaces, EndPlaces
<1> QED BY <1>1, <1>2, <1>3 DEF TypeInv

LEMMA ReturnType ==
    ASSUME TypeInv, eeprom' \in Mem, NEW code \in {"ok", "failed", "no such key"}, Return(code)
    PROVE  TypeInv'
<1>1. CASE cmd = "clear" /\ key = Ethaddr /\ ~BeforeDispatch /\ pc # "clrWalk"
  <2>1. Enter(Prodnum, kept[Prodnum]) /\ UNCHANGED <<cmd, kept, rc, out>>
    BY <1>1 DEF Return
  <2>2. kept[Prodnum] \in Seq(Nat) /\ Short(kept[Prodnum])
    BY <1>1, KeptShort
  <2>3. cmd \in Commands
    BY <1>1 DEF TypeInv, CmdInv, AllCommands
  <2> QED BY <1>1, <2>1, <2>2, <2>3, EnterType, DbConstants DEF TypeInv, TypeOK, SizeInv
<1>2. CASE ~(cmd = "clear" /\ key = Ethaddr /\ ~BeforeDispatch /\ pc # "clrWalk")
  <2>1. /\ pc' = "idle" /\ off' = 0 /\ len' = 0 /\ prev' = NoPrev
        /\ rc' = (IF cmd = "clear" /\ ~BeforeDispatch THEN "ok" ELSE code)
        /\ UNCHANGED <<cmd, key, data, kept, out>>
    BY <1>2 DEF Return
  <2>2. rc' \in {"none", "ok", "failed", "no such key"} /\ out' \in SUBSET Seq(Nat)
    BY <2>1 DEF TypeInv, TypeOK
  <2> QED BY <2>1, <2>2, IdleType
<1> QED BY <1>1, <1>2

LEMMA DelReturnType ==
    ASSUME TypeInv, eeprom' \in Mem, NEW code \in {"ok", "failed"}, DelReturn(code),
           pc \in DelPlaces
    PROVE  TypeInv'
<1>1. CASE cmd = "del"
  BY <1>1, ReturnType DEF DelReturn
<1>2. CASE cmd # "del"
  <2>1. /\ pc' = "addSearch" /\ off' = MagicSize /\ len' = 0 /\ prev' = NoPrev
        /\ UNCHANGED <<cmd, key, data, kept, rc, out>>
    BY <1>2 DEF DelReturn
  <2>2. TypeOK'
    BY <2>1 DEF TypeInv, TypeOK, Mem, Places, NoPrev, End, MagicSize
  <2>3. CmdInv'
    BY <1>2, <2>1 DEF TypeInv, CmdInv, StartPlaces, ItemPlaces, DelPlaces, AddPlaces, EndPlaces
  <2>4. SizeInv'
    <3>1. prev'.key # Null /\ Short(data)'
      BY <2>1, NoPrevKey DEF Short, TypeInv, SizeInv
    <3> QED BY <2>1, <3>1 DEF TypeInv, SizeInv, ItemPlaces, DelPlaces, AddPlaces, EndPlaces
  <2> QED BY <2>2, <2>3, <2>4 DEF TypeInv
<1> QED BY <1>1, <1>2

\* What a walk reads at an offset it does not refuse.
LEMMA ReadType ==
    ASSUME TypeInv, NEW o \in Nat, InRange(o)
    PROVE  /\ KeyAt(eeprom, o) \in Nat /\ LenAt(eeprom, o) \in Nat /\ NextOf(eeprom, o) \in Nat
           /\ DataAt(eeprom, o) \in Seq(Nat) /\ Len(DataAt(eeprom, o)) = LenAt(eeprom, o)
<1>1. o \in Addr /\ o + 1 \in Addr /\ \A a \in Addr : eeprom[a] \in Nat
  <2>1. o < Size - HeadSize /\ Size \in Nat
    BY Sizes DEF InRange
  <2>2. o \in Addr /\ o + 1 \in Addr
    BY <2>1 DEF Addr, HeadSize
  <2> QED BY <2>2 DEF TypeInv, TypeOK
<1>2. LenAt(eeprom, o) \in Nat /\ KeyAt(eeprom, o) \in Nat
  BY <1>1 DEF LenAt, KeyAt
<1>3. ASSUME NEW i \in 1 .. LenAt(eeprom, o)
      PROVE  eeprom[(o + HeadSize + i - 1) % Size] \in Nat
  <2>1. (o + HeadSize + i - 1) % Size \in Addr
    BY <1>2, Sizes DEF Addr, HeadSize
  <2> QED BY <2>1, <1>1
<1> QED BY <1>2, <1>3 DEF NextOf, HeadSize, DataAt

\* A step inside an operation.
LEMMA MoveType ==
    ASSUME TypeInv, eeprom' \in Mem, pc' \in Places \ {"idle"}, UNCHANGED <<cmd, key, data, rc, out>>,
           kept' \in [{Ethaddr, Prodnum} -> Seq(Nat)],
           \A c \in {Ethaddr, Prodnum} : Len(kept'[c]) < CopySize,
           off' \in Nat, len' \in Nat, prev' \in [off : Nat, key : Nat, len : Nat],
           prev'.key = Null => InRange(prev'.off),
           CmdInv',
           pc' \in {"delNext", "delSave"} \cup (ItemPlaces \ (DelPlaces \cup {"addSearch"}))
              => InRange(off'),
           pc' = "addData" => Fits(len)',
           pc' \in {"splitHead", "splitRest"} => len' >= Len(data) + HeadSize
    PROVE  TypeInv'
<1>1. TypeOK'
  BY DEF TypeInv, TypeOK, Mem
<1>2. SizeInv'
  BY DEF TypeInv, SizeInv, Short
<1> QED BY <1>1, <1>2 DEF TypeInv

LEMMA DispatchType ==
    ASSUME TypeInv, eeprom' \in Mem, pc \in StartPlaces, Dispatch
    PROVE  TypeInv'
<1>1. /\ eeprom \in Mem /\ len \in Nat /\ prev \in [off : Nat, key : Nat, len : Nat]
      /\ kept \in [{Ethaddr, Prodnum} -> Seq(Nat)]
      /\ \A c \in {Ethaddr, Prodnum} : Len(kept[c]) < CopySize
      /\ prev.key = Null => InRange(prev.off)
      /\ cmd \in AllCommands \ {"eepromadd"} /\ cmd \in Commands /\ key \in Keys
      /\ cmd = "clear" => key \in {Ethaddr, Prodnum}
  BY DEF TypeInv, TypeOK, CmdInv, SizeInv, Mem, StartPlaces
<1>2. /\ off' = MagicSize /\ UNCHANGED <<cmd, key, data, len, prev, kept, rc, out>>
      /\ \/ cmd \in {"add", "del"} /\ pc' = "delWalk"
         \/ cmd = "clear" /\ pc' = "clrWalk"
         \/ cmd = "toenv" /\ pc' = "envWalk"
         \/ cmd = "dump" /\ pc' = "dumpWalk"
  BY <1>1 DEF Dispatch, AllCommands
<1>3. CmdInv'
  BY <1>1, <1>2 DEF CmdInv, StartPlaces, ItemPlaces, DelPlaces, AddPlaces, EndPlaces
<1> QED BY <1>1, <1>2, <1>3, MoveType
    DEF Places, ItemPlaces, DelPlaces, AddPlaces, EndPlaces, MagicSize

LEMMA TypeStep == TypeInv /\ [Next]_vars => TypeInv'
<1> SUFFICES ASSUME TypeInv, [Next]_vars PROVE TypeInv'
  OBVIOUS
<1> USE DEF ItemPlaces, DelPlaces, AddPlaces, EndPlaces, StartPlaces
<1>0. /\ eeprom \in Mem /\ pc \in Places /\ off \in Nat /\ len \in Nat /\ key \in Keys \cup {Null}
      /\ data \in Seq(Nat) /\ rc \in {"none", "ok", "failed", "no such key"}
      /\ out \in SUBSET Seq(Nat) /\ prev \in [off : Nat, key : Nat, len : Nat]
      /\ kept \in [{Ethaddr, Prodnum} -> Seq(Nat)]
      /\ \A c \in {Ethaddr, Prodnum} : Len(kept[c]) < CopySize
      /\ prev.key = Null => InRange(prev.off)
  BY DEF TypeInv, TypeOK, SizeInv, Mem
<1>1. ASSUME NEW c \in Commands, NEW k \in Keys, NEW d \in Values \cup {<<>>}, Start(c, k, d)
      PROVE  TypeInv'
  <2>1. /\ pc = "idle" /\ (c \in {"clear", "dump"} => k = Ethaddr)
        /\ (c \notin {"add", "eepromadd"} => d = <<>>)
        /\ cmd' = c /\ rc' = "none" /\ out' = {} /\ kept' = NoCopy /\ UNCHANGED eeprom
    BY <1>1 DEF Start
  <2>2. d \in Seq(Nat) /\ Short(d)
    <3>1. CASE d \in Values
      BY ONLY <3>1, DbConstants, DbRoom DEF Short, DbConstants, DbRoom
    <3>2. CASE d = <<>>
      BY <3>2, Sizes
    <3> QED BY <3>1, <3>2
  <2>3. /\ kept' \in [{Ethaddr, Prodnum} -> Seq(Nat)]
        /\ \A n \in {Ethaddr, Prodnum} : Len(kept'[n]) < CopySize
    BY <2>1, DbRoom, DbConstants DEF NoCopy
  <2>4. CASE c = "eepromadd"
    <3>1. Enter(k, d)
      BY <1>1, <2>4 DEF Start
    <3> QED BY <1>0, <2>1, <2>2, <2>3, <2>4, <3>1, EnterType
  <2>5. CASE c # "eepromadd"
    <3>1. pc' = "magic" /\ key' = k /\ data' = d /\ UNCHANGED <<off, len, prev>>
      BY <1>1, <2>5 DEF Start
    <3>2. TypeOK'
      BY <1>0, <2>1, <2>2, <2>3, <3>1 DEF TypeOK, Mem, Places
    <3>3. CmdInv'
      BY <2>1, <2>5, <3>1, DbConstants DEF CmdInv, AllCommands
    <3>4. SizeInv'
      <4>1. Short(data)' /\ (prev'.key = Null => InRange(prev'.off))
        BY <1>0, <2>2, <3>1 DEF Short
      <4> QED BY <2>3, <3>1, <4>1 DEF SizeInv
    <3> QED BY <3>2, <3>3, <3>4 DEF TypeInv
  <2> QED BY <2>4, <2>5
<1>2. CASE ReadMagic
  <2>1. CASE Return("failed")
    BY <1>0, <1>2, <2>1, ReturnType DEF ReadMagic
  <2>2. CASE Dispatch
    BY <1>0, <1>2, <2>2, DispatchType DEF ReadMagic
  <2>3. CASE pc' = "initEnd" /\ UNCHANGED regs
    <3>1. CmdInv'
      BY <1>2, <2>3 DEF ReadMagic, TypeInv, CmdInv, regs
    <3> QED BY <1>0, <1>2, <2>3, <3>1, MoveType DEF ReadMagic, regs, Places
  <2> QED BY <1>2, <2>1, <2>2, <2>3 DEF ReadMagic
<1>3. CASE InitEnd
  <2>1. CASE WriteDone /\ heads' = {MagicSize} /\ pc' = "initMagic" /\ UNCHANGED regs
    <3>1. eeprom' \in Mem
      BY <2>1, WriteType
    <3>2. CmdInv'
      BY <1>3, <2>1 DEF InitEnd, TypeInv, CmdInv, regs
    <3> QED BY <1>0, <2>1, <3>1, <3>2, MoveType DEF regs, Places
  <2>2. CASE WriteFails /\ UNCHANGED heads /\ Return("failed")
    BY <2>2, WriteType, ReturnType DEF WriteFails
  <2> QED BY <1>3, <2>1, <2>2 DEF InitEnd
<1>4. CASE InitMagic
  <2>1. CASE WriteDone /\ Dispatch
    BY <1>4, <2>1, WriteType, DispatchType DEF InitMagic
  <2>2. CASE WriteFails /\ Return("failed")
    BY <2>2, WriteType, ReturnType DEF WriteFails
  <2> QED BY <1>4, <2>1, <2>2 DEF InitMagic
<1>5. CASE DelWalk
  <2>1. CASE DelReturn("failed") /\ UNCHANGED <<eeprom, heads>>
    BY <1>0, <1>5, <2>1, DelReturnType DEF DelWalk
  <2>2. CASE /\ InRange(off) /\ KeyAt(eeprom, off) = key
             /\ pc' = "delNext" /\ len' = LenAt(eeprom, off)
             /\ UNCHANGED <<eeprom, heads, cmd, key, data, off, prev, kept, rc, out>>
    <3>1. CmdInv'
      BY <1>5, <2>2 DEF DelWalk, TypeInv, CmdInv
    <3> QED BY <1>0, <2>2, <3>1, ReadType, MoveType DEF Places
  <2>3. CASE /\ InRange(off) /\ KeyAt(eeprom, off) # key
             /\ prev' = [off |-> off, key |-> KeyAt(eeprom, off), len |-> LenAt(eeprom, off)]
             /\ off' = NextOf(eeprom, off)
             /\ UNCHANGED <<eeprom, heads, pc, cmd, key, data, len, kept, rc, out>>
    <3>1. CmdInv'
      BY <1>5, <2>3 DEF DelWalk, TypeInv, CmdInv
    <3>2. prev' \in [off : Nat, key : Nat, len : Nat] /\ InRange(prev'.off)
      BY <1>0, <2>3, ReadType
    <3> QED BY <1>0, <1>5, <2>3, <3>1, <3>2, ReadType, MoveType DEF Places, DelWalk
  <2> QED BY <1>5, <2>1, <2>2, <2>3 DEF DelWalk
<1>6. CASE DelNext
  <2>1. /\ pc = "delNext" /\ pc' = "delSave" /\ InRange(off)
        /\ UNCHANGED <<eeprom, heads, cmd, key, data, prev, kept, rc, out>>
    BY <1>6 DEF DelNext, TypeInv, SizeInv
  <2>2. PICK l \in Nat : off' = MergedWithPrev(l).off /\ len' = MergedWithPrev(l).len
    <3> DEFINE next == off + HeadSize + len
               more == len + HeadSize + LenAt(eeprom, next)
    <3>1. off \in Nat /\ len \in Nat
      BY <1>0
    <3>2. next \in Nat
      BY <3>1 DEF HeadSize
    <3>3. InRange(next) => LenAt(eeprom, next) \in Nat
      BY <3>2, ReadType
    <3>4. InRange(next) => more \in Nat
      BY <3>1, <3>3 DEF HeadSize
    <3>5. \/ off' = MergedWithPrev(len).off /\ len' = MergedWithPrev(len).len
          \/ /\ InRange(next) /\ off' = MergedWithPrev(more).off
             /\ len' = MergedWithPrev(more).len
      BY <1>6 DEF DelNext
    <3> HIDE DEF next, more
    <3> QED BY <3>1, <3>4, <3>5
  <2>3. off' \in Nat /\ len' \in Nat /\ InRange(off')
    <3>1. /\ off \in Nat /\ prev.off \in Nat /\ prev.len \in Nat
          /\ prev.key = Null => InRange(prev.off)
      BY <1>0
    <3>3. CASE prev.key = Null
      <4>1. MergedWithPrev(l) = [off |-> prev.off, len |-> l + prev.len + HeadSize]
        BY <3>3 DEF MergedWithPrev
      <4>2. off' = prev.off /\ len' = l + prev.len + HeadSize
        BY <2>2, <4>1
      <4> QED BY <3>1, <3>3, <4>2 DEF HeadSize
    <3>4. CASE prev.key # Null
      <4>1. MergedWithPrev(l) = [off |-> off, len |-> l]
        BY <3>4 DEF MergedWithPrev
      <4> QED BY <2>1, <2>2, <3>1, <4>1
    <3> QED BY <3>3, <3>4
  <2>4. CmdInv'
    BY <2>1 DEF TypeInv, CmdInv
  <2> QED BY <1>0, <2>1, <2>3, <2>4, MoveType DEF Places
<1>7. CASE DelSave
  BY <1>7, WriteType, DelReturnType DEF DelSave, WriteFails
<1>8. CASE AddSearch
  <2>1. CASE Return("failed") /\ UNCHANGED <<eeprom, heads>>
    BY <1>0, <2>1, ReturnType
  <2>2. CASE /\ InRange(off) /\ len' = LenAt(eeprom, off) /\ UNCHANGED off
             /\ pc' \in {"addData", "fitHead", "splitHead"} /\ Fits(len')
             /\ pc' = "splitHead" => data = <<>> /\ len' # 0
             /\ UNCHANGED <<eeprom, cmd, key, data, prev, kept, rc, out>>
    <3>1. CmdInv'
      BY <1>8, <2>2 DEF AddSearch, TypeInv, CmdInv
    <3>2. len' \in Nat
      BY <1>0, <2>2, ReadType
    <3>3. pc' = "splitHead" => len' >= Len(data) + HeadSize
      BY <2>2, <3>2 DEF Fits
    <3> QED BY <1>0, <2>2, <3>1, <3>2, <3>3, MoveType DEF Places, Fits
  <2>3. CASE /\ InRange(off) /\ len' = LenAt(eeprom, off) /\ UNCHANGED off
             /\ pc' \in {"appHead", "appData"}
             /\ UNCHANGED <<eeprom, cmd, key, data, prev, kept, rc, out>>
    <3>1. CmdInv'
      BY <1>8, <2>3 DEF AddSearch, TypeInv, CmdInv
    <3> QED BY <1>0, <2>3, <3>1, ReadType, MoveType DEF Places
  <2>4. CASE /\ InRange(off) /\ len' = LenAt(eeprom, off) /\ off' = NextOf(eeprom, off)
             /\ UNCHANGED <<eeprom, pc, cmd, key, data, prev, kept, rc, out>>
    <3>1. CmdInv'
      BY <2>4 DEF TypeInv, CmdInv
    <3> QED BY <1>0, <1>8, <2>4, <3>1, ReadType, MoveType DEF Places, AddSearch
  <2> QED BY <1>8, <2>1, <2>2, <2>3, <2>4 DEF AddSearch, SkipsData
<1>9. CASE AddData
  <2>1. CASE /\ WriteDone /\ pc' = IF len = Len(data) THEN "fitHead" ELSE "splitHead"
             /\ UNCHANGED regs
    <3>1. CmdInv'
      BY <1>9, <2>1 DEF AddData, TypeInv, CmdInv, regs
    <3>2. Fits(len) /\ InRange(off)
      BY <1>9 DEF AddData, TypeInv, SizeInv
    <3>3. eeprom' \in Mem
      BY <2>1, WriteType
    <3> QED BY <1>0, <2>1, <3>1, <3>2, <3>3, MoveType DEF Places, regs, Fits
  <2>2. CASE WriteFails /\ Return("failed")
    BY <2>2, WriteType, ReturnType DEF WriteFails
  <2> QED BY <1>9, <2>1, <2>2 DEF AddData
<1>10. CASE AddHead
  <2>1. CASE WriteDone /\ pc = "splitHead" /\ pc' = "splitRest" /\ UNCHANGED regs
    <3>1. CmdInv'
      BY <2>1 DEF TypeInv, CmdInv, regs
    <3>2. InRange(off) /\ len >= Len(data) + HeadSize
      BY <2>1 DEF TypeInv, SizeInv
    <3>3. eeprom' \in Mem
      BY <2>1, WriteType
    <3> QED BY <1>0, <2>1, <3>1, <3>2, <3>3, MoveType DEF Places, regs
  <2>2. CASE (WriteDone /\ Return("ok")) \/ (WriteFails /\ Return("failed"))
    BY <2>2, WriteType, ReturnType DEF WriteFails
  <2> QED BY <1>10, <2>1, <2>2 DEF AddHead
<1>11. CASE AddRest
  BY <1>11, WriteType, ReturnType DEF AddRest, WriteFails
<1>12. CASE AppendData
  <2>1. /\ eeprom' \in Mem /\ pc = "appData" /\ pc' \in {"appHead", "appUndo"} /\ UNCHANGED regs
    BY <1>12, WriteType DEF AppendData, WriteFails
  <2>2. CmdInv' /\ InRange(off)
    BY <2>1 DEF TypeInv, CmdInv, SizeInv, regs
  <2> QED BY <1>0, <2>1, <2>2, MoveType DEF Places, regs
<1>13. CASE AppendHead
  <2>1. /\ eeprom' \in Mem /\ pc = "appHead" /\ pc' \in {"appEnd", "appUndo"} /\ UNCHANGED regs
    BY <1>13, WriteType DEF AppendHead, WriteFails
  <2>2. CmdInv' /\ InRange(off)
    BY <2>1 DEF TypeInv, CmdInv, SizeInv, regs
  <2> QED BY <1>0, <2>1, <2>2, MoveType DEF Places, regs
<1>14. CASE AppendEnd
  BY <1>14, WriteType, ReturnType DEF AppendEnd, WriteFails
<1>15. CASE AppendUndo
  BY <1>15, WriteType, ReturnType DEF AppendUndo, WriteFails
<1>16. CASE ClearWalk
  <2>1. CASE Return("failed") /\ UNCHANGED <<eeprom, heads>>
    BY <1>0, <2>1, ReturnType
  <2>2. CASE pc' = "undefined" /\ UNCHANGED <<eeprom, off, kept, cmd, key, data, len, prev, rc, out>>
    <3>1. CmdInv'
      BY <2>2 DEF TypeInv, CmdInv
    <3> QED BY <1>0, <2>2, <3>1, MoveType DEF Places
  <2>3. CASE /\ InRange(off)
             /\ LET k == KeyAt(eeprom, off)
                    l == LenAt(eeprom, off)
                IN  /\ k \in {Ethaddr, Prodnum} => Copies(l)
                    /\ kept' = IF k \in {Ethaddr, Prodnum}
                                 THEN [kept EXCEPT ![k] = DataAt(eeprom, off)] ELSE kept
                    /\ off' = NextOf(eeprom, off)
                    /\ pc' = IF k = End THEN "clrImage" ELSE "clrWalk"
             /\ UNCHANGED <<eeprom, cmd, key, data, len, prev, rc, out>>
    <3> DEFINE k == KeyAt(eeprom, off)
               v == DataAt(eeprom, off)
    <3>1. CmdInv'
      BY <1>16, <2>3 DEF ClearWalk, TypeInv, CmdInv
    <3>2. v \in Seq(Nat) /\ (k \in {Ethaddr, Prodnum} => Len(v) < CopySize) /\ off' \in Nat
      BY <1>0, <2>3, ReadType DEF Copies
    <3>3. kept' = IF k \in {Ethaddr, Prodnum} THEN [kept EXCEPT ![k] = v] ELSE kept
      BY <2>3
    <3>4. pc' \in {"clrImage", "clrWalk"}
      BY <2>3
    <3> HIDE DEF k, v
    <3>5. /\ kept' \in [{Ethaddr, Prodnum} -> Seq(Nat)]
          /\ \A c \in {Ethaddr, Prodnum} : Len(kept'[c]) < CopySize
      BY <1>0, <3>2, <3>3
    <3> QED BY <1>0, <2>3, <3>1, <3>2, <3>4, <3>5, MoveType DEF Places
  <2> QED BY <1>16, <2>1, <2>2, <2>3 DEF ClearWalk
<1>17. CASE ClearImage
  <2>1. eeprom' \in Mem /\ cmd = "clear" /\ cmd \in Commands
    BY <1>17, WriteType DEF ClearImage, WriteFails, TypeInv, CmdInv, AllCommands
  <2>2. kept[Ethaddr] \in Seq(Nat) /\ Short(kept[Ethaddr])
    BY <2>1, KeptShort
  <2> QED BY <1>0, <1>17, <2>1, <2>2, EnterType, DbConstants DEF ClearImage
<1>18. CASE EnvWalk
  <2>1. CASE (Return("failed") \/ Return("no such key")) /\ UNCHANGED <<eeprom, heads>>
    BY <1>0, <2>1, ReturnType
  <2>2. CASE /\ InRange(off)
             /\ out' = {IF LenAt(eeprom, off) = 0 THEN Garbage ELSE DataAt(eeprom, off)}
             /\ pc' = "idle" /\ rc' = "ok" /\ off' = 0
             /\ UNCHANGED <<eeprom, cmd, key, data, len, prev, kept>>
    <3>1. out' \in SUBSET Seq(Nat)
      <4>1. Garbage \in Seq(Nat)
        BY DEF Garbage
      <4>2. DataAt(eeprom, off) \in Seq(Nat)
        BY <1>0, <2>2, ReadType
      <4> QED BY <2>2, <4>1, <4>2
    <3>2. TypeOK'
      BY <1>0, <2>2, <3>1 DEF TypeInv, TypeOK, Mem, Places
    <3>3. CmdInv'
      BY <2>2 DEF TypeInv, CmdInv
    <3>4. SizeInv'
      BY <2>2 DEF TypeInv, SizeInv, Short
    <3> QED BY <3>2, <3>3, <3>4 DEF TypeInv
  <2>3. CASE /\ InRange(off) /\ off' = NextOf(eeprom, off)
             /\ UNCHANGED <<eeprom, pc, cmd, key, data, len, prev, kept, rc, out>>
    <3>1. CmdInv'
      BY <2>3 DEF TypeInv, CmdInv
    <3> QED BY <1>0, <1>18, <2>3, <3>1, ReadType, MoveType DEF Places, EnvWalk
  <2> QED BY <1>18, <2>1, <2>2, <2>3 DEF EnvWalk
<1>19. CASE DumpWalk
  <2>1. CASE (Return("failed") \/ Return("ok")) /\ UNCHANGED <<eeprom, heads>>
    BY <1>0, <2>1, ReturnType
  <2>2. CASE /\ InRange(off) /\ off' = NextOf(eeprom, off)
             /\ UNCHANGED <<eeprom, pc, cmd, key, data, len, prev, kept, rc, out>>
    <3>1. CmdInv'
      BY <2>2 DEF TypeInv, CmdInv
    <3> QED BY <1>0, <1>19, <2>2, <3>1, ReadType, MoveType DEF Places, DumpWalk
  <2> QED BY <1>19, <2>1, <2>2 DEF DumpWalk
<1>20. CASE PowerLoss
  <2>1. /\ eeprom' \in Mem /\ pc' = "idle" /\ cmd' = "none" /\ key' = Null /\ data' = <<>>
        /\ off' = 0 /\ len' = 0 /\ prev' = NoPrev /\ kept' = NoCopy
        /\ rc' = "none" /\ out' = {}
    BY <1>0, <1>20, WriteType DEF PowerLoss
  <2>2. TypeOK'
    BY <2>1, NoPrevKey DEF TypeOK, Mem, Places, NoCopy
  <2>3. CmdInv'
    BY <2>1 DEF CmdInv, AllCommands
  <2>4. SizeInv'
    <3>1. prev'.key # Null /\ Short(data)'
      BY <2>1, NoPrevKey, Sizes DEF Short
    <3> QED BY <2>1, <3>1, DbRoom, DbConstants DEF SizeInv, NoCopy
  <2> QED BY <2>2, <2>3, <2>4 DEF TypeInv
<1>21. CASE UNCHANGED vars
  <2>1. TypeOK'
    BY <1>21 DEF vars, regs, TypeInv, TypeOK
  <2>2. CmdInv'
    BY <1>21 DEF vars, regs, TypeInv, CmdInv
  <2>3. SizeInv'
    BY <1>21 DEF vars, regs, TypeInv, SizeInv, Short, Fits
  <2> QED BY <2>1, <2>2, <2>3 DEF TypeInv
<1> QED
  BY <1>1, <1>2, <1>3, <1>4, <1>5, <1>6, <1>7, <1>8, <1>9, <1>10, <1>11, <1>12, <1>13,
     <1>14, <1>15, <1>16, <1>17, <1>18, <1>19, <1>20, <1>21 DEF Next, Step

LEMMA TypeInit == Init => TypeInv
<1> SUFFICES ASSUME Init PROVE TypeInv
  OBVIOUS
<1>1. TypeOK
  BY NoPrevKey, DbConstants DEF Init, TypeOK, NoCopy, Places
<1>2. CmdInv
  BY DEF Init, CmdInv, AllCommands, StartPlaces, ItemPlaces, DelPlaces, AddPlaces, EndPlaces
<1>3. SizeInv
  <2>1. prev.key # Null /\ Short(data)
    BY NoPrevKey, Sizes DEF Init, Short
  <2> QED BY <2>1, DbRoom, DbConstants
      DEF Init, SizeInv, NoCopy, ItemPlaces, DelPlaces, AddPlaces, EndPlaces
<1> QED BY <1>1, <1>2, <1>3 DEF TypeInv

\* The registers and the device keep their types, with every failure of a read
\* or write and power lost anywhere: the writes of save_item and of do_edb.
THEOREM TypeCorrect == Spec => []TypeOK
<1>1. TypeInv => TypeOK
  BY DEF TypeInv
<1> QED BY <1>1, TypeInit, TypeStep, PTL DEF Spec

-----------------------------------------------------------------------------
(* The chain stays readable, with power lost anywhere but in the windows   *)
(* between the two headers of a split, of an append and of the fresh image.*)

\* The places where a loss of power breaks the chain.
Windows == {"splitHead", "splitRest", "appHead", "appEnd", "appUndo", "clrImage"}

Safe == /\ WriteErrors = FALSE /\ MindRoom = TRUE
        /\ PowerLossAt \cap Windows = {}

-----------------------------------------------------------------------------
(* The inductive invariant.                                                *)

\* An item of n cells and an end item fit behind every item of the chain S.
Room(S, n) == \A e \in S : e + 2 * HeadSize + n < Size

\* The caller minded the room, and clear_eeprom has it for both copies.
RoomInv ==
    /\ pc \notin {"idle"} \cup EndPlaces /\ cmd \in {"add", "eepromadd"} =>
          Room(heads, Len(data))
    /\ pc \in DelPlaces \cup AddPlaces /\ cmd = "clear" =>
          IF key = Ethaddr THEN Room(heads, Len(data) + HeadSize + Len(kept[Prodnum]))
                           ELSE Room(heads, Len(data))
    /\ pc \in EndPlaces /\ cmd = "clear" /\ key = Ethaddr => Room(heads, Len(kept[Prodnum]))

\* Behind the end item, where del_item goes on.
Behind(o) == \A p \in heads : p + HeadSize <= o

\* del_item's walk: the free item before it is in the chain if it is.
WalkInv ==
    /\ off \in heads \/ Behind(off)
    /\ prev.key = Null =>
          /\ prev.off + HeadSize + prev.len = off
          /\ off \in heads => prev.off \in heads
          /\ off \notin heads => Behind(prev.off)

\* Where the walks and the writes are.
OffInv ==
    /\ pc \in {"delWalk", "delNext"} => WalkInv
    /\ pc = "delNext" => KeyAt(eeprom, off) = key /\ len = LenAt(eeprom, off)
    /\ pc = "delSave" =>
          \/ off \in heads /\ KeyAt(eeprom, off) # End /\ off + HeadSize + len \in heads
          \/ Behind(off)
    /\ pc \in {"addSearch", "clrWalk"} => off \in heads
    /\ pc \in {"addData", "fitHead", "splitHead"} =>
          off \in heads /\ KeyAt(eeprom, off) = Null /\ len = LenAt(eeprom, off)
    /\ pc = "fitHead" => len = Len(data)
    /\ pc \in {"appData", "appHead"} => off \in heads /\ KeyAt(eeprom, off) = End

Chained == IsChain(View, heads) /\ OffInv

\* A device nothing was ever stored on: no operation gets as far as a write,
\* except for the initialisation.
Unused ==
    /\ eeprom[0] # Magic /\ KeyAt(eeprom, MagicSize) = Blank /\ LenAt(eeprom, MagicSize) = Blank
    /\ heads = {MagicSize}
    /\ pc \in {"idle", "magic", "initEnd", "delWalk", "addSearch"}
    /\ pc \in {"delWalk", "addSearch"} =>
          cmd = "eepromadd" /\ (off = MagicSize \/ ~InRange(off))

ChainInv ==
    /\ pc # "appUndo" /\ (pc \notin DelPlaces => prev.key # Null)
    /\ RoomInv
    /\ Chained \/ Unused

-----------------------------------------------------------------------------
(* The device and the chain.                                               *)

\* A write that stays on the device changes the cells it names, no others.
LEMMA WrittenCell ==
    ASSUME NEW mem \in Mem, NEW a \in Nat, NEW n \in Nat, NEW cells, a + n <= Size,
           NEW c \in Addr
    PROVE  Written(mem, a, cells, n)[c]
             = IF a <= c /\ c < a + n THEN cells[c - a + 1] ELSE mem[c]
<1> USE DbConstants DEF Addr
<1>1. CASE a < Size
  BY <1>1 DEF Written
<1>2. CASE a >= Size
  BY <1>2 DEF Written
<1> QED BY <1>1, <1>2

\* A header written at a is read back there.
LEMMA WrittenHeader ==
    ASSUME NEW mem \in Mem, NEW a \in Nat, NEW k \in Nat, NEW l \in Nat,
           a + HeadSize <= Size,
           NEW new, new = Written(mem, a, Header(k, l), HeadSize)
    PROVE  /\ new \in Mem /\ new[a] = k /\ new[a + 1] = l
           /\ \A c \in Addr : c # a /\ c # a + 1 => new[c] = mem[c]
<1>1. HeadSize \in Nat /\ HeadSize = 2
  BY DEF HeadSize
<1>2. new \in Mem
  <2>1. Header(k, l) \in Seq(Nat) /\ HeadSize <= Len(Header(k, l))
    <3>1. Header(k, l) \in Seq(Nat) /\ Len(Header(k, l)) = HeadSize
      BY HeaderSeq
    <3> QED BY <3>1, <1>1
  <2>2. a < 2 * Size
    BY <1>1, Sizes
  <2> DEFINE cells == Header(k, l)
  <2>3. cells \in Seq(Nat) /\ HeadSize <= Len(cells)
    BY <2>1
  <2> HIDE DEF cells
  <2>4. Written(mem, a, cells, HeadSize) \in Mem
    BY <1>1, <2>2, <2>3, WrittenType
  <2> QED BY <2>4 DEF cells
<1>3. a \in Addr /\ a + 1 \in Addr /\ Addr \subseteq Nat
  BY <1>1, DbConstants DEF Addr
<1>4. \A c \in Addr : new[c] = IF a <= c /\ c < a + HeadSize
                                 THEN Header(k, l)[c - a + 1] ELSE mem[c]
  BY <1>1, WrittenCell
<1>5. new[a] = k
  <2>1. new[a] = Header(k, l)[a - a + 1]
    BY <1>1, <1>3, <1>4
  <2> QED BY <2>1, <1>3, HeaderSeq
<1>6. new[a + 1] = l
  <2>1. new[a + 1] = Header(k, l)[a + 1 - a + 1]
    BY <1>1, <1>3, <1>4
  <2> QED BY <2>1, <1>3, HeaderSeq
<1>7. \A c \in Addr : c # a /\ c # a + 1 => new[c] = mem[c]
  BY <1>1, <1>3, <1>4
<1> QED BY <1>2, <1>5, <1>6, <1>7

\* Two items of a chain do not overlap, and only the last one is the end item.
LEMMA ChainFacts ==
    ASSUME NEW mem \in Mem, NEW S, IsChain(mem, S)
    PROVE  /\ S \subseteq Nat /\ S \subseteq Addr
           /\ \A o \in S : o + HeadSize < Size /\ o + 1 \in Addr /\ LenAt(mem, o) \in Nat
           /\ \A o \in S : NextOf(mem, o) \in Nat /\ NextOf(mem, o) >= o + HeadSize
           /\ \A o, p \in S : o < p => NextOf(mem, o) <= p
           /\ \A o, p \in S : o < p => o + HeadSize <= p
           /\ \A o \in S : KeyAt(mem, o) # End => NextOf(mem, o) \in S
           /\ \A o, p \in S : o < p => KeyAt(mem, o) # End
           /\ \A o, p \in S : KeyAt(mem, o) = End => p <= o
<1>1. S \subseteq Nat /\ S \subseteq Addr /\ \A o \in S : o + HeadSize < Size /\ o + 1 \in Addr
  BY DbConstants DEF IsChain, Offsets, Addr, HeadSize, MagicSize
<1>2. \A o \in S : LenAt(mem, o) \in Nat
  BY <1>1 DEF LenAt, Mem
<1>3. \A o, p \in S : o < p => NextOf(mem, o) <= p /\ o + HeadSize <= p
  BY <1>1, <1>2 DEF IsChain, NextOf, HeadSize
<1>8. \A o \in S : NextOf(mem, o) \in Nat /\ NextOf(mem, o) >= o + HeadSize
  BY <1>1, <1>2 DEF NextOf, HeadSize
<1>4. PICK e \in S : /\ KeyAt(mem, e) = End
                     /\ \A o \in S \ {e} : /\ o < e /\ KeyAt(mem, o) # End
                                          /\ NextOf(mem, o) \in S
  BY DEF IsChain
<1>5. \A o \in S : KeyAt(mem, o) # End => NextOf(mem, o) \in S
  BY <1>4
<1>6. \A o, p \in S : o < p => KeyAt(mem, o) # End
  BY <1>1, <1>4
<1>7. \A o, p \in S : KeyAt(mem, o) = End => p <= o
  BY <1>1, <1>4
<1> QED BY <1>1, <1>2, <1>3, <1>5, <1>6, <1>7, <1>8

\* The chain is the headers: what else is written does not matter.
LEMMA ChainSame ==
    ASSUME NEW mem \in Mem, NEW new \in Mem, NEW S, IsChain(mem, S),
           \A o \in S : /\ KeyAt(new, o) = End <=> KeyAt(mem, o) = End
                        /\ KeyAt(mem, o) # End => LenAt(new, o) = LenAt(mem, o)
    PROVE  IsChain(new, S)
<1>1. PICK e \in S : /\ KeyAt(mem, e) = End
                     /\ \A o \in S \ {e} : /\ o < e /\ KeyAt(mem, o) # End
                                          /\ NextOf(mem, o) \in S
  BY DEF IsChain
<1>2. \A o \in S : KeyAt(mem, o) # End => NextOf(new, o) = NextOf(mem, o)
  BY DEF NextOf
<1>3. \A o, p \in S : o < p => NextOf(new, o) <= p
  BY <1>2, ChainFacts DEF IsChain
<1>4. /\ KeyAt(new, e) = End
      /\ \A o \in S \ {e} : o < e /\ KeyAt(new, o) # End /\ NextOf(new, o) \in S
  BY <1>1, <1>2
<1> QED BY <1>3, <1>4 DEF IsChain

LEMMA ChainOfOne ==
    ASSUME NEW mem \in Mem, KeyAt(mem, MagicSize) = End
    PROVE  IsChain(mem, {MagicSize})
BY DbConstants, DbRoom DEF IsChain, Offsets, Addr, MagicSize, HeadSize, ImageEnd

-----------------------------------------------------------------------------
\* The header at o is the same in both.
SameItem(mem, new, o) == KeyAt(new, o) = KeyAt(mem, o) /\ LenAt(new, o) = LenAt(mem, o)

\* An item that swallows the items up to another one of the chain.
LEMMA ChainMerge ==
    ASSUME NEW mem \in Mem, NEW S, IsChain(mem, S), NEW new \in Mem,
           NEW a \in S, NEW l \in Nat, a + HeadSize + l \in S,
           KeyAt(new, a) = Null, LenAt(new, a) = l,
           \A o \in S \ {a} : SameItem(mem, new, o),
           NEW T, T \subseteq S, \A o \in S : o \in T <=> o <= a \/ o >= a + HeadSize + l
    PROVE  IsChain(new, T)
<1> USE DEF HeadSize, Null, End
<1>1. /\ S \subseteq Nat
      /\ \A o \in S : NextOf(mem, o) \in Nat /\ NextOf(mem, o) >= o + HeadSize
      /\ \A o, p \in S : o < p => o + HeadSize <= p
  BY ChainFacts
<1>2. PICK e \in S : /\ KeyAt(mem, e) = End
                     /\ \A o \in S \ {e} : /\ o < e /\ KeyAt(mem, o) # End
                                          /\ NextOf(mem, o) \in S
  BY DEF IsChain
<1>3. a # e /\ e >= a + HeadSize + l /\ e \in T
  BY <1>1, <1>2
<1>4. KeyAt(new, e) = End
  BY <1>2, <1>3 DEF SameItem
<1>5. NextOf(new, a) = a + HeadSize + l
  BY DEF NextOf
<1>6. \A o \in S \ {a} : NextOf(new, o) = NextOf(mem, o) /\ KeyAt(new, o) = KeyAt(mem, o)
  BY DEF NextOf, SameItem
<1>7. \A o, p \in S : o < p => NextOf(mem, o) <= p
  BY DEF IsChain
<1>8. \A o, p \in T : o < p => NextOf(new, o) <= p
  BY <1>1, <1>5, <1>6, <1>7
<1>10. \A o \in T \ {e} : o < e /\ KeyAt(new, o) # End /\ NextOf(new, o) \in T
  <2> TAKE o \in T \ {e}
  <2>1. CASE o = a
    BY <2>1, <1>1, <1>2, <1>3, <1>5
  <2>2. CASE o # a /\ o < a
    BY <2>2, <1>1, <1>2, <1>6, <1>7
  <2>3. CASE o # a /\ o >= a + HeadSize + l
    <3>1. NextOf(mem, o) \in S /\ NextOf(mem, o) >= a + HeadSize + l
      BY <2>3, <1>1, <1>2
    <3> QED BY <2>3, <3>1, <1>2, <1>6
  <2> QED BY <2>1, <2>2, <2>3, <1>1
<1>11. MagicSize \in T /\ T \subseteq Offsets
  BY <1>1 DEF IsChain, Offsets, MagicSize
<1> QED BY <1>3, <1>4, <1>8, <1>10, <1>11 DEF IsChain

\* An item put in the place of a free item, followed by a free item for the
\* rest, or in the place of the end item, followed by a new end item.
LEMMA ChainInsert ==
    ASSUME NEW mem \in Mem, NEW S, IsChain(mem, S), NEW new \in Mem,
           NEW a \in S, NEW d \in Nat, a + HeadSize + d \in Offsets,
           KeyAt(new, a) # End, LenAt(new, a) = d,
           \A o \in S \ {a} : SameItem(mem, new, o),
           LET b == a + HeadSize + d
           IN  \/ KeyAt(mem, a) = End /\ KeyAt(new, b) = End
               \/ /\ KeyAt(mem, a) # End /\ KeyAt(new, b) # End
                  /\ NextOf(new, b) = NextOf(mem, a)
    PROVE  IsChain(new, S \cup {a + HeadSize + d})
<1> DEFINE b == a + HeadSize + d
           T == S \cup {b}
<1> USE DEF HeadSize
<1>1. /\ S \subseteq Nat /\ b \in Nat /\ b > a
      /\ \A o \in S : NextOf(mem, o) \in Nat /\ NextOf(mem, o) >= o + HeadSize
      /\ \A o, p \in S : o < p => o + HeadSize <= p
      /\ \A o, p \in S : KeyAt(mem, o) = End => p <= o
  BY ChainFacts
<1>2. PICK e \in S : /\ KeyAt(mem, e) = End
                     /\ \A o \in S \ {e} : /\ o < e /\ KeyAt(mem, o) # End
                                          /\ NextOf(mem, o) \in S
  BY DEF IsChain
<1>3. NextOf(new, a) = b
  BY DEF NextOf
<1>4. \A o \in S \ {a} : NextOf(new, o) = NextOf(mem, o) /\ KeyAt(new, o) = KeyAt(mem, o)
  BY DEF NextOf, SameItem
<1>5. \A o, p \in S : o < p => NextOf(mem, o) <= p
  BY DEF IsChain
<1>6. MagicSize \in T /\ T \subseteq Offsets
  BY DEF IsChain
<1>7. CASE KeyAt(mem, a) = End /\ KeyAt(new, b) = End
  <2>1. a = e
    BY <1>1, <1>2, <1>7
  <2>2. \A o \in S : o # a => o < a /\ NextOf(new, o) <= a /\ NextOf(new, o) \in S
    BY <1>2, <1>4, <1>5, <2>1
  <2>3. \A o, p \in T : o < p => NextOf(new, o) <= p
    BY <1>1, <1>3, <1>4, <1>5, <2>1, <2>2
  <2>4. KeyAt(new, b) = End /\ b \in T
    BY <1>7
  <2>5. \A o \in T \ {b} : o < b /\ KeyAt(new, o) # End /\ NextOf(new, o) \in T
    BY <1>1, <1>2, <1>3, <1>4, <2>1, <2>2
  <2> HIDE DEF T, b
  <2>6. IsChain(new, T)
    BY <1>6, <2>3, <2>4, <2>5 DEF IsChain
  <2> QED BY <2>6 DEF T, b
<1>8. CASE /\ KeyAt(mem, a) # End /\ KeyAt(new, b) # End
           /\ NextOf(new, b) = NextOf(mem, a)
  <2>1. a # e /\ NextOf(mem, a) \in S /\ e \in T /\ a < e
    BY <1>2, <1>8
  <2>2. LenAt(new, b) \in Nat
    <3>1. b + 1 \in Addr
      BY <1>1, DbConstants DEF Addr, Offsets
    <3> HIDE DEF b
    <3> QED BY <3>1 DEF LenAt, Mem
  <2>3. b + HeadSize <= NextOf(mem, a) /\ b < e
    BY <1>1, <1>2, <1>8, <2>1, <2>2 DEF NextOf
  <2>4. \A o \in S : o > a => o >= NextOf(mem, a)
    BY <1>1, <1>5
  <2>5. \A o \in S : o < b => o <= a
    BY <1>1, <2>1, <2>3, <2>4
  <2>6. \A o, p \in T : o < p => NextOf(new, o) <= p
    <3> SUFFICES ASSUME NEW o \in T, NEW p \in T, o < p PROVE NextOf(new, o) <= p
      OBVIOUS
    <3>1. CASE o = b
      BY <3>1, <1>1, <1>8, <2>4
    <3>2. CASE o = a
      BY <3>2, <1>1, <1>3, <2>1, <2>3, <2>4
    <3>3. CASE o # a /\ o # b /\ p # b
      BY <3>3, <1>4, <1>5
    <3>4. CASE o # a /\ o # b /\ p = b
      <4>1. o < a
        BY <3>4, <1>1, <2>5
      <4> QED BY <3>4, <4>1, <1>1, <1>4, <1>5
    <3> QED BY <3>1, <3>2, <3>3, <3>4
  <2>7. KeyAt(new, e) = End
    BY <1>2, <1>4, <2>1
  <2>8. \A o \in T \ {e} : o < e /\ KeyAt(new, o) # End /\ NextOf(new, o) \in T
    <3> TAKE o \in T \ {e}
    <3>1. CASE o = b
      BY <3>1, <1>8, <2>1, <2>3
    <3>2. CASE o = a
      BY <3>2, <1>3, <2>1
    <3>3. CASE o # a /\ o # b
      BY <3>3, <1>2, <1>4
    <3> QED BY <3>1, <3>2, <3>3
  <2> HIDE DEF T, b
  <2>9. IsChain(new, T)
    BY <1>6, <2>1, <2>6, <2>7, <2>8 DEF IsChain
  <2> QED BY <2>9 DEF T, b
<1> QED BY <1>7, <1>8

-----------------------------------------------------------------------------
(* Writes that spare the chain.                                            *)

\* A write between the headers of the chain.
LEMMA WriteMisses ==
    ASSUME NEW mem \in Mem, NEW S, IsChain(mem, S), NEW a \in Nat, NEW n \in Nat,
           NEW cells \in Seq(Nat), n <= Len(cells), a + n <= Size,
           \A o \in S : o + 1 < a \/ o >= a + n
    PROVE  LET new == Written(mem, a, cells, n)
           IN  new \in Mem /\ IsChain(new, S) /\ \A o \in S : SameItem(mem, new, o)
<1> DEFINE new == Written(mem, a, cells, n)
<1>1. new \in Mem
  <2>1. a < 2 * Size
    BY Sizes
  <2> QED BY <2>1, WrittenType
<1>2. ASSUME NEW o \in S PROVE SameItem(mem, new, o)
  <2>1. o \in Nat /\ o \in Addr /\ o + 1 \in Addr
    BY ChainFacts
  <2>2. ~(a <= o /\ o < a + n) /\ ~(a <= o + 1 /\ o + 1 < a + n)
    BY <2>1
  <2>3. new[o] = mem[o]
    BY <2>1, <2>2, WrittenCell
  <2>4. new[o + 1] = mem[o + 1]
    BY <2>1, <2>2, WrittenCell
  <2> QED BY <2>3, <2>4 DEF SameItem, KeyAt, LenAt
<1> HIDE DEF new
<1>3. IsChain(new, S)
  BY <1>1, <1>2, ChainSame DEF SameItem
<1> QED BY <1>1, <1>2, <1>3 DEF new

\* Another header where there was one; the others of the chain are as before.
LEMMA WriteHead ==
    ASSUME NEW mem \in Mem, NEW S, IsChain(mem, S), NEW a \in S, NEW k \in Nat, NEW l \in Nat
    PROVE  LET new == Written(mem, a, Header(k, l), HeadSize)
           IN  /\ new \in Mem /\ KeyAt(new, a) = k /\ LenAt(new, a) = l
               /\ \A o \in S \ {a} : SameItem(mem, new, o)
<1> DEFINE new == Written(mem, a, Header(k, l), HeadSize)
<1>1. /\ S \subseteq Nat /\ a \in Nat /\ a + HeadSize < Size
      /\ \A o \in S : o \in Addr /\ o + 1 \in Addr
      /\ \A o, p \in S : o < p => o + HeadSize <= p
  BY ChainFacts
<1>2. /\ new \in Mem /\ new[a] = k /\ new[a + 1] = l
      /\ \A c \in Addr : c # a /\ c # a + 1 => new[c] = mem[c]
  <2>1. a + HeadSize <= Size
    BY <1>1, Sizes DEF HeadSize
  <2> QED BY <1>1, <2>1, WrittenHeader
<1>3. ASSUME NEW o \in S \ {a} PROVE SameItem(mem, new, o)
  <2>1. o # a /\ o # a + 1 /\ o + 1 # a /\ o + 1 # a + 1
    BY <1>1 DEF HeadSize
  <2>2. new[o] = mem[o] /\ new[o + 1] = mem[o + 1]
    BY <1>1, <1>2, <2>1
  <2> QED BY <2>2 DEF SameItem, KeyAt, LenAt
<1> QED BY <1>2, <1>3 DEF KeyAt, LenAt

\* The first cell of a header: another key, none of them the end.
LEMMA WriteKey ==
    ASSUME NEW mem \in Mem, NEW S, IsChain(mem, S), NEW a \in S, KeyAt(mem, a) # End,
           NEW cells \in Seq(Nat), Len(cells) >= 1, cells[1] # End
    PROVE  LET new == Written(mem, a, cells, 1)
           IN  new \in Mem /\ IsChain(new, S)
<1> DEFINE new == Written(mem, a, cells, 1)
<1>1. /\ S \subseteq Nat /\ a \in Nat /\ a + HeadSize < Size
      /\ \A o \in S : o \in Addr /\ o + 1 \in Addr
      /\ \A o, p \in S : o < p => o + HeadSize <= p
  BY ChainFacts
<1>2. a + 1 <= Size /\ a < 2 * Size
  BY <1>1, Sizes DEF HeadSize
<1>3. new \in Mem
  BY <1>1, <1>2, WrittenType
<1>4. new[a] = cells[1]
  <2>1. new[a] = cells[a - a + 1]
    BY <1>1, <1>2, WrittenCell
  <2> QED BY <1>1, <2>1
<1>5. \A c \in Addr : c # a => new[c] = mem[c]
  <2> TAKE c \in Addr
  <2>1. c \in Nat
    BY Sizes DEF Addr
  <2> QED BY <1>1, <1>2, <2>1, WrittenCell
<1> HIDE DEF new
<1>6. ASSUME NEW o \in S
      PROVE  /\ KeyAt(new, o) = End <=> KeyAt(mem, o) = End
             /\ LenAt(new, o) = LenAt(mem, o)
  <2>1. o + 1 # a
    BY <1>1 DEF HeadSize
  <2>2. LenAt(new, o) = LenAt(mem, o)
    BY <1>1, <1>5, <2>1 DEF LenAt
  <2>3. CASE o = a
    BY <1>4, <2>2, <2>3 DEF KeyAt
  <2>4. CASE o # a
    BY <1>1, <1>5, <2>2, <2>4 DEF KeyAt
  <2> QED BY <2>3, <2>4
<1>7. IsChain(new, S)
  BY <1>3, <1>6, ChainSame
<1> QED BY <1>3, <1>7 DEF new

\* Nothing written.
LEMMA WriteNothing ==
    ASSUME NEW mem \in Mem, NEW a \in Nat, a < Size, NEW cells
    PROVE  Written(mem, a, cells, 0) = mem
<1>1. ASSUME NEW c \in Addr PROVE Written(mem, a, cells, 0)[c] = mem[c]
  <2>1. c \in Nat
    BY Sizes DEF Addr
  <2> QED BY <2>1, WrittenCell, Sizes
<1>2. Written(mem, a, cells, 0) = [c \in Addr |-> Written(mem, a, cells, 0)[c]]
  BY DEF Written
<1>3. mem = [c \in Addr |-> mem[c]]
  BY DEF Mem
<1> QED BY <1>1, <1>2, <1>3

-----------------------------------------------------------------------------
(* Steps that go from one operation, or part of one, to the next.          *)

\* What the invariant says while a chain is there.
LEMMA Facts ==
    ASSUME TypeInv
    PROVE  /\ eeprom \in Mem /\ off \in Nat /\ len \in Nat /\ pc \in Places
           /\ data \in Seq(Nat) /\ Len(data) \in Nat /\ Short(data)
           /\ kept[Prodnum] \in Seq(Nat) /\ Len(kept[Prodnum]) \in Nat
           /\ HeadSize = 2 /\ MagicSize = 1 /\ Null = 0 /\ End = 1
<1>1. kept[Prodnum] \in Seq(Nat)
  BY DEF TypeInv, TypeOK
<1>2. data \in Seq(Nat) /\ Short(data)
  BY DEF TypeInv, TypeOK, SizeInv
<1>3. eeprom \in Mem /\ off \in Nat /\ len \in Nat /\ pc \in Places
  BY DEF TypeInv, TypeOK, Mem
<1> QED BY <1>1, <1>2, <1>3 DEF HeadSize, MagicSize, Null, End

LEMMA ViewIs == pc \notin EndPlaces => View = eeprom
BY DEF View, Unfinished, EndPlaces

\* The chain is where the places that need it are.
LEMMA InChain ==
    ASSUME ChainInv, TypeInv, pc \notin {"idle", "magic", "initEnd", "delWalk", "addSearch"}
    PROVE  Chained
BY DEF ChainInv, Unused

LEMMA EnterChain ==
    ASSUME TypeInv, IsChain(eeprom', heads'), NEW k \in Keys, NEW d \in Seq(Nat), Enter(k, d),
           cmd' \in {"add", "eepromadd"} => Room(heads', Len(d)),
           cmd' = "clear" => IF k = Ethaddr THEN Room(heads', Len(d) + HeadSize + Len(kept'[Prodnum]))
                                            ELSE Room(heads', Len(d))
    PROVE  ChainInv'
<1>1. /\ pc' = "delWalk" /\ key' = k /\ data' = d /\ off' = MagicSize /\ prev' = NoPrev
  BY DEF Enter
<1>2. View' = eeprom' /\ MagicSize \in heads'
  BY <1>1 DEF View, Unfinished, IsChain
<1>3. OffInv'
  BY <1>1, <1>2, NoPrevKey DEF OffInv, WalkInv
<1>4. RoomInv'
  BY <1>1 DEF RoomInv, DelPlaces, AddPlaces, EndPlaces
<1> QED BY <1>1, <1>2, <1>3, <1>4 DEF ChainInv, Chained, DelPlaces

LEMMA IdleChain ==
    ASSUME IsChain(eeprom', heads'), pc' = "idle", prev'.key # Null
    PROVE  ChainInv'
<1>1. View' = eeprom'
  BY DEF View, Unfinished
<1>2. OffInv' /\ RoomInv'
  BY DEF OffInv, RoomInv, DelPlaces, AddPlaces, EndPlaces
<1> QED BY <1>1, <1>2 DEF ChainInv, Chained

\* A return, with room left for clear_eeprom's second item.
LEMMA ReturnChain ==
    ASSUME TypeInv, IsChain(eeprom', heads'), NEW code, Return(code),
           cmd = "clear" /\ key = Ethaddr /\ ~BeforeDispatch /\ pc # "clrWalk" =>
              Room(heads', Len(kept[Prodnum]))
    PROVE  ChainInv'
<1>1. CASE cmd = "clear" /\ key = Ethaddr /\ ~BeforeDispatch /\ pc # "clrWalk"
  <2>1. Enter(Prodnum, kept[Prodnum]) /\ UNCHANGED <<cmd, kept, rc, out>>
    BY <1>1 DEF Return
  <2>2. kept[Prodnum] \in Seq(Nat) /\ Prodnum # Ethaddr /\ Prodnum \in Keys
    BY DbConstants DEF TypeInv, TypeOK
  <2> QED BY <1>1, <2>1, <2>2, EnterChain
<1>2. CASE ~(cmd = "clear" /\ key = Ethaddr /\ ~BeforeDispatch /\ pc # "clrWalk")
  <2>1. pc' = "idle" /\ prev' = NoPrev
    BY <1>2 DEF Return
  <2> QED BY <2>1, IdleChain, NoPrevKey
<1> QED BY <1>1, <1>2

\* The room del_item and add_item work in.
LEMMA RoomLeft ==
    ASSUME TypeInv, ChainInv, Chained, pc \in DelPlaces \cup AddPlaces
    PROVE  /\ cmd \in {"add", "eepromadd", "clear"} => Room(heads, Len(data))
           /\ cmd = "clear" /\ key = Ethaddr => Room(heads, Len(kept[Prodnum]))
           /\ pc \in AddPlaces => Room(heads, Len(data))
<1>1. /\ IsChain(eeprom, heads) /\ eeprom \in Mem
      /\ Len(data) \in Nat /\ Len(kept[Prodnum]) \in Nat /\ HeadSize = 2
  BY Facts, ViewIs DEF Chained, DelPlaces, AddPlaces, EndPlaces
<1>2. heads \subseteq Nat
  BY <1>1, ChainFacts
<1>3. cmd = "clear" /\ key = Ethaddr =>
         Room(heads, Len(kept[Prodnum])) /\ Room(heads, Len(data))
  <2> SUFFICES ASSUME cmd = "clear", key = Ethaddr
               PROVE  Room(heads, Len(kept[Prodnum])) /\ Room(heads, Len(data))
    OBVIOUS
  <2>1. Room(heads, Len(data) + HeadSize + Len(kept[Prodnum]))
    BY DEF ChainInv, RoomInv
  <2>2. Size \in Nat
    BY Sizes
  <2>3. ASSUME NEW e \in heads
        PROVE  e + 2 * HeadSize + Len(kept[Prodnum]) < Size /\ e + 2 * HeadSize + Len(data) < Size
    <3> DEFINE m == Len(data)
               n == Len(kept[Prodnum])
    <3>1. e \in Nat /\ e + 2 * HeadSize + (m + HeadSize + n) < Size
      BY <1>2, <2>1 DEF Room
    <3>2. m \in Nat /\ n \in Nat
      BY <1>1
    <3> HIDE DEF m, n
    <3>3. e + 2 * HeadSize + n < Size /\ e + 2 * HeadSize + m < Size
      BY ONLY <3>1, <3>2, <2>2 DEF HeadSize
    <3> QED BY <3>3 DEF m, n
  <2> QED BY <2>3 DEF Room
<1>4. cmd = "clear" /\ key # Ethaddr => Room(heads, Len(data))
  BY DEF ChainInv, RoomInv
<1>5. cmd \in {"add", "eepromadd"} => Room(heads, Len(data))
  BY DEF ChainInv, RoomInv, DelPlaces, AddPlaces, EndPlaces
<1>6. pc \in AddPlaces => cmd \in {"add", "eepromadd", "clear"}
  BY DEF TypeInv, CmdInv, AddPlaces, ItemPlaces, DelPlaces, EndPlaces
<1> QED BY <1>3, <1>4, <1>5, <1>6

\* The end of del_item; the write before it took items off the chain.
LEMMA DelReturnChain ==
    ASSUME TypeInv, ChainInv, Chained, pc \in DelPlaces,
           IsChain(eeprom', heads'), heads' \subseteq heads, NEW code, DelReturn(code)
    PROVE  ChainInv'
<1>1. CASE cmd = "del"
  BY <1>1, ReturnChain DEF DelReturn
<1>2. CASE cmd # "del"
  <2>1. /\ pc' = "addSearch" /\ off' = MagicSize /\ prev' = NoPrev
        /\ UNCHANGED <<cmd, key, data, kept>>
    BY <1>2 DEF DelReturn
  <2>2. View' = eeprom' /\ MagicSize \in heads'
    BY <2>1 DEF View, Unfinished, IsChain
  <2>3. OffInv'
    BY <2>1, <2>2 DEF OffInv
  <2>4. \A n : Room(heads, n) => Room(heads', n)
    BY DEF Room
  <2>5. RoomInv'
    BY <2>1, <2>4 DEF ChainInv, RoomInv, DelPlaces, AddPlaces, EndPlaces
  <2> QED BY <2>1, <2>2, <2>3, <2>5, NoPrevKey DEF ChainInv, Chained
<1> QED BY <1>1, <1>2

\* A step within an operation that leaves the chain and who may use it alone.
LEMMA MoveChain ==
    ASSUME TypeInv, ChainInv, IsChain(eeprom', heads), UNCHANGED <<heads, cmd, key, data, kept>>,
           pc' \in Places \ (EndPlaces \cup {"idle", "appUndo"}),
           pc' \notin DelPlaces => prev'.key # Null,
           pc # "idle" /\ pc \notin EndPlaces,
           pc' \in DelPlaces \cup AddPlaces /\ cmd = "clear" => pc \in DelPlaces \cup AddPlaces,
           OffInv'
    PROVE  ChainInv'
<1>1. View' = eeprom'
  BY DEF View, Unfinished, EndPlaces
<1>2. RoomInv'
  BY DEF ChainInv, RoomInv, EndPlaces
<1> QED BY <1>1, <1>2 DEF ChainInv, Chained

\* A device nothing was stored on stays one: what a walk reads there leads out
\* of range.
LEMMA UnusedWalk ==
    ASSUME TypeInv, Unused, pc \in {"delWalk", "addSearch"}, InRange(off)
    PROVE  /\ KeyAt(eeprom, off) = Blank /\ ~InRange(NextOf(eeprom, off))
           /\ Blank \notin Keys \cup {Null, End}
<1>1. off = MagicSize /\ LenAt(eeprom, off) = Blank /\ KeyAt(eeprom, off) = Blank
  BY DEF Unused
<1>2. Blank \in Nat /\ Blank >= Size /\ Size \in Nat /\ Size >= 6 /\ Blank \notin Keys
  BY DbCells, DbConstants, Sizes
<1> QED BY <1>1, <1>2 DEF NextOf, InRange, MagicSize, HeadSize, Null, End

-----------------------------------------------------------------------------
(* One lemma for each step that touches the chain or a walk on it.         *)

LEMMA StepDelWalk == ASSUME TypeInv, ChainInv, DelWalk PROVE ChainInv'
<1> USE DEF DelPlaces, AddPlaces, EndPlaces
<1>0. /\ pc = "delWalk" /\ UNCHANGED <<eeprom, heads>> /\ off \in Nat /\ eeprom \in Mem
      /\ HeadSize = 2 /\ Null = 0 /\ End = 1 /\ key \in Keys /\ key # Null /\ key # End
  BY Facts, Sizes DEF DelWalk, TypeInv, CmdInv
<1>1. CASE Chained
  <2>0. IsChain(eeprom, heads) /\ WalkInv /\ heads \subseteq Nat
    BY <1>0, <1>1, ViewIs, ChainFacts DEF Chained, OffInv
  <2>1. CASE DelReturn("failed")
    BY <1>0, <1>1, <2>0, <2>1, DelReturnChain
  <2>2. CASE /\ InRange(off) /\ KeyAt(eeprom, off) = key
             /\ pc' = "delNext" /\ len' = LenAt(eeprom, off)
             /\ UNCHANGED <<cmd, key, data, off, prev, kept, rc, out>>
    <3>1. OffInv'
      BY <1>0, <2>0, <2>2 DEF OffInv, WalkInv, Behind
    <3> QED BY <1>0, <2>0, <2>2, <3>1, MoveChain DEF Places
  <2>3. CASE /\ InRange(off) /\ KeyAt(eeprom, off) # key
             /\ prev' = [off |-> off, key |-> KeyAt(eeprom, off), len |-> LenAt(eeprom, off)]
             /\ off' = NextOf(eeprom, off)
             /\ UNCHANGED <<pc, cmd, key, data, len, kept, rc, out>>
    <3>1. LenAt(eeprom, off) \in Nat /\ off' \in Nat /\ off' >= off + HeadSize
      BY <1>0, <2>3, ReadType DEF NextOf
    <3>2. /\ prev'.off = off /\ prev'.key = KeyAt(eeprom, off) /\ prev'.len = LenAt(eeprom, off)
          /\ prev'.off + HeadSize + prev'.len = off'
      BY <2>3 DEF NextOf
    <3>3. CASE Behind(off)
      <4>1. Behind(off') /\ off' \notin heads /\ off \notin heads
        BY <1>0, <2>0, <3>1, <3>3 DEF Behind
      <4>2. WalkInv'
        BY <1>0, <3>2, <3>3, <4>1 DEF WalkInv, Behind
      <4>3. OffInv'
        BY <1>0, <2>3, <4>2 DEF OffInv
      <4> QED BY <1>0, <2>0, <2>3, <4>3, MoveChain DEF Places
    <3>4. CASE off \in heads /\ KeyAt(eeprom, off) = End
      <4>1. \A p \in heads : p <= off
        BY <2>0, <3>4, ChainFacts, <1>0
      <4>2. Behind(off') /\ off' \notin heads
        BY <1>0, <2>0, <3>1, <4>1 DEF Behind
      <4>3. prev'.key # Null
        BY <1>0, <3>2, <3>4
      <4>4. WalkInv'
        BY <1>0, <4>2, <4>3 DEF WalkInv, Behind
      <4>5. OffInv'
        BY <1>0, <2>3, <4>4 DEF OffInv
      <4> QED BY <1>0, <2>0, <2>3, <4>5, MoveChain DEF Places
    <3>5. CASE off \in heads /\ KeyAt(eeprom, off) # End
      <4>1. off' \in heads
        BY <1>0, <2>0, <2>3, <3>5, ChainFacts
      <4>2. WalkInv'
        BY <1>0, <3>2, <3>5, <4>1 DEF WalkInv, Behind
      <4>3. OffInv'
        BY <1>0, <2>3, <4>2 DEF OffInv
      <4> QED BY <1>0, <2>0, <2>3, <4>3, MoveChain DEF Places
    <3> QED BY <2>0, <3>3, <3>4, <3>5 DEF WalkInv
  <2> QED BY <2>1, <2>2, <2>3 DEF DelWalk
<1>2. CASE Unused
  <2>1. CASE DelReturn("failed")
    <3>1. cmd = "eepromadd"
      BY <1>0, <1>2 DEF Unused
    <3>2. /\ pc' = "addSearch" /\ off' = MagicSize /\ prev' = NoPrev
          /\ UNCHANGED <<cmd, key, data, kept>>
      BY <2>1, <3>1 DEF DelReturn
    <3>3. Unused'
      BY <1>0, <1>2, <3>1, <3>2 DEF Unused
    <3>4. RoomInv'
      BY <1>0, <3>1, <3>2 DEF ChainInv, RoomInv
    <3> QED BY <3>2, <3>3, <3>4, NoPrevKey DEF ChainInv
  <2>2. CASE /\ InRange(off) /\ KeyAt(eeprom, off) = key
    BY <1>0, <1>2, <2>2, UnusedWalk
  <2>3. CASE /\ InRange(off) /\ off' = NextOf(eeprom, off)
             /\ UNCHANGED <<pc, cmd, key, data, len, kept, rc, out>>
    <3>1. ~InRange(off')
      BY <1>0, <1>2, <2>3, UnusedWalk
    <3>2. Unused'
      BY <1>0, <1>2, <2>3, <3>1 DEF Unused
    <3>3. RoomInv'
      BY <1>0, <2>3 DEF ChainInv, RoomInv
    <3> QED BY <1>0, <2>3, <3>2, <3>3 DEF ChainInv
  <2> QED BY <2>1, <2>2, <2>3 DEF DelWalk
<1> QED BY <1>1, <1>2 DEF ChainInv

LEMMA StepDelNext == ASSUME TypeInv, ChainInv, DelNext PROVE ChainInv'
<1> USE DEF DelPlaces, AddPlaces, EndPlaces
<1>0. /\ pc = "delNext" /\ pc' = "delSave" /\ UNCHANGED <<eeprom, heads>> /\ eeprom \in Mem
      /\ UNCHANGED <<cmd, key, data, prev, kept, rc, out>>
      /\ off \in Nat /\ len \in Nat
      /\ HeadSize = 2 /\ Null = 0 /\ End = 1 /\ key \in Keys /\ key # Null /\ key # End
  BY Facts, Sizes DEF DelNext, TypeInv, CmdInv
<1>1. /\ Chained /\ IsChain(eeprom, heads) /\ WalkInv /\ heads \subseteq Nat
      /\ KeyAt(eeprom, off) = key /\ len = LenAt(eeprom, off)
  BY <1>0, InChain, ViewIs, ChainFacts DEF Chained, OffInv
<1> DEFINE next == off + HeadSize + len
<1>2. PICK l \in Nat :
         /\ off' = MergedWithPrev(l).off /\ len' = MergedWithPrev(l).len
         /\ off \in heads => off + HeadSize + l \in heads
  <2>1. off \in heads => next \in heads /\ InRange(next)
    <3> SUFFICES ASSUME off \in heads PROVE next \in heads /\ InRange(next)
      OBVIOUS
    <3>1. next \in heads
      BY <1>0, <1>1, ChainFacts DEF NextOf
    <3> HIDE DEF next
    <3> QED BY <1>1, <3>1 DEF IsChain, Offsets, InRange
  <2>2. CASE /\ InRange(next) /\ KeyAt(eeprom, next) = Null
             /\ off' = MergedWithPrev(len + HeadSize + LenAt(eeprom, next)).off
             /\ len' = MergedWithPrev(len + HeadSize + LenAt(eeprom, next)).len
    <3> DEFINE l == len + HeadSize + LenAt(eeprom, next)
    <3>2. next \in Nat
      BY <1>0
    <3>3. LenAt(eeprom, next) \in Nat
      BY <2>2, <3>2, ReadType
    <3>4. off \in heads => off + HeadSize + l \in heads
      <4>1. off \in heads => NextOf(eeprom, next) \in heads
        BY <1>0, <1>1, <2>1, <2>2, ChainFacts
      <4>2. NextOf(eeprom, next) = off + HeadSize + l
        BY <1>0, <3>3 DEF NextOf
      <4> QED BY <4>1, <4>2
    <3>5. l \in Nat
      BY <1>0, <3>3
    <3> QED BY <2>2, <3>4, <3>5
  <2>3. CASE off' = MergedWithPrev(len).off /\ len' = MergedWithPrev(len).len
    BY <1>0, <2>1, <2>3
  <2>4. \/ off' = MergedWithPrev(len).off /\ len' = MergedWithPrev(len).len
        \/ /\ InRange(next) /\ KeyAt(eeprom, next) = Null
           /\ off' = MergedWithPrev(len + HeadSize + LenAt(eeprom, next)).off
           /\ len' = MergedWithPrev(len + HeadSize + LenAt(eeprom, next)).len
    BY DEF DelNext
  <2> QED BY <2>2, <2>3, <2>4
<1>3. OffInv'
  <2>1. \/ off' \in heads /\ KeyAt(eeprom, off') # End /\ off' + HeadSize + len' \in heads
        \/ Behind(off')
    <3>1. CASE prev.key = Null
      <4>1. off' = prev.off /\ len' = l + prev.len + HeadSize
        <5>1. MergedWithPrev(l) = [off |-> prev.off, len |-> l + prev.len + HeadSize]
          BY <3>1 DEF MergedWithPrev
        <5> QED BY <1>2, <5>1
      <4>2. prev.off \in Nat /\ prev.len \in Nat /\ prev.off + HeadSize + prev.len = off
        BY <1>1, <3>1 DEF TypeInv, TypeOK, WalkInv
      <4>3. CASE off \in heads
        <5>1. prev.off \in heads /\ prev.off < off
          BY <1>0, <1>1, <3>1, <4>2, <4>3 DEF WalkInv
        <5>2. KeyAt(eeprom, prev.off) # End
          BY <1>0, <1>1, <4>3, <5>1, ChainFacts
        <5>3. off' + HeadSize + len' = off + HeadSize + l
          BY <1>0, <4>1, <4>2
        <5> QED BY <1>2, <4>1, <4>3, <5>1, <5>2, <5>3
      <4>4. CASE off \notin heads
        BY <1>1, <3>1, <4>1, <4>4 DEF WalkInv
      <4> QED BY <4>3, <4>4
    <3>2. CASE prev.key # Null
      <4>1. off' = off /\ len' = l
        <5>1. MergedWithPrev(l) = [off |-> off, len |-> l]
          BY <3>2 DEF MergedWithPrev
        <5> QED BY <1>2, <5>1
      <4> QED BY <1>0, <1>1, <1>2, <4>1 DEF WalkInv
    <3> QED BY <3>1, <3>2
  <2> QED BY <1>0, <2>1 DEF OffInv, Behind
<1> QED BY <1>0, <1>1, <1>3, MoveChain DEF Places

\* The header of the freed item, whole: it swallows its free neighbours, or it
\* is behind the chain.
LEMMA StepDelSave == ASSUME Safe, TypeInv, ChainInv, DelSave PROVE ChainInv'
<1> USE DEF DelPlaces, AddPlaces, EndPlaces
<1>0. /\ pc = "delSave" /\ WriteDone /\ DelReturn("ok")
      /\ heads' = { o \in heads : o <= off \/ o >= off + HeadSize + len }
      /\ eeprom \in Mem /\ off \in Nat /\ len \in Nat /\ Null = 0 /\ End = 1 /\ HeadSize = 2
  BY Facts DEF DelSave, WriteFails, Safe
<1>1. Chained /\ IsChain(eeprom, heads) /\ heads \subseteq Nat
  BY <1>0, InChain, ViewIs, ChainFacts DEF Chained
<1>2. /\ Header(Null, len) \in Seq(Nat) /\ Len(Header(Null, len)) = HeadSize
      /\ eeprom' = Written(eeprom, off, Header(Null, len), HeadSize)
  <2>1. Pending = [at |-> off, cells |-> Header(Null, len)]
    BY <1>0, PendingIs
  <2>2. Null \in Nat
    BY <1>0
  <2>3. Header(Null, len) \in Seq(Nat) /\ Len(Header(Null, len)) = HeadSize
    BY <1>0, <2>2, HeaderSeq
  <2> QED BY <1>0, <2>1, <2>3 DEF WriteDone
<1>3. CASE off \in heads /\ KeyAt(eeprom, off) # End /\ off + HeadSize + len \in heads
  <2>1. /\ eeprom' \in Mem /\ KeyAt(eeprom', off) = Null /\ LenAt(eeprom', off) = len
        /\ \A o \in heads \ {off} : SameItem(eeprom, eeprom', o)
    <3>1. Null \in Nat
      BY <1>0
    <3> QED BY <1>0, <1>1, <1>2, <1>3, <3>1, WriteHead
  <2>2. IsChain(eeprom', heads')
    <3>1. /\ eeprom \in Mem /\ len \in Nat /\ heads' \subseteq heads
          /\ \A o \in heads : o \in heads' <=> o <= off \/ o >= off + HeadSize + len
      BY <1>0
    <3> QED BY ONLY <1>1, <1>3, <2>1, <3>1, ChainMerge
  <2>3. heads' \subseteq heads
    BY <1>0
  <2> QED BY <1>0, <1>1, <2>2, <2>3, DelReturnChain
<1>4. CASE Behind(off)
  <2>1. heads' = heads
    <3>1. \A o \in heads : o <= off
      BY <1>0, <1>1, <1>4 DEF Behind
    <3> QED BY <1>0, <3>1
  <2>2. off + HeadSize <= Size
    BY <1>0, Sizes DEF TypeInv, SizeInv, InRange
  <2>3. \A o \in heads : o + 1 < off
    BY <1>0, <1>1, <1>4 DEF Behind
  <2>4. IsChain(eeprom', heads)
    <3>1. HeadSize \in Nat /\ HeadSize <= HeadSize
      BY <1>0
    <3> QED BY <1>0, <1>1, <1>2, <2>2, <2>3, <3>1, WriteMisses
  <2> QED BY <1>0, <1>1, <2>1, <2>4, DelReturnChain
<1> QED BY <1>0, <1>1, <1>3, <1>4 DEF Chained, OffInv

\* The data of an item, whole or in part, goes between the headers: into a
\* free item or behind the end item.
LEMMA DataSpares ==
    ASSUME TypeInv, ChainInv, pc \in {"addData", "appData"}, NEW n \in Nat, n <= Len(data)
    PROVE  LET new == Written(eeprom, off + HeadSize, data, n)
           IN  /\ new \in Mem /\ IsChain(new, heads) /\ \A o \in heads : SameItem(eeprom, new, o)
               /\ off + HeadSize + n <= Size
               /\ \A o \in heads : o <= off \/ o >= off + HeadSize + n
<1>0. /\ eeprom \in Mem /\ off \in Nat /\ data \in Seq(Nat) /\ Len(data) \in Nat /\ len \in Nat
      /\ Null = 0 /\ End = 1 /\ HeadSize = 2
  BY Facts
<1>1. /\ Chained /\ IsChain(eeprom, heads) /\ heads \subseteq Nat /\ off \in heads
      /\ Size \in Nat
  BY <1>0, InChain, ViewIs, ChainFacts, Sizes DEF Chained, OffInv, EndPlaces
<1>2. off + HeadSize \in Nat
  BY <1>0
<1>3. \A o \in heads : o < off => o + 1 < off
  <2>1. \A o \in heads : o < off => o + HeadSize <= off
    BY <1>0, <1>1, ChainFacts
  <2> QED BY <1>0, <1>1, <2>1
<1>4. CASE pc = "addData"
  <2>1. /\ KeyAt(eeprom, off) = Null /\ len = LenAt(eeprom, off) /\ Len(data) <= len
    <3>1. Fits(len) /\ KeyAt(eeprom, off) = Null /\ len = LenAt(eeprom, off)
      BY <1>1, <1>4 DEF TypeInv, SizeInv, Chained, OffInv
    <3> QED BY <1>0, <3>1 DEF Fits
  <2>2. NextOf(eeprom, off) \in heads /\ NextOf(eeprom, off) = off + HeadSize + len
    BY <1>0, <1>1, <2>1, ChainFacts DEF NextOf
  <2>3. off + HeadSize + n <= Size
    <3>1. NextOf(eeprom, off) + HeadSize < Size
      BY <1>0, <1>1, <2>2, ChainFacts
    <3> QED BY <1>0, <1>1, <2>1, <2>2, <3>1
  <2>4. \A o \in heads : o + 1 < off + HeadSize \/ o >= off + HeadSize + n
    <3> TAKE o \in heads
    <3>1. off < o => NextOf(eeprom, off) <= o
      BY <1>1 DEF IsChain
    <3> QED BY <1>0, <1>1, <1>3, <2>1, <2>2, <3>1
  <2>5. \A o \in heads : o <= off \/ o >= off + HeadSize + n
    BY <1>0, <1>1, <2>4
  <2> QED BY <1>0, <1>1, <1>2, <2>3, <2>4, <2>5, WriteMisses
<1>5. CASE pc = "appData"
  <2>1. KeyAt(eeprom, off) = End
    BY <1>1, <1>5 DEF Chained, OffInv
  <2>2. \A o \in heads : o + 1 < off + HeadSize
    <3>1. \A o \in heads : o <= off
      BY <1>0, <1>1, <2>1, ChainFacts
    <3> QED BY <1>0, <1>1, <3>1
  <2>3. off + HeadSize + n <= Size
    <3>1. Room(heads, Len(data))
      BY <1>1, <1>5, RoomLeft DEF AddPlaces
    <3>2. off + 2 * HeadSize + Len(data) < Size
      BY <1>1, <3>1 DEF Room
    <3> QED BY <1>0, <1>1, <3>2
  <2>4. \A o \in heads : o <= off
    BY <1>0, <1>1, <2>2
  <2> QED BY <1>0, <1>1, <1>2, <2>2, <2>3, <2>4, WriteMisses
<1> QED BY <1>4, <1>5

LEMMA StepAddSearch == ASSUME TypeInv, ChainInv, AddSearch PROVE ChainInv'
<1> USE DEF DelPlaces, AddPlaces, EndPlaces
<1>0. /\ pc = "addSearch" /\ UNCHANGED <<eeprom, heads>> /\ off \in Nat /\ eeprom \in Mem
      /\ HeadSize = 2 /\ Null = 0 /\ End = 1 /\ Len(data) \in Nat
      /\ cmd \in {"add", "eepromadd", "clear"} /\ prev.key # Null
  BY Facts DEF AddSearch, TypeInv, CmdInv, ItemPlaces, ChainInv
<1>1. CASE Chained
  <2>0. IsChain(eeprom, heads) /\ off \in heads /\ LenAt(eeprom, off) \in Nat
    BY <1>0, <1>1, ViewIs, ChainFacts DEF Chained, OffInv
  <2>1. CASE Return("failed")
    <3>1. cmd = "clear" /\ key = Ethaddr => Room(heads, Len(kept[Prodnum]))
      BY <1>0, <1>1, RoomLeft
    <3> QED BY <1>0, <2>0, <2>1, <3>1, ReturnChain
  <2>2. CASE /\ InRange(off) /\ len' = LenAt(eeprom, off)
             /\ UNCHANGED <<cmd, key, data, prev, kept, rc, out>>
             /\ KeyAt(eeprom, off) = Null /\ Fits(LenAt(eeprom, off)) /\ UNCHANGED off
             /\ pc' = CASE ~SkipsData                    -> "addData"
                        [] SkipsData /\ LenAt(eeprom, off) = 0 -> "fitHead"
                        [] OTHER                         -> "splitHead"
    <3>1. pc' \in {"addData", "fitHead", "splitHead"}
      BY <2>2
    <3>2. pc' = "fitHead" => len' = Len(data)
      BY <2>2 DEF SkipsData
    <3>3. OffInv'
      BY <1>0, <2>0, <2>2, <3>1, <3>2 DEF OffInv
    <3> QED BY <1>0, <2>0, <2>2, <3>1, <3>3, MoveChain DEF Places
  <2>3. CASE /\ KeyAt(eeprom, off) = End /\ UNCHANGED <<off, cmd, key, data, prev, kept>>
             /\ pc' \in {"appHead", "appData"}
    <3>1. OffInv'
      BY <1>0, <2>0, <2>3 DEF OffInv
    <3> QED BY <1>0, <2>0, <2>3, <3>1, MoveChain DEF Places
  <2>4. CASE /\ KeyAt(eeprom, off) # End /\ off' = NextOf(eeprom, off)
             /\ UNCHANGED <<pc, cmd, key, data, prev, kept>>
    <3>1. off' \in heads
      BY <1>0, <2>0, <2>4, ChainFacts
    <3>2. OffInv'
      BY <1>0, <2>4, <3>1 DEF OffInv
    <3> QED BY <1>0, <2>0, <2>4, <3>2, MoveChain DEF Places
  <2> QED BY <2>1, <2>2, <2>3, <2>4 DEF AddSearch
<1>2. CASE Unused
  <2>0. cmd = "eepromadd"
    BY <1>0, <1>2 DEF Unused
  <2>1. CASE Return("failed")
    <3>1. pc' = "idle" /\ prev' = NoPrev
      BY <2>0, <2>1 DEF Return
    <3>2. Unused'
      BY <1>0, <1>2, <3>1 DEF Unused
    <3> QED BY <3>1, <3>2, NoPrevKey DEF ChainInv, RoomInv
  <2>2. CASE InRange(off) /\ KeyAt(eeprom, off) \in {Null, End}
    BY <1>0, <1>2, <2>2, UnusedWalk
  <2>3. CASE /\ InRange(off) /\ off' = NextOf(eeprom, off)
             /\ UNCHANGED <<pc, cmd, key, data, prev, kept, rc, out>>
    <3>1. ~InRange(off')
      BY <1>0, <1>2, <2>3, UnusedWalk
    <3>2. Unused'
      BY <1>0, <1>2, <2>3, <3>1 DEF Unused
    <3>3. RoomInv'
      BY <1>0, <2>0, <2>3 DEF ChainInv, RoomInv
    <3> QED BY <1>0, <2>3, <3>2, <3>3 DEF ChainInv
  <2> QED BY <2>1, <2>2, <2>3 DEF AddSearch
<1> QED BY <1>1, <1>2 DEF ChainInv

LEMMA StepAddData == ASSUME Safe, TypeInv, ChainInv, AddData PROVE ChainInv'
<1> USE DEF DelPlaces, AddPlaces, EndPlaces
<1>0. /\ pc = "addData" /\ WriteDone /\ UNCHANGED <<heads, cmd, key, data, off, len, prev, kept>>
      /\ pc' = IF len = Len(data) THEN "fitHead" ELSE "splitHead"
      /\ data \in Seq(Nat) /\ Len(data) \in Nat /\ prev.key # Null
  BY Facts DEF AddData, WriteFails, Safe, regs, ChainInv
<1>1. /\ Chained /\ off \in heads /\ KeyAt(eeprom, off) = Null /\ len = LenAt(eeprom, off)
  BY <1>0, InChain DEF Chained, OffInv
<1>2. eeprom' = Written(eeprom, off + HeadSize, data, Len(data))
  <2>1. Pending = [at |-> off + HeadSize, cells |-> data]
    BY <1>0, PendingIs
  <2> QED BY <1>0, <2>1 DEF WriteDone
<1>3. IsChain(eeprom', heads) /\ \A o \in heads : SameItem(eeprom, eeprom', o)
  BY <1>0, <1>2, DataSpares
<1>4. OffInv'
  BY <1>0, <1>1, <1>3 DEF OffInv, SameItem
<1> QED BY <1>0, <1>3, <1>4, MoveChain DEF Places

LEMMA StepAppendData == ASSUME Safe, TypeInv, ChainInv, AppendData PROVE ChainInv'
<1> USE DEF DelPlaces, AddPlaces, EndPlaces
<1>0. /\ pc = "appData" /\ WriteDone /\ UNCHANGED <<heads, cmd, key, data, off, len, prev, kept>>
      /\ pc' = "appHead"
      /\ data \in Seq(Nat) /\ Len(data) \in Nat /\ prev.key # Null
  BY Facts DEF AppendData, WriteFails, Safe, regs, ChainInv
<1>1. /\ Chained /\ off \in heads /\ KeyAt(eeprom, off) = End
  BY <1>0, InChain DEF Chained, OffInv
<1>2. eeprom' = Written(eeprom, off + HeadSize, data, Len(data))
  <2>1. Pending = [at |-> off + HeadSize, cells |-> data]
    BY <1>0, PendingIs
  <2> QED BY <1>0, <2>1 DEF WriteDone
<1>3. IsChain(eeprom', heads) /\ \A o \in heads : SameItem(eeprom, eeprom', o)
  BY <1>0, <1>2, DataSpares
<1>4. OffInv'
  BY <1>0, <1>1, <1>3 DEF OffInv, SameItem
<1> QED BY <1>0, <1>3, <1>4, MoveChain DEF Places

\* An item's header where a free item or the end item was.
LEMMA ItemHead ==
    ASSUME TypeInv, ChainInv, WriteDone, pc \in {"fitHead", "splitHead", "appHead"}
    PROVE  /\ eeprom' = Written(eeprom, off, Header(key, Len(data)), HeadSize)
           /\ eeprom' \in Mem /\ KeyAt(eeprom', off) = key /\ LenAt(eeprom', off) = Len(data)
           /\ \A o \in heads \ {off} : SameItem(eeprom, eeprom', o)
           /\ key \in Nat /\ key # End /\ key # Null
<1>1. key \in Nat /\ key # End /\ key # Null
  BY Sizes DEF TypeInv, CmdInv, ItemPlaces, DelPlaces, AddPlaces
<1>2. eeprom \in Mem /\ Len(data) \in Nat
  BY Facts
<1>3. IsChain(eeprom, heads) /\ off \in heads
  BY InChain, ViewIs DEF Chained, OffInv, EndPlaces
<1>4. eeprom' = Written(eeprom, off, Header(key, Len(data)), HeadSize)
  <2>1. Pending = [at |-> off, cells |-> Header(key, Len(data))]
    BY PendingIs
  <2>2. Len(Header(key, Len(data))) = HeadSize
    BY <1>1, <1>2, HeaderSeq
  <2> QED BY <2>1, <2>2 DEF WriteDone
<1> QED BY <1>1, <1>2, <1>3, <1>4, WriteHead

LEMMA StepFitHead ==
    ASSUME TypeInv, ChainInv, pc = "fitHead", WriteDone, Return("ok"), UNCHANGED heads
    PROVE  ChainInv'
<1>1. /\ eeprom \in Mem /\ Null = 0 /\ End = 1
  BY Facts
<1>2. /\ Chained /\ IsChain(eeprom, heads) /\ off \in heads /\ KeyAt(eeprom, off) = Null
      /\ LenAt(eeprom, off) = Len(data)
  BY InChain, ViewIs DEF Chained, OffInv, EndPlaces
<1>3. IsChain(eeprom', heads)
  <2>1. /\ eeprom' \in Mem /\ KeyAt(eeprom', off) = key /\ LenAt(eeprom', off) = Len(data)
        /\ key # End /\ \A o \in heads \ {off} : SameItem(eeprom, eeprom', o)
    BY ItemHead
  <2>2. ASSUME NEW o \in heads
        PROVE  /\ KeyAt(eeprom', o) = End <=> KeyAt(eeprom, o) = End
               /\ LenAt(eeprom', o) = LenAt(eeprom, o)
    BY <1>1, <1>2, <2>1 DEF SameItem
  <2> QED BY <1>1, <1>2, <2>1, <2>2, ChainSame
<1>4. cmd = "clear" /\ key = Ethaddr => Room(heads, Len(kept[Prodnum]))
  BY <1>2, RoomLeft DEF AddPlaces
<1> QED BY <1>3, <1>4, ReturnChain

\* A new item and the header behind it: what the second write will have made.
LEMMA ViewInsert ==
    ASSUME TypeInv, ChainInv, WriteDone, pc \in {"splitHead", "appHead"}, UNCHANGED regs,
           pc' = IF pc = "splitHead" THEN "splitRest" ELSE "appEnd"
    PROVE  /\ IsChain(View', heads \cup {ItemEnd}) /\ View' \in Mem
           /\ KeyAt(View', off) = key /\ LenAt(View', off) = Len(data)
           /\ \A o \in heads \ {off} : SameItem(eeprom, View', o)
           /\ \A o \in heads : o + HeadSize <= ItemEnd \/ ItemEnd + HeadSize <= o
           /\ KeyAt(View', ItemEnd) = IF pc = "splitHead" THEN Null ELSE End
           /\ pc = "splitHead" => NextOf(View', ItemEnd) = NextOf(eeprom, off)
           /\ \A c \in Addr : c \notin {off, off + 1, ItemEnd, ItemEnd + 1} => View'[c] = eeprom[c]
<1> DEFINE k == IF pc = "splitHead" THEN Null ELSE End
           l == IF pc = "splitHead" THEN len - Len(data) - HeadSize ELSE 0
           new == Written(eeprom', ItemEnd, Header(k, l), HeadSize)
<1>1. /\ eeprom \in Mem /\ off \in Nat /\ len \in Nat /\ Len(data) \in Nat
      /\ HeadSize = 2 /\ Null = 0 /\ End = 1 /\ Size \in Nat
  BY Facts, Sizes
<1>2. /\ Chained /\ IsChain(eeprom, heads) /\ off \in heads /\ heads \subseteq Nat
  BY <1>1, InChain, ViewIs, ChainFacts DEF Chained, OffInv, EndPlaces
<1>3. /\ eeprom' \in Mem /\ KeyAt(eeprom', off) = key /\ LenAt(eeprom', off) = Len(data)
      /\ key # End /\ \A o \in heads \ {off} : SameItem(eeprom, eeprom', o)
  BY ItemHead
<1>4. /\ pc = "splitHead" => /\ KeyAt(eeprom, off) = Null /\ len = LenAt(eeprom, off)
                             /\ len >= Len(data) + HeadSize
      /\ pc = "appHead" => KeyAt(eeprom, off) = End
  BY <1>2 DEF Chained, OffInv, TypeInv, SizeInv
<1>5. k \in Nat /\ l \in Nat /\ ItemEnd \in Nat /\ ItemEnd = off + HeadSize + Len(data)
  BY <1>1, <1>4 DEF ItemEnd
<1>6. pc = "splitHead" => /\ NextOf(eeprom, off) \in heads
                          /\ NextOf(eeprom, off) = ItemEnd + HeadSize + l
  <2> SUFFICES ASSUME pc = "splitHead"
               PROVE  /\ NextOf(eeprom, off) \in heads
                      /\ NextOf(eeprom, off) = ItemEnd + HeadSize + l
    OBVIOUS
  <2>1. NextOf(eeprom, off) \in heads
    BY <1>1, <1>2, <1>4, ChainFacts
  <2>2. NextOf(eeprom, off) = off + HeadSize + len
    BY <1>4 DEF NextOf
  <2>3. l = len - Len(data) - HeadSize
    OBVIOUS
  <2> HIDE DEF l
  <2> QED BY <1>1, <1>5, <2>1, <2>2, <2>3
<1>7. ItemEnd \in Offsets /\ ItemEnd + HeadSize <= Size
  <2>1. ItemEnd + HeadSize < Size /\ ItemEnd >= 1
    <3>1. CASE pc = "splitHead"
      <4>1. NextOf(eeprom, off) + HeadSize < Size
        BY <1>1, <1>2, <1>6, <3>1, ChainFacts
      <4>2. ItemEnd + HeadSize + l + HeadSize < Size
        BY <1>6, <3>1, <4>1
      <4> HIDE DEF l
      <4> QED BY <1>1, <1>5, <4>2
    <3>2. CASE pc = "appHead"
      <4>1. Room(heads, Len(data))
        BY <1>2, <3>2, RoomLeft DEF AddPlaces
      <4>2. off + 2 * HeadSize + Len(data) < Size
        BY <1>2, <4>1 DEF Room
      <4> QED BY <1>1, <1>5, <4>2
    <3> QED BY <3>1, <3>2
  <2> QED BY <1>1, <1>5, <2>1 DEF Offsets, Addr, MagicSize
<1>8. \A o \in heads : o + HeadSize <= ItemEnd \/ ItemEnd + HeadSize <= o
  <2> SUFFICES ASSUME NEW o \in heads PROVE o + HeadSize <= ItemEnd \/ ItemEnd + HeadSize <= o
    OBVIOUS
  <2>1. CASE o <= off
    BY <1>1, <1>2, <1>5, <2>1
  <2>2. CASE o > off /\ pc = "appHead"
    BY <1>1, <1>2, <1>4, <2>2, ChainFacts
  <2>3. CASE o > off /\ pc = "splitHead"
    <3>1. NextOf(eeprom, off) <= o
      BY <1>2, <2>3 DEF IsChain
    <3>2. ItemEnd + HeadSize + l <= o
      BY <1>6, <2>3, <3>1
    <3> HIDE DEF l
    <3> QED BY <1>1, <1>2, <1>5, <3>2
  <2> QED BY <1>1, <1>2, <2>1, <2>2, <2>3
<1>9. View' = new
  <2>1. pc' \in EndPlaces /\ UNCHANGED <<off, len, data>> /\ ItemEnd' = ItemEnd
    BY DEF EndPlaces, regs, ItemEnd
  <2>2. Pending' = [at |-> ItemEnd, cells |-> Header(k, l)]
    BY <2>1 DEF Pending
  <2> QED BY <2>1, <2>2 DEF View, Unfinished, EndPlaces
<1> HIDE DEF k, l
<1>10. /\ new \in Mem /\ KeyAt(new, ItemEnd) = k /\ LenAt(new, ItemEnd) = l
       /\ \A o \in heads : SameItem(eeprom', new, o)
       /\ \A c \in Addr : c # ItemEnd /\ c # ItemEnd + 1 => new[c] = eeprom'[c]
  <2>0. new = Written(eeprom', ItemEnd, Header(k, l), HeadSize)
    OBVIOUS
  <2> HIDE DEF new
  <2>1. /\ new \in Mem /\ new[ItemEnd] = k /\ new[ItemEnd + 1] = l
        /\ \A c \in Addr : c # ItemEnd /\ c # ItemEnd + 1 => new[c] = eeprom'[c]
    <3>1. ItemEnd \in Nat /\ k \in Nat /\ l \in Nat /\ ItemEnd + HeadSize <= Size
      BY <1>5, <1>7
    <3>2. eeprom' \in Mem
      BY <1>3
    <3> QED BY ONLY <2>0, <3>1, <3>2, WrittenHeader
  <2>2. ASSUME NEW o \in heads PROVE SameItem(eeprom', new, o)
    <3>1. o \in Nat /\ o \in Addr /\ o + 1 \in Addr
      BY <1>1, <1>2, ChainFacts
    <3>2. o # ItemEnd /\ o # ItemEnd + 1 /\ o + 1 # ItemEnd /\ o + 1 # ItemEnd + 1
      BY <1>1, <1>5, <1>8, <3>1
    <3> QED BY <2>1, <3>1, <3>2 DEF SameItem, KeyAt, LenAt
  <2> QED BY <2>1, <2>2 DEF KeyAt, LenAt
<1> HIDE DEF new
<1>11. /\ KeyAt(new, off) = key /\ key # End /\ LenAt(new, off) = Len(data)
       /\ \A o \in heads \ {off} : SameItem(eeprom, new, o)
  BY <1>2, <1>3, <1>10 DEF SameItem
<1>12. \/ KeyAt(eeprom, off) = End /\ KeyAt(new, ItemEnd) = End
       \/ /\ KeyAt(eeprom, off) # End /\ KeyAt(new, ItemEnd) # End
          /\ NextOf(new, ItemEnd) = NextOf(eeprom, off)
  <2>1. CASE pc = "splitHead"
    BY <1>1, <1>4, <1>6, <1>10, <2>1 DEF k, NextOf
  <2>2. CASE pc = "appHead"
    BY <1>4, <1>10, <2>2 DEF k
  <2> QED BY <2>1, <2>2
<1>13. IsChain(new, heads \cup {off + HeadSize + Len(data)})
  <2>1. off + HeadSize + Len(data) = ItemEnd
    BY <1>5
  <2> QED BY ONLY <1>1, <1>2, <1>5, <1>7, <1>10, <1>11, <1>12, <2>1, ChainInsert
<1>14. \A c \in Addr : c \notin {off, off + 1, ItemEnd, ItemEnd + 1} => new[c] = eeprom[c]
  <2>1. eeprom' = Written(eeprom, off, Header(key, Len(data)), HeadSize)
    BY ItemHead
  <2>2. key \in Nat /\ Len(data) \in Nat /\ off + HeadSize <= Size
    BY <1>1, <1>2, ItemHead, ChainFacts
  <2> DEFINE n == Len(data)
  <2>3. n \in Nat /\ eeprom' = Written(eeprom, off, Header(key, n), HeadSize)
    BY <2>1, <2>2
  <2> HIDE DEF n
  <2>4. \A c \in Addr : c # off /\ c # off + 1 => eeprom'[c] = eeprom[c]
    <3> DEFINE half == eeprom'
    <3>1. half = Written(eeprom, off, Header(key, n), HeadSize)
      BY <2>3
    <3> HIDE DEF half
    <3>2. eeprom \in Mem /\ off \in Nat /\ key \in Nat /\ n \in Nat /\ off + HeadSize <= Size
      BY <1>1, <2>2, <2>3
    <3>3. \A c \in Addr : c # off /\ c # off + 1 => half[c] = eeprom[c]
      BY ONLY <3>1, <3>2, WrittenHeader
    <3> QED BY <3>3 DEF half
  <2> QED BY <1>10, <2>4
<1>15. pc = "splitHead" => NextOf(new, ItemEnd) = NextOf(eeprom, off)
  BY <1>6, <1>10 DEF NextOf
<1>16. KeyAt(new, ItemEnd) = IF pc = "splitHead" THEN Null ELSE End
  BY <1>10 DEF k
<1>17. ItemEnd = off + HeadSize + Len(data)
  BY <1>5
<1> QED BY <1>8, <1>9, <1>10, <1>11, <1>13, <1>14, <1>15, <1>16, <1>17

\* The first header of a split or an append: the room behind the new header is
\* what is left for clear_eeprom's second item.
LEMMA StepNewHead ==
    ASSUME TypeInv, ChainInv, WriteDone, pc \in {"splitHead", "appHead"}, UNCHANGED regs,
           pc' = IF pc = "splitHead" THEN "splitRest" ELSE "appEnd",
           heads' = heads \cup {ItemEnd}
    PROVE  ChainInv'
<1> USE DEF DelPlaces, AddPlaces, EndPlaces
<1>1. IsChain(View', heads')
  BY ViewInsert
<1>2. UNCHANGED <<cmd, key, data, off, len, prev, kept>> /\ pc' \in EndPlaces
  BY DEF regs
<1>3. OffInv'
  BY <1>2 DEF OffInv
<1>4. RoomInv'
  <2>1. cmd = "clear" /\ key = Ethaddr => Room(heads', Len(kept[Prodnum]))
    <3> SUFFICES ASSUME cmd = "clear", key = Ethaddr, NEW e \in heads'
                 PROVE  e + 2 * HeadSize + Len(kept[Prodnum]) < Size
      BY DEF Room
    <3>1. /\ Chained /\ Len(data) \in Nat /\ Len(kept[Prodnum]) \in Nat /\ off \in Nat
          /\ HeadSize = 2 /\ Size \in Nat
      BY InChain, Facts, Sizes
    <3>2. Room(heads, Len(data) + HeadSize + Len(kept[Prodnum]))
      BY DEF ChainInv, RoomInv
    <3>3. Room(heads, Len(kept[Prodnum]))
      BY <3>1, RoomLeft
    <3>4. off \in heads
      BY <3>1 DEF Chained, OffInv
    <3>5. ItemEnd + 2 * HeadSize + Len(kept[Prodnum]) < Size
      <4> DEFINE m == Len(data)
                 n == Len(kept[Prodnum])
      <4>1. off + 2 * HeadSize + (m + HeadSize + n) < Size
        BY <3>2, <3>4 DEF Room
      <4>2. ItemEnd = off + HeadSize + m
        BY DEF ItemEnd
      <4>3. m \in Nat /\ n \in Nat
        BY <3>1
      <4> HIDE DEF m, n
      <4>4. ItemEnd + 2 * HeadSize + n < Size
        BY <3>1, <4>1, <4>2, <4>3
      <4> QED BY <4>4 DEF n
    <3> QED BY <3>3, <3>5 DEF Room
  <2> QED BY <1>2, <2>1 DEF RoomInv
<1> QED BY <1>1, <1>2, <1>3, <1>4 DEF ChainInv, Chained

\* The second header of a split or an append: the chain is on the device.
LEMMA StepSecondHead ==
    ASSUME TypeInv, ChainInv, WriteDone, pc \in EndPlaces, Return("ok"), UNCHANGED heads
    PROVE  ChainInv'
<1>1. IsChain(View, heads)
  BY InChain DEF Chained, EndPlaces
<1>2. View = Written(eeprom, Pending.at, Pending.cells, HeadSize)
  BY DEF View, Unfinished, EndPlaces
<1>3. Len(Pending.cells) = HeadSize
  <2>1. len \in Nat /\ Len(data) \in Nat /\ HeadSize = 2 /\ Null \in Nat /\ End \in Nat
    BY Facts
  <2>2. CASE pc = "splitRest"
    <3>1. len - Len(data) - HeadSize \in Nat
      BY <2>1, <2>2 DEF TypeInv, SizeInv
    <3>2. Len(Header(Null, len - Len(data) - HeadSize)) = HeadSize
      BY <2>1, <3>1, HeaderSeq
    <3> QED BY <2>2, <3>2, PendingIs
  <2>3. CASE pc = "appEnd"
    <3>1. Len(Header(End, 0)) = HeadSize
      BY <2>1, HeaderSeq
    <3> QED BY <2>3, <3>1, PendingIs
  <2> QED BY <2>2, <2>3 DEF EndPlaces
<1>4. IsChain(eeprom', heads)
  BY <1>1, <1>2, <1>3 DEF WriteDone
<1>5. cmd = "clear" /\ key = Ethaddr => Room(heads, Len(kept[Prodnum]))
  BY DEF ChainInv, RoomInv
<1> QED BY <1>4, <1>5, ReturnChain

LEMMA StepClearWalk == ASSUME TypeInv, ChainInv, ClearWalk PROVE ChainInv'
<1> USE DEF DelPlaces, AddPlaces, EndPlaces
<1>0. /\ pc = "clrWalk" /\ UNCHANGED <<eeprom, heads>> /\ eeprom \in Mem /\ cmd = "clear"
      /\ End = 1 /\ prev.key # Null
  BY Facts DEF ClearWalk, TypeInv, CmdInv, ChainInv
<1>1. Chained /\ IsChain(eeprom, heads) /\ off \in heads
  BY <1>0, InChain, ViewIs DEF Chained, OffInv
<1>2. CASE Return("failed")
  BY <1>0, <1>1, <1>2, ReturnChain
<1>3. CASE pc' = "undefined" /\ UNCHANGED <<off, cmd, key, data, len, prev, kept>>
  <2>1. OffInv' /\ View' = eeprom'
    BY <1>3 DEF OffInv, View, Unfinished
  <2>2. RoomInv'
    BY <1>0, <1>3 DEF RoomInv
  <2> QED BY <1>0, <1>1, <1>3, <2>1, <2>2 DEF ChainInv, Chained
<1>4. CASE /\ off' = NextOf(eeprom, off)
           /\ pc' = IF KeyAt(eeprom, off) = End THEN "clrImage" ELSE "clrWalk"
           /\ UNCHANGED <<cmd, key, data, len, prev, rc, out>>
  <2>1. pc' = "clrWalk" => off' \in heads
    BY <1>0, <1>1, <1>4, ChainFacts
  <2>2. OffInv' /\ View' = eeprom'
    BY <1>0, <1>4, <2>1 DEF OffInv, View, Unfinished
  <2>3. RoomInv'
    BY <1>0, <1>4 DEF RoomInv
  <2> QED BY <1>0, <1>1, <1>4, <2>2, <2>3 DEF ChainInv, Chained
<1> QED BY <1>2, <1>3, <1>4 DEF ClearWalk

\* The fresh image: a free item of one cell and the end item.
LEMMA StepClearImage == ASSUME Safe, TypeInv, ChainInv, ClearImage PROVE ChainInv'
<1>0. /\ pc = "clrImage" /\ WriteDone /\ heads' = {MagicSize, ImageEnd} /\ cmd = "clear"
      /\ Enter(Ethaddr, kept[Ethaddr]) /\ UNCHANGED <<cmd, kept>>
      /\ eeprom \in Mem /\ MagicSize = 1 /\ HeadSize = 2 /\ Null = 0 /\ End = 1 /\ ImageEnd = 4
  BY Facts DEF ClearImage, WriteFails, Safe, TypeInv, CmdInv, ImageEnd
<1>1. /\ CopySize \in Nat /\ Size \in Nat /\ ImageSize \in Nat /\ ImageSize <= Size
      /\ ImageSize > ImageEnd + 1
      /\ ImageEnd + 3 * HeadSize + 2 * (CopySize - 1) < Size
  BY <1>0, DbRoom, DbConstants DEF TypeInv, CmdInv, AllCommands
<1>2. eeprom' = Written(eeprom, 0, Image, ImageSize)
  <2>1. Pending = [at |-> 0, cells |-> Image]
    BY <1>0, PendingIs
  <2> QED BY <1>0, <2>1, ImageSeq DEF WriteDone
<1>3. eeprom' \in Mem
  BY <1>0, WriteType
<1>4. eeprom'[1] = 0 /\ eeprom'[2] = 1 /\ eeprom'[4] = 1
  <2>1. \A c \in {1, 2, 4} : eeprom'[c] = Image[c + 1]
    <3> SUFFICES ASSUME NEW c \in {1, 2, 4} PROVE eeprom'[c] = Image[c + 1]
      OBVIOUS
    <3>1. c \in Addr /\ 0 <= c /\ c < 0 + ImageSize /\ 0 + ImageSize <= Size
      BY <1>0, <1>1 DEF Addr
    <3>2. eeprom'[c] = Image[c - 0 + 1]
      BY <1>0, <1>1, <1>2, <3>1, WrittenCell
    <3> QED BY <3>2
  <2>2. Image[2] = 0 /\ Image[3] = 1 /\ Image[5] = 1
    BY <1>0, <1>1 DEF Image, ImageCell, End
  <2> QED BY <2>1, <2>2
<1>5. IsChain(eeprom', heads')
  <2>1. heads' = {1, 4} /\ heads' \subseteq Offsets
    BY <1>0, <1>1 DEF Offsets, Addr
  <2>2. NextOf(eeprom', 1) = 4 /\ KeyAt(eeprom', 1) # End /\ KeyAt(eeprom', 4) = End
    BY <1>0, <1>4 DEF NextOf, KeyAt, LenAt
  <2>3. \A o, p \in heads' : o < p => NextOf(eeprom', o) <= p
    BY <2>1, <2>2
  <2>4. \A o \in heads' \ {4} : o < 4 /\ KeyAt(eeprom', o) # End /\ NextOf(eeprom', o) \in heads'
    BY <2>1, <2>2
  <2> QED BY <1>0, <2>1, <2>2, <2>3, <2>4 DEF IsChain
<1>6. Room(heads', Len(kept[Ethaddr]) + HeadSize + Len(kept[Prodnum]))
  <2> DEFINE m == Len(kept[Ethaddr])
             n == Len(kept[Prodnum])
  <2>1. m < CopySize /\ n < CopySize
    BY DEF TypeInv, SizeInv
  <2>2. m \in Nat /\ n \in Nat
    <3>1. kept[Ethaddr] \in Seq(Nat) /\ kept[Prodnum] \in Seq(Nat)
      BY DEF TypeInv, TypeOK
    <3> QED BY <3>1
  <2> HIDE DEF m, n
  <2>3. \A e \in {1, 4} : e + 2 * HeadSize + (m + HeadSize + n) < Size
    BY <1>0, <1>1, <2>1, <2>2
  <2> QED BY <1>0, <2>3 DEF Room, m, n
<1>7. Ethaddr \in Keys /\ kept[Ethaddr] \in Seq(Nat)
  BY DbConstants DEF TypeInv, TypeOK
<1> QED BY <1>0, <1>5, <1>6, <1>7, EnterChain

-----------------------------------------------------------------------------
(* The steps of do_edb around the walks.                                   *)

LEMMA DispatchChain ==
    ASSUME TypeInv, ChainInv, pc \in StartPlaces, Dispatch,
           IsChain(eeprom', heads'), heads' \subseteq heads
    PROVE  ChainInv'
<1>1. /\ cmd \in AllCommands \ {"eepromadd"} /\ prev.key # Null
      /\ cmd = "add" => Room(heads, Len(data))
  BY DEF TypeInv, CmdInv, ChainInv, RoomInv, StartPlaces, DelPlaces, EndPlaces
<1>2. /\ off' = MagicSize /\ UNCHANGED <<cmd, key, data, len, prev, kept>>
      /\ \/ cmd \in {"add", "del"} /\ pc' = "delWalk"
         \/ cmd = "clear" /\ pc' = "clrWalk"
         \/ cmd = "toenv" /\ pc' = "envWalk"
         \/ cmd = "dump" /\ pc' = "dumpWalk"
  BY <1>1 DEF Dispatch, AllCommands
<1>3. View' = eeprom' /\ MagicSize \in heads'
  BY <1>2 DEF View, Unfinished, IsChain
<1>4. OffInv'
  BY <1>1, <1>2, <1>3 DEF OffInv, WalkInv
<1>5. RoomInv'
  <2>1. cmd = "add" => Room(heads', Len(data))
    BY <1>1 DEF Room
  <2> QED BY <1>1, <1>2, <2>1 DEF RoomInv, DelPlaces, AddPlaces, EndPlaces
<1> QED BY <1>1, <1>2, <1>3, <1>4, <1>5 DEF ChainInv, Chained

LEMMA StepReadMagic == ASSUME TypeInv, ChainInv, ReadMagic PROVE ChainInv'
<1>0. /\ pc = "magic" /\ UNCHANGED <<eeprom, heads>> /\ prev.key # Null
      /\ View = eeprom /\ BeforeDispatch
  BY ViewIs DEF ReadMagic, ChainInv, DelPlaces, EndPlaces, BeforeDispatch
<1>1. CASE Return("failed")
  <2>1. pc' = "idle" /\ prev' = NoPrev
    BY <1>0, <1>1 DEF Return
  <2>2. CASE Chained
    BY <1>0, <2>1, <2>2, IdleChain, NoPrevKey DEF Chained
  <2>3. CASE Unused
    <3>1. Unused'
      BY <1>0, <2>1, <2>3 DEF Unused
    <3> QED BY <2>1, <3>1, NoPrevKey DEF ChainInv, RoomInv, DelPlaces, AddPlaces, EndPlaces
  <2> QED BY <2>2, <2>3 DEF ChainInv
<1>2. CASE eeprom[0] = Magic /\ Dispatch
  <2>1. IsChain(eeprom, heads)
    BY <1>0, <1>2 DEF ChainInv, Chained, Unused
  <2> QED BY <1>0, <1>2, <2>1, DispatchChain DEF StartPlaces
<1>3. CASE pc' = "initEnd" /\ UNCHANGED regs
  <2>1. UNCHANGED <<cmd, key, data, off, len, prev, kept>> /\ View' = eeprom
    BY <1>0, <1>3 DEF regs, View, Unfinished
  <2>2. RoomInv'
    BY <1>0, <1>3, <2>1 DEF ChainInv, RoomInv, DelPlaces, AddPlaces, EndPlaces
  <2>3. OffInv'
    BY <1>3 DEF OffInv
  <2>4. Unused => Unused'
    BY <1>0, <1>3 DEF Unused
  <2>5. Chained => Chained'
    BY <1>0, <2>1, <2>3 DEF Chained
  <2>6. prev'.key # Null /\ pc' # "appUndo"
    BY <1>0, <1>3, <2>1
  <2> QED BY <2>2, <2>4, <2>5, <2>6 DEF ChainInv
<1> QED BY <1>1, <1>2, <1>3 DEF ReadMagic

LEMMA StepInitEnd == ASSUME Safe, TypeInv, ChainInv, InitEnd PROVE ChainInv'
<1>0. /\ pc = "initEnd" /\ WriteDone /\ heads' = {MagicSize} /\ pc' = "initMagic"
      /\ UNCHANGED <<cmd, key, data, off, len, prev, kept>> /\ prev.key # Null
      /\ eeprom \in Mem /\ End = 1 /\ Null = 0 /\ MagicSize = 1 /\ HeadSize = 2
      /\ Size \in Nat /\ Size >= 6 /\ Len(data) \in Nat /\ Short(data)
  BY Facts, Sizes DEF InitEnd, WriteFails, Safe, regs, ChainInv, DelPlaces
<1>1. eeprom' = Written(eeprom, MagicSize, Header(End, 0), HeadSize)
  <2>1. Pending = [at |-> MagicSize, cells |-> Header(End, 0)]
    BY <1>0, PendingIs
  <2>2. Len(Header(End, 0)) = HeadSize
    BY <1>0, HeaderSeq
  <2> QED BY <1>0, <2>1, <2>2 DEF WriteDone
<1>2. IsChain(eeprom', heads')
  <2>1. eeprom' \in Mem /\ eeprom'[MagicSize] = End
    <3>1. MagicSize \in Nat /\ End \in Nat /\ 0 \in Nat /\ MagicSize + HeadSize <= Size
      BY <1>0
    <3>2. eeprom \in Mem
      BY <1>0
    <3> QED BY ONLY <1>1, <3>1, <3>2, WrittenHeader
  <2> QED BY <1>0, <2>1, ChainOfOne DEF KeyAt
<1>3. RoomInv'
  <2>1. Room(heads', Len(data))
    BY <1>0 DEF Room, Short
  <2> QED BY <1>0, <2>1 DEF RoomInv, DelPlaces, AddPlaces, EndPlaces
<1>4. View' = eeprom' /\ OffInv'
  BY <1>0 DEF View, Unfinished, OffInv
<1> QED BY <1>0, <1>2, <1>3, <1>4 DEF ChainInv, Chained

LEMMA StepInitMagic == ASSUME Safe, TypeInv, ChainInv, InitMagic PROVE ChainInv'
<1>0. /\ pc = "initMagic" /\ WriteDone /\ Dispatch /\ UNCHANGED heads /\ eeprom \in Mem
      /\ Size \in Nat /\ Size >= 6
  BY Facts, Sizes DEF InitMagic, WriteFails, Safe
<1>1. Chained /\ IsChain(eeprom, heads)
  BY <1>0, InChain, ViewIs DEF Chained, EndPlaces
<1>2. <<Magic>> \in Seq(Nat) /\ Len(<<Magic>>) = 1
  BY DbConstants
<1>3. eeprom' = Written(eeprom, 0, <<Magic>>, 1)
  <2>1. Pending = [at |-> 0, cells |-> <<Magic>>]
    BY <1>0, PendingIs
  <2> QED BY <1>0, <1>2, <2>1 DEF WriteDone
<1>4. \A o \in heads : o >= 0 + 1
  BY <1>1 DEF IsChain, Offsets, MagicSize
<1>5. IsChain(eeprom', heads)
  <2>1. 0 \in Nat /\ 1 \in Nat /\ 1 <= Len(<<Magic>>) /\ 0 + 1 <= Size
    BY <1>0, <1>2
  <2> HIDE DEF MagicSize
  <2>2. eeprom \in Mem /\ <<Magic>> \in Seq(Nat)
    BY <1>0, <1>2
  <2>3. IsChain(Written(eeprom, 0, <<Magic>>, 1), heads)
    BY ONLY <1>1, <1>4, <2>1, <2>2, WriteMisses
  <2> QED BY <1>3, <2>3
<1> QED BY <1>0, <1>5, DispatchChain DEF StartPlaces

LEMMA StepRead == ASSUME TypeInv, ChainInv, EnvWalk \/ DumpWalk PROVE ChainInv'
<1>0. /\ pc \in {"envWalk", "dumpWalk"} /\ UNCHANGED <<eeprom, heads>> /\ prev.key # Null
      /\ cmd \in {"toenv", "dump"}
  BY DEF EnvWalk, DumpWalk, ChainInv, DelPlaces, TypeInv, CmdInv
<1>1. IsChain(eeprom, heads)
  BY <1>0, InChain, ViewIs DEF Chained, EndPlaces
<1>2. CASE \E code : Return(code)
  BY <1>0, <1>1, <1>2, ReturnChain
<1>3. CASE UNCHANGED <<pc, cmd, prev>>
  <2>1. View' = eeprom' /\ OffInv' /\ RoomInv'
    BY <1>0, <1>3 DEF View, Unfinished, OffInv, RoomInv, DelPlaces, AddPlaces, EndPlaces
  <2> QED BY <1>0, <1>1, <1>3, <2>1 DEF ChainInv, Chained
<1>4. CASE pc' = "idle" /\ UNCHANGED prev
  BY <1>0, <1>1, <1>4, IdleChain
<1> QED BY <1>2, <1>3, <1>4 DEF EnvWalk, DumpWalk

LEMMA StepStart ==
    ASSUME Safe, TypeInv, ChainInv, NEW c \in Commands, NEW k \in Keys,
           NEW d \in Values \cup {<<>>}, Start(c, k, d)
    PROVE  ChainInv'
<1>0. /\ pc = "idle" /\ UNCHANGED <<eeprom, heads>> /\ cmd' = c /\ prev.key # Null
      /\ c \in {"add", "eepromadd"} => Room(heads, Len(d))
      /\ View = eeprom /\ d \in Seq(Nat)
  <2>1. c \in {"add", "eepromadd"} => ~Crowded(Len(d))
    BY DEF Start, Safe
  <2>2. pc = "idle" /\ UNCHANGED <<eeprom, heads>> /\ cmd' = c /\ prev.key # Null
    BY DEF Start, ChainInv, DelPlaces
  <2>4. d \in Seq(Nat)
    <3>1. Values \subseteq Seq(Nat)
      BY DbConstants
    <3>2. CASE d \in Values
      BY <3>1, <3>2
    <3>3. CASE d = <<>>
      BY <3>3
    <3> QED BY <3>2, <3>3
  <2>3. c \in {"add", "eepromadd"} => Room(heads, Len(d))
    <3> SUFFICES ASSUME c \in {"add", "eepromadd"}, NEW e \in heads
                 PROVE  e + 2 * HeadSize + Len(d) < Size
      BY DEF Room
    <3>1. ~(e + 2 * HeadSize + Len(d) >= Size)
      BY <2>1 DEF Crowded
    <3>2. heads \subseteq Nat
      <4>1. eeprom \in Mem /\ MagicSize = 1
        BY Facts
      <4> QED BY <2>2, <4>1, ViewIs, ChainFacts DEF ChainInv, Chained, Unused, EndPlaces
    <3>4. Len(d) \in Nat /\ Size \in Nat
      BY <2>4, Sizes
    <3> QED BY <3>1, <3>2, <3>4 DEF HeadSize
  <2> QED BY <2>2, <2>3, <2>4, ViewIs DEF EndPlaces
<1>1. CASE c = "eepromadd" /\ Enter(k, d)
  <2>1. CASE Chained
    BY <1>0, <1>1, <2>1, EnterChain DEF Chained
  <2>2. CASE Unused
    <3>1. /\ pc' = "delWalk" /\ key' = k /\ data' = d /\ off' = MagicSize /\ prev' = NoPrev
      BY <1>1 DEF Enter
    <3>2. Unused'
      BY <1>0, <1>1, <2>2, <3>1 DEF Unused
    <3>3. RoomInv'
      BY <1>0, <1>1, <3>1 DEF RoomInv, DelPlaces, AddPlaces, EndPlaces
    <3> QED BY <3>1, <3>2, <3>3 DEF ChainInv, DelPlaces
  <2> QED BY <2>1, <2>2 DEF ChainInv
<1>2. CASE c # "eepromadd" /\ pc' = "magic" /\ key' = k /\ data' = d /\ UNCHANGED <<off, len, prev>>
  <2>1. View' = eeprom' /\ OffInv'
    BY <1>2 DEF View, Unfinished, OffInv
  <2>2. RoomInv'
    BY <1>0, <1>2 DEF RoomInv, DelPlaces, AddPlaces, EndPlaces
  <2>3. Unused => Unused'
    BY <1>0, <1>2 DEF Unused
  <2> QED BY <1>0, <1>2, <2>1, <2>2, <2>3 DEF ChainInv, Chained
<1> QED BY <1>1, <1>2 DEF Start

\* Power lost outside the windows: the chain of before, or nothing yet.
LEMMA StepPowerLoss == ASSUME Safe, TypeInv, ChainInv, PowerLoss PROVE ChainInv'
<1> USE DEF DelPlaces, AddPlaces, EndPlaces
<1>0. /\ pc \in Places \ (Windows \cup {"idle", "undefined"})
      /\ pc' = "idle" /\ prev' = NoPrev /\ prev'.key # Null
      /\ heads' = IF pc = "initEnd" /\ eeprom' # eeprom THEN {MagicSize} ELSE heads
      /\ eeprom \in Mem /\ off \in Nat /\ len \in Nat /\ Len(data) \in Nat /\ data \in Seq(Nat)
      /\ HeadSize = 2 /\ MagicSize = 1 /\ Null = 0 /\ End = 1 /\ View = eeprom
      /\ Size \in Nat /\ Size >= 6
  BY Facts, ViewIs, NoPrevKey, Sizes, DbConstants DEF PowerLoss, Safe, Windows
<1>1. CASE eeprom' = eeprom
  <2>1. CASE Chained
    BY <1>0, <1>1, <2>1, IdleChain DEF Chained
  <2>2. CASE Unused
    <3>1. Unused'
      BY <1>0, <1>1, <2>2 DEF Unused
    <3> QED BY <1>0, <3>1 DEF ChainInv, RoomInv
  <2> QED BY <2>1, <2>2 DEF ChainInv
<1>2. CASE eeprom' # eeprom
  <2> DEFINE at == Pending.at
             cells == Pending.cells
  <2>1. PICK n \in 0 .. Len(cells) - 1 : eeprom' = Written(eeprom, at, cells, n)
    BY <1>2 DEF PowerLoss, WriteCut
  <2>2. at \in Nat /\ cells \in Seq(Nat) /\ Len(cells) \in Nat
    BY PendingType
  <2>3. n \in Nat /\ n < Len(cells) /\ n # 0
    <3>1. n \in Nat /\ n < Len(cells)
      BY <2>1, <2>2
    <3>2. at < Size
      <4>1. InRange(off) => off + HeadSize < Size
        BY <1>0 DEF InRange
      <4>2. pc \in {"delSave", "addData", "fitHead", "appData"} => InRange(off)
        BY DEF TypeInv, SizeInv, ItemPlaces
      <4>3. CASE pc \in {"delSave", "addData", "fitHead", "appData"}
        BY <1>0, <4>1, <4>2, <4>3, PendingIs
      <4>4. CASE pc \in {"initEnd", "initMagic"}
        BY <1>0, <4>4, PendingIs
      <4>5. CASE pc \notin {"delSave", "addData", "fitHead", "appData", "initEnd", "initMagic"}
        BY <1>0, <4>5, PendingIs DEF Windows
      <4> QED BY <4>3, <4>4, <4>5
    <3> HIDE DEF at, cells
    <3>3. Written(eeprom, at, cells, 0) = eeprom
      BY <1>0, <2>2, <3>2, WriteNothing
    <3> QED BY <1>2, <2>1, <3>1, <3>3
  <2>4. CASE pc \in {"addData", "appData"}
    <3>1. at = off + HeadSize /\ cells = data
      BY <2>4, PendingIs
    <3>2. IsChain(eeprom', heads)
      BY <2>1, <2>3, <2>4, <3>1, DataSpares
    <3> QED BY <1>0, <2>4, <3>2, IdleChain
  <2>5. CASE pc \in {"delSave", "fitHead"}
    <3>1. /\ Chained /\ IsChain(eeprom, heads) /\ heads \subseteq Nat
      BY <1>0, <2>5, InChain, ChainFacts DEF Chained
    <3>2. /\ at = off /\ cells[1] # End /\ Len(cells) = HeadSize
      <4>1. CASE pc = "delSave"
        <5>1. Null \in Nat /\ Null # End
          BY <1>0
        <5>2. at = off /\ cells = Header(Null, len)
          BY <4>1, PendingIs
        <5> QED BY <1>0, <5>1, <5>2, HeaderSeq
      <4>2. CASE pc = "fitHead"
        <5>1. key \in Nat /\ key # End
          BY <4>2, Sizes DEF TypeInv, CmdInv, ItemPlaces
        <5>2. at = off /\ cells = Header(key, Len(data))
          BY <4>2, PendingIs
        <5> QED BY <1>0, <5>1, <5>2, HeaderSeq
      <4> QED BY <2>5, <4>1, <4>2
    <3>3. n = 1
      BY <1>0, <2>3, <3>2
    <3> HIDE DEF at, cells
    <3>4. CASE off \in heads /\ KeyAt(eeprom, off) # End
      <4>1. IsChain(eeprom', heads)
        <5>1. Len(cells) >= 1
          BY <1>0, <3>2
        <5>2. eeprom \in Mem /\ eeprom' = Written(eeprom, off, cells, 1)
          BY <1>0, <2>1, <3>2, <3>3
        <5> QED BY ONLY <2>2, <3>1, <3>2, <3>4, <5>1, <5>2, WriteKey
      <4> QED BY <1>0, <2>5, <4>1, IdleChain
    <3>5. CASE Behind(off)
      <4>1. \A o \in heads : o + 1 < off
        BY <1>0, <3>1, <3>5 DEF Behind
      <4>2. off + 1 <= Size
        BY <1>0, <2>5 DEF TypeInv, SizeInv, InRange, ItemPlaces
      <4>3. IsChain(eeprom', heads)
        <5>1. 1 <= Len(cells) /\ 1 \in Nat /\ off \in Nat
          BY <1>0, <3>2
        <5>2. eeprom \in Mem /\ eeprom' = Written(eeprom, off, cells, 1)
          BY <1>0, <2>1, <3>2, <3>3
        <5> QED BY ONLY <2>2, <3>1, <4>1, <4>2, <5>1, <5>2, WriteMisses
      <4> QED BY <1>0, <2>5, <4>3, IdleChain
    <3> QED BY <1>0, <2>5, <3>1, <3>4, <3>5 DEF Chained, OffInv
  <2>6. CASE pc = "initEnd"
    <3>1. at = 1 /\ cells = Header(End, 0)
      BY <1>0, <2>6, PendingIs
    <3>2. Len(Header(End, 0)) = HeadSize /\ Header(End, 0)[1] = End
      BY <1>0, HeaderSeq
    <3>3. n = 1
      <4>1. Len(cells) = 2
        BY <1>0, <3>1, <3>2
      <4> HIDE DEF cells
      <4> QED BY <2>3, <4>1
    <3>4. eeprom' \in Mem
      BY <1>2, WriteType DEF PowerLoss
    <3>5. eeprom'[1] = End
      <4>1. eeprom' = Written(eeprom, 1, Header(End, 0), 1)
        BY <2>1, <3>1, <3>3
      <4>2. 1 \in Addr /\ 1 + 1 <= Size /\ 1 \in Nat
        BY <1>0 DEF Addr
      <4>3. eeprom'[1] = Header(End, 0)[1 - 1 + 1]
        BY <1>0, <4>1, <4>2, WrittenCell
      <4> QED BY <3>2, <4>3
    <3>6. IsChain(eeprom', {MagicSize})
      BY <1>0, <3>4, <3>5, ChainOfOne DEF KeyAt
    <3> QED BY <1>0, <1>2, <2>6, <3>6, IdleChain
  <2>7. CASE pc \notin {"addData", "appData", "delSave", "fitHead", "initEnd"}
    <3>1. pc = "initMagic" => cells = <<Magic>>
      BY PendingIs
    <3>2. pc # "initMagic" => cells = <<>>
      BY <1>0, <2>7, PendingIs DEF Windows
    <3>3. Len(cells) = 0 \/ Len(cells) = 1
      <4>1. Len(<<Magic>>) = 1 /\ Len(<<>>) = 0
        OBVIOUS
      <4> HIDE DEF cells
      <4> QED BY <3>1, <3>2, <4>1
    <3> DEFINE size == Len(cells)
    <3>4. n \in Nat /\ n < size /\ n # 0 /\ (size = 0 \/ size = 1)
      BY <2>3, <3>3
    <3> HIDE DEF size
    <3>5. FALSE
      BY <3>4
    <3> QED BY <3>5
  <2> QED BY <2>4, <2>5, <2>6, <2>7
<1> QED BY <1>1, <1>2

-----------------------------------------------------------------------------
LEMMA ChainInit == Init => ChainInv
<1> SUFFICES ASSUME Init PROVE ChainInv
  OBVIOUS
<1>1. /\ eeprom = [a \in Addr |-> Blank] /\ heads = {MagicSize} /\ pc = "idle" /\ prev = NoPrev
  BY DEF Init
<1>2. Unused
  <2>1. 0 \in Addr /\ MagicSize \in Addr /\ MagicSize + 1 \in Addr
    BY Sizes DEF Addr, MagicSize
  <2>2. Blank # Magic
    BY DbCells
  <2> QED BY <1>1, <2>1, <2>2 DEF Unused, KeyAt, LenAt
<1> QED BY <1>1, <1>2, NoPrevKey DEF ChainInv, RoomInv, DelPlaces, AddPlaces, EndPlaces

LEMMA ChainStep == ASSUME Safe PROVE TypeInv /\ ChainInv /\ [Next]_vars => ChainInv'
<1> SUFFICES ASSUME TypeInv, ChainInv, [Next]_vars PROVE ChainInv'
  OBVIOUS
<1>1. CASE \E c \in Commands, k \in Keys, d \in Values \cup {<<>>} : Start(c, k, d)
  BY <1>1, StepStart
<1>2. CASE ReadMagic \/ InitEnd \/ InitMagic
  BY <1>2, StepReadMagic, StepInitEnd, StepInitMagic
<1>3. CASE DelWalk \/ DelNext \/ DelSave
  BY <1>3, StepDelWalk, StepDelNext, StepDelSave
<1>4. CASE AddSearch \/ AddData \/ AppendData
  BY <1>4, StepAddSearch, StepAddData, StepAppendData
<1>5. CASE AddHead
  <2>1. CASE pc = "fitHead"
    BY <1>5, <2>1, StepFitHead DEF AddHead, WriteFails, Safe
  <2>2. CASE pc = "splitHead"
    BY <1>5, <2>2, StepNewHead DEF AddHead, WriteFails, Safe
  <2> QED BY <1>5, <2>1, <2>2 DEF AddHead
<1>6. CASE AppendHead
  BY <1>6, StepNewHead DEF AppendHead, WriteFails, Safe
<1>7. CASE AddRest \/ AppendEnd
  BY <1>7, StepSecondHead DEF AddRest, AppendEnd, WriteFails, Safe, EndPlaces
<1>8. CASE AppendUndo
  BY <1>8 DEF AppendUndo, ChainInv
<1>9. CASE ClearWalk \/ ClearImage
  BY <1>9, StepClearWalk, StepClearImage
<1>10. CASE EnvWalk \/ DumpWalk
  BY <1>10, StepRead
<1>11. CASE PowerLoss
  BY <1>11, StepPowerLoss
<1>12. CASE UNCHANGED vars
  <2>1. View' = View
    BY <1>12 DEF vars, regs, View, Unfinished, Pending, ItemEnd
  <2>2. OffInv' = OffInv /\ RoomInv' = RoomInv /\ Unused' = Unused
    BY <1>12 DEF vars, regs, OffInv, WalkInv, Behind, RoomInv, Unused
  <2> QED BY <1>12, <2>1, <2>2 DEF vars, regs, ChainInv, Chained
<1> QED
  BY <1>1, <1>2, <1>3, <1>4, <1>5, <1>6, <1>7, <1>8, <1>9, <1>10, <1>11, <1>12
  DEF Next, Step

\* Whatever was added, deleted and cleared before, and wherever outside the
\* windows power went, a database with its magic reads to its end item: the
\* chain that save_item's writes leave in add_item, del_item, clear_eeprom and
\* do_edb's initialisation.
THEOREM ChainReadable == ASSUME Safe PROVE Spec => []Readable
<1>1. ChainInv => Readable
  BY DEF ChainInv, Chained, Unused, Readable
<1>2. TypeInv /\ ChainInv /\ [Next]_vars => (TypeInv /\ ChainInv)'
  BY TypeStep, ChainStep
<1>3. Init => TypeInv /\ ChainInv
  BY TypeInit, ChainInit
<1> QED BY <1>1, <1>2, <1>3, PTL DEF Spec

-----------------------------------------------------------------------------
(* What a search finds: each key once, free space in one piece, and what   *)
(* KeyStore says.  KeyInv and MergeInv add to the chain where the walks    *)
(* are, RestInv what the operations have done so far; the proofs are one   *)
(* lemma for each step and each of the two.                                *)

-----------------------------------------------------------------------------
(* The inductive invariant.                                                *)

\* Read errors let del_item miss a key.  Power lost in the initialisation leaves
\* a chain without its magic, and lost in del_item's write a free item next to
\* another one.
Quiet == Safe /\ ReadErrors = FALSE /\ PowerLossAt \cap {"initEnd", "initMagic", "delSave"} = {}

\* No key twice in the chain S, and no two free items next to each other.
Once(mem, S) ==
    \A o, p \in S : KeyAt(mem, o) = KeyAt(mem, p) /\ KeyAt(mem, o) \in Keys => o = p
Merged(mem, S) ==
    \A o \in S : KeyAt(mem, o) = Null /\ NextOf(mem, o) \in S => KeyAt(mem, NextOf(mem, o)) # Null

Lacks(k, S) == \A o \in S : KeyAt(eeprom, o) # k
Before(o) == { p \in heads : p < o }

\* del_item has not passed the key, finds it, frees it.
KeyInv ==
    /\ Once(View, heads)
    /\ pc \in {"envWalk", "dumpWalk"} => off \in heads
    /\ pc \in {"delWalk", "delNext", "envWalk"} => Lacks(key, Before(off))
    /\ pc = "delSave" =>
          /\ Lacks(key, { o \in heads : o < off \/ o >= off + HeadSize + len })
          /\ \A o \in heads : off <= o /\ o < off + HeadSize + len => KeyAt(eeprom, o) \in {Null, key}
    /\ pc \in AddPlaces => Lacks(key, heads)

\* prev is the item before the one the walk has come to.
MergeInv ==
    /\ Merged(View, heads)
    /\ pc \in {"delWalk", "delNext"} =>
          /\ prev.key = Null => KeyAt(eeprom, prev.off) = Null /\ LenAt(eeprom, prev.off) = prev.len
          /\ off \in heads =>
                \A o \in heads : NextOf(eeprom, o) = off => prev.off = o /\ prev.key = KeyAt(eeprom, o)
    /\ pc = "delSave" /\ off \in heads =>
          /\ \A o \in heads : NextOf(eeprom, o) = off => KeyAt(eeprom, o) # Null
          /\ KeyAt(eeprom, off + HeadSize + len) # Null

\* A chain without the magic is the one the initialisation has just begun.
MagicInv ==
    /\ eeprom[0] = Magic \/ Unused \/ (pc = "initMagic" /\ heads = {MagicSize})
    /\ pc \in EndPlaces => View[0] = eeprom[0]
    /\ pc = "initEnd" => Unused
    /\ pc = "initMagic" => eeprom[0] # Magic /\ KeyAt(eeprom, MagicSize) = End

\* The data are where their header is to be written, and are found once it is.
DataInv ==
    /\ pc \in {"fitHead", "splitHead", "appHead"} =>
          \A i \in 1 .. Len(data) : eeprom[off + HeadSize + i - 1] = data[i]
    /\ pc \in EndPlaces => Stored(View)[key] = {data}

\* clear_eeprom holds what it has passed; the items that are back are the ones it held.
Copied(o) == \A k \in {Ethaddr, Prodnum} :
    /\ \A p \in Before(o) : KeyAt(eeprom, p) = k => kept[k] = DataAt(eeprom, p) /\ kept[k] # <<>>
    /\ Lacks(k, Before(o)) => kept[k] = <<>>
Back == { k \in {Ethaddr, Prodnum} : (k = Ethaddr /\ key = Prodnum) \/ (k = key /\ pc \in EndPlaces) }
ClearInv ==
    /\ cmd = "clear" /\ pc \in StartPlaces => kept = NoCopy
    /\ pc = "clrWalk" => Copied(off)
    /\ pc = "clrImage" => Copied(Size)
    /\ cmd = "clear" /\ pc \in ItemPlaces =>
          /\ data = kept[key]
          /\ Stored(View) = [k \in Keys |-> IF k \in Back THEN {kept[k]} ELSE {}]

\* An operation that failed had a reason.
AnswerInv ==
    /\ pc # "idle" => rc = "none" /\ out = {}
    /\ pc = "envWalk" => cmd = "toenv"
    /\ pc = "dumpWalk" => cmd = "dump"
    /\ cmd # "toenv" => out = {}
    /\ NoSpuriousFailure

-----------------------------------------------------------------------------
(* Induction over addresses, as the least counterexample.                  *)

LEMMA Least ==
    ASSUME NEW T, T \subseteq Nat, T # {}
    PROVE  \E n \in T : \A m \in T : n <= m
<1> DEFINE R == { p \in Nat \X Nat : p[1] < p[2] }
<1>1. R = OpToRel(<, Nat)
  BY DEF OpToRel
<1>2. IsWellFoundedOn(R, Nat)
  BY <1>1, NatLessThanWellFounded, Zenon
<1> HIDE DEF R
<1>3. PICK n \in T : \A m \in T : ~ (<<m, n>> \in R)
  BY <1>2, WFMin
<1>4. \A m \in T : m < n => <<m, n>> \in R
  BY DEF R
<1>5. \A m \in T : ~ (m < n)
  BY <1>3, <1>4
<1>6. \A m \in T : n <= m
  BY <1>5
<1> QED BY <1>6

-----------------------------------------------------------------------------
(* A walk over the device comes to the items of the chain.                 *)

Onward(mem, o, reach) ==
    IF ~InRange(o) THEN {}
    ELSE {o} \cup (IF KeyAt(mem, o) = End \/ ~InRange(NextOf(mem, o)) THEN {}
                   ELSE reach[NextOf(mem, o)])
Reach(mem) == CHOOSE reach : reach = [o \in 0 .. Size - 1 |-> Onward(mem, o, reach)]

LEMMA WalkIs == ASSUME NEW mem PROVE Walk(mem) = Reach(mem)[MagicSize]
BY DEF Walk, Reach, Onward

\* The walk goes forward.
LEMMA Forward ==
    ASSUME NEW mem \in Mem, NEW o \in Nat, InRange(o)
    PROVE  NextOf(mem, o) \in Nat /\ NextOf(mem, o) > o /\ (InRange(NextOf(mem, o)) => NextOf(mem, o) < Size)
<1>1. o + 1 \in Addr /\ Size \in Nat
  BY Sizes DEF InRange, HeadSize, Addr
<1>2. LenAt(mem, o) \in Nat
  BY <1>1 DEF Mem, LenAt
<1> QED BY <1>1, <1>2 DEF NextOf, InRange, HeadSize

LEMMA ReachExists ==
    ASSUME NEW mem \in Mem
    PROVE  \E reach : reach = [o \in 0 .. Size - 1 |-> Onward(mem, o, reach)]
<1> DEFINE Is(n, f) == f = [o \in Size - n .. Size - 1 |-> Onward(mem, o, f)]
           T == { n \in 0 .. Size : ~ \E f : Is(n, f) }
<1>0. Size \in Nat
  BY Sizes
<1>1. T = {}
  <2>1. SUFFICES ASSUME T # {} PROVE FALSE
    OBVIOUS
  <2>2. PICK n \in T : \A m \in T : n <= m
    <3>1. T \subseteq Nat
      BY <1>0
    <3> HIDE DEF T
    <3> QED BY <2>1, <3>1, Least
  <2>3. n # 0
    <3>1. Is(0, [o \in Size - 0 .. Size - 1 |-> {}])
      <4>1. Size - 0 .. Size - 1 = {}
        BY <1>0
      <4> QED BY <4>1
    <3> QED BY <3>1
  <2>4. n - 1 \in 0 .. Size /\ n - 1 \notin T /\ n \in Nat
    BY <1>0, <2>2, <2>3
  <2>5. PICK f : Is(n - 1, f)
    BY <2>4
  <2> DEFINE a == Size - n
             g == [o \in a .. Size - 1 |-> IF o = a THEN Onward(mem, o, f) ELSE f[o]]
  <2>6. a \in Nat /\ Size - (n - 1) = a + 1 /\ a < Size
    BY <1>0, <2>2, <2>3
  <2>7. f = [o \in a + 1 .. Size - 1 |-> Onward(mem, o, f)]
    BY <2>5, <2>6
  <2> HIDE DEF a
  <2>8. ASSUME NEW o \in a .. Size - 1 PROVE Onward(mem, o, g) = Onward(mem, o, f)
    <3>1. ASSUME InRange(o), InRange(NextOf(mem, o)) PROVE g[NextOf(mem, o)] = f[NextOf(mem, o)]
      BY <1>0, <2>6, <3>1, Forward
    <3> HIDE DEF g
    <3> QED BY <3>1 DEF Onward
  <2>9. ASSUME NEW o \in a .. Size - 1 PROVE g[o] = Onward(mem, o, g)
    <3>1. CASE o = a
      BY <3>1, <2>8
    <3>2. CASE o # a
      <4>1. o \in a + 1 .. Size - 1
        BY <1>0, <2>6, <3>2
      <4>2. f[o] = Onward(mem, o, f)
        <5> DEFINE h(x) == Onward(mem, x, f)
        <5>1. f = [x \in a + 1 .. Size - 1 |-> h(x)]
          BY <2>7
        <5> HIDE DEF h
        <5>2. f[o] = h(o)
          BY <4>1, <5>1
        <5> QED BY <5>2 DEF h
      <4>3. g[o] = f[o]
        BY <3>2
      <4> QED BY <4>2, <4>3, <2>8
    <3> QED BY <3>1, <3>2
  <2>10. g = [o \in a .. Size - 1 |-> Onward(mem, o, g)]
    <3>1. g = [o \in a .. Size - 1 |-> g[o]]
      OBVIOUS
    <3> HIDE DEF g
    <3> QED BY <3>1, <2>9
  <2>11. Is(n, g)
    BY <2>10 DEF a
  <2> QED BY <2>11
<1>2. Size \in 0 .. Size /\ Size - Size = 0
  BY <1>0
<1>3. PICK f : Is(Size, f)
  BY <1>1, <1>2
<1> QED BY <1>2, <1>3

LEMMA ReachIs ==
    ASSUME NEW mem \in Mem
    PROVE  \A o \in Addr : Reach(mem)[o] = Onward(mem, o, Reach(mem))
<1>1. Reach(mem) = [o \in 0 .. Size - 1 |-> Onward(mem, o, Reach(mem))]
  BY ReachExists DEF Reach
<1> QED BY <1>1 DEF Addr

LEMMA WalkChain ==
    ASSUME NEW mem \in Mem, NEW S, IsChain(mem, S)
    PROVE  Walk(mem) = S
<1> DEFINE From(o) == { p \in S : p >= o }
           T == { n \in Nat : \E o \in S : n = Size - o /\ Reach(mem)[o] # From(o) }
<1>0. /\ Size \in Nat /\ S \subseteq Addr /\ S \subseteq Nat /\ MagicSize \in S /\ MagicSize \in Nat
      /\ \A o \in S : o < Size /\ InRange(o) /\ o >= MagicSize
  BY Sizes, ChainFacts DEF IsChain, Offsets, InRange, Addr, MagicSize
<1>1. T = {}
  <2>1. SUFFICES ASSUME T # {} PROVE FALSE
    OBVIOUS
  <2>2. PICK n \in T : \A m \in T : n <= m
    <3>1. T \subseteq Nat
      OBVIOUS
    <3> HIDE DEF T
    <3> QED BY <2>1, <3>1, Least
  <2>3. PICK o \in S : n = Size - o /\ Reach(mem)[o] # From(o)
    BY <2>2
  <2>4. Reach(mem)[o] = Onward(mem, o, Reach(mem)) /\ InRange(o) /\ o \in Nat
    BY <1>0, ReachIs
  <2>5. CASE KeyAt(mem, o) = End
    <3>1. From(o) = {o}
      BY <1>0, <2>5, ChainFacts
    <3> QED BY <2>3, <2>4, <2>5, <3>1 DEF Onward
  <2>6. CASE KeyAt(mem, o) # End
    <3> DEFINE next == NextOf(mem, o)
    <3>1. next \in S /\ next > o /\ next \in Nat /\ \A p \in S : o < p => next <= p
      BY <1>0, <2>6, Forward, ChainFacts
    <3> HIDE DEF next
    <3>2. InRange(next) /\ next < Size /\ o < Size /\ o \in Nat
      BY <1>0, <3>1
    <3>3. Size - next \in Nat /\ ~ (n <= Size - next)
      BY <1>0, <2>3, <3>1, <3>2
    <3>4. Reach(mem)[next] = From(next)
      BY <2>2, <3>1, <3>3
    <3>5. From(o) = {o} \cup From(next)
      BY <1>0, <3>1
    <3>6. Reach(mem)[o] = {o} \cup Reach(mem)[next]
      BY <2>4, <2>6, <3>2 DEF Onward, next
    <3> QED BY <2>3, <3>4, <3>5, <3>6
  <2> QED BY <2>5, <2>6
<1>2. Reach(mem)[MagicSize] = From(MagicSize)
  <2>1. Size - MagicSize \in Nat
    BY <1>0
  <2> QED BY <1>0, <1>1, <2>1
<1>3. From(MagicSize) = S
  BY <1>0
<1> QED BY <1>2, <1>3, WalkIs

-----------------------------------------------------------------------------
(* Items that stay, come and go.                                           *)

LEMMA ViewType == ASSUME TypeInv PROVE eeprom \in Mem /\ View \in Mem
<1>1. eeprom \in Mem
  BY DEF TypeInv, TypeOK, Mem
<1>2. CASE pc \in EndPlaces
  <2>1. /\ Pending.at \in Nat /\ Pending.at < 2 * Size /\ Pending.cells \in Seq(Nat)
        /\ HeadSize \in Nat /\ HeadSize <= Len(Pending.cells)
    <3>1. /\ len \in Nat /\ Len(data) \in Nat /\ HeadSize = 2 /\ Null = 0 /\ End = 1
          /\ pc = "splitRest" => len - Len(data) - HeadSize \in Nat
      <4>1. len \in Nat /\ Len(data) \in Nat /\ HeadSize = 2 /\ Null = 0 /\ End = 1
        BY Facts
      <4>2. pc = "splitRest" => len >= Len(data) + HeadSize
        BY DEF TypeInv, SizeInv
      <4> QED BY <4>1, <4>2
    <3>2. Len(Pending.cells) = HeadSize
      <4>1. CASE pc = "splitRest"
        BY <4>1, <3>1, PendingIs, HeaderSeq
      <4>2. CASE pc = "appEnd"
        BY <4>2, <3>1, PendingIs, HeaderSeq
      <4> QED BY <1>2, <4>1, <4>2 DEF EndPlaces
    <3> QED BY <3>1, <3>2, PendingType
  <2> QED BY <1>1, <1>2, <2>1, WrittenType DEF View, Unfinished, EndPlaces
<1> QED BY <1>1, <1>2, ViewIs

\* The chain and what bounds it, also before there is one.
LEMMA HeadsIn ==
    ASSUME TypeInv, ChainInv
    PROVE  /\ eeprom \in Mem /\ heads \subseteq Offsets /\ MagicSize \in heads
           /\ \A o \in heads : o \in Nat /\ InRange(o) /\ o >= MagicSize /\ KeyAt(View, o) \in Nat
           /\ \A o \in heads : NextOf(View, o) \in Nat /\ NextOf(View, o) > o
<1>1. eeprom \in Mem /\ View \in Mem
  BY ViewType
<1>2. heads \subseteq Offsets /\ MagicSize \in heads
  BY Sizes DEF ChainInv, Chained, IsChain, Unused, Offsets, Addr, MagicSize, HeadSize
<1>3. \A o \in heads : o \in Nat /\ InRange(o) /\ o >= MagicSize /\ o \in Addr
  BY <1>2, Sizes DEF Offsets, InRange, Addr
<1>4. \A o \in heads : KeyAt(View, o) \in Nat
  BY <1>1, <1>3 DEF Mem, KeyAt
<1>5. \A o \in heads : NextOf(View, o) \in Nat /\ NextOf(View, o) > o
  BY <1>1, <1>3, Forward
<1> QED BY <1>1, <1>2, <1>3, <1>4, <1>5

\* Nothing changes while the headers stay.
LEMMA SameHeads ==
    ASSUME NEW mem, NEW new, NEW S, \A o \in S : SameItem(mem, new, o)
    PROVE  (Once(mem, S) => Once(new, S)) /\ (Merged(mem, S) => Merged(new, S))
<1>1. \A o \in S : KeyAt(new, o) = KeyAt(mem, o) /\ NextOf(new, o) = NextOf(mem, o)
  BY DEF SameItem, NextOf
<1> QED BY <1>1 DEF Once, Merged

\* One key goes to a, others that come are none of the callers'.
LEMMA OnceHead ==
    ASSUME NEW mem, NEW new, NEW S, Once(mem, S), NEW a, NEW T,
           \A o \in T \ {a} : (o \in S /\ KeyAt(new, o) = KeyAt(mem, o)) \/ KeyAt(new, o) \notin Keys,
           KeyAt(new, a) \in Keys => \A o \in T \ {a} : KeyAt(new, o) # KeyAt(new, a)
    PROVE  Once(new, T)
BY DEF Once

\* An item in a free one or in the end item, and a header behind it.
LEMMA MergedInsert ==
    ASSUME NEW mem, NEW new, NEW S, Merged(mem, S), NEW a \in S, NEW b,
           \A o \in S : KeyAt(mem, o) = Null => NextOf(mem, o) \in S,
           \A o \in S \ {a} : NextOf(mem, o) # b,
           \A o \in S \ {a} : SameItem(mem, new, o),
           KeyAt(new, a) # Null, NextOf(mem, a) # a,
           KeyAt(new, b) = Null => KeyAt(mem, a) = Null /\ NextOf(new, b) = NextOf(mem, a)
    PROVE  Merged(new, S \cup {b})
<1>1. \A o \in S \ {a} : KeyAt(new, o) = KeyAt(mem, o) /\ NextOf(new, o) = NextOf(mem, o)
  BY DEF SameItem, NextOf
<1>2. \A o \in S : KeyAt(mem, o) = Null => NextOf(mem, o) \in S /\ KeyAt(mem, NextOf(mem, o)) # Null
  BY DEF Merged
<1>3. ASSUME NEW o \in S \cup {b}, KeyAt(new, o) = Null, NextOf(new, o) \in S \cup {b}
      PROVE KeyAt(new, NextOf(new, o)) # Null
  <2>1. o # a
    BY <1>3
  <2>2. CASE o = b
    BY <1>1, <1>2, <1>3, <2>1, <2>2
  <2>3. CASE o # b
    BY <1>1, <1>2, <1>3, <2>1, <2>3
  <2> QED BY <2>2, <2>3
<1> QED BY <1>3 DEF Merged

-----------------------------------------------------------------------------
(* Each key once, free space in one piece: one lemma for each step.        *)

PlainInv == TypeInv /\ ChainInv /\ KeyInv /\ MergeInv

LEMMA Ahead ==
    ASSUME NEW mem \in Mem, NEW S, S \subseteq Offsets
    PROVE  \A o \in S : /\ o \in Nat /\ o >= MagicSize /\ InRange(o)
                        /\ KeyAt(mem, o) \in Nat /\ LenAt(mem, o) \in Nat
                        /\ NextOf(mem, o) \in Nat /\ NextOf(mem, o) >= o + HeadSize
<1>1. \A o \in S : o \in Nat /\ InRange(o) /\ o >= MagicSize /\ o \in Addr /\ o + 1 \in Addr
  BY Sizes DEF Offsets, InRange, Addr, HeadSize
<1>2. \A o \in S : KeyAt(mem, o) \in Nat /\ LenAt(mem, o) \in Nat
  BY <1>1 DEF Mem, KeyAt, LenAt
<1>3. \A o \in S : NextOf(mem, o) \in Nat /\ NextOf(mem, o) >= o + HeadSize
  BY <1>1, <1>2 DEF NextOf, HeadSize
<1> QED BY <1>1, <1>2, <1>3

LEMMA HeadsNext ==
    ASSUME TypeInv', ChainInv'
    PROVE  eeprom' \in Mem /\ heads' \subseteq Offsets /\ MagicSize \in heads'
<1>1. eeprom' \in Mem
  BY DEF TypeInv, TypeOK, Mem
<1>2. MagicSize \in Offsets
  BY Sizes DEF Offsets, Addr, MagicSize, HeadSize
<1>3. CASE IsChain(View', heads')
  BY <1>1, <1>3 DEF IsChain
<1>4. CASE heads' = {MagicSize}
  BY <1>1, <1>2, <1>4
<1> QED BY <1>3, <1>4 DEF ChainInv, Chained, Unused

\* No item is before the first one, and none leads to it.
LEMMA FirstHead ==
    ASSUME TypeInv', ChainInv'
    PROVE  \A o \in heads' : ~ (o < MagicSize) /\ NextOf(eeprom', o) # MagicSize
<1> DEFINE S == heads'
           new == eeprom'
<1>1. new \in Mem /\ S \subseteq Offsets
  BY HeadsNext
<1> HIDE DEF S, new
<1>2. \A o \in S : o \in Nat /\ o >= MagicSize /\ NextOf(new, o) \in Nat /\ NextOf(new, o) >= o + HeadSize
  BY <1>1, Ahead
<1>3. \A o \in S : ~ (o < MagicSize) /\ NextOf(new, o) # MagicSize
  BY <1>2 DEF MagicSize, HeadSize
<1> QED BY <1>3 DEF S, new

LEMMA RestPlain ==
    ASSUME Once(View', heads'), Merged(View', heads'),
           pc' \notin DelPlaces \cup AddPlaces \cup {"envWalk", "dumpWalk"}
    PROVE  KeyInv' /\ MergeInv'
BY DEF KeyInv, MergeInv, DelPlaces, AddPlaces

LEMMA EnterPlain ==
    ASSUME TypeInv', ChainInv', Once(eeprom', heads'), Merged(eeprom', heads'),
           NEW k, NEW d, Enter(k, d)
    PROVE  KeyInv' /\ MergeInv'
<1>1. /\ pc' = "delWalk" /\ key' = k /\ off' = MagicSize /\ prev' = NoPrev /\ View' = eeprom'
      /\ prev'.key # Null
  BY NoPrevKey DEF Enter, View, Unfinished
<1>2. \A o \in heads' : ~ (o < MagicSize) /\ NextOf(eeprom', o) # MagicSize
  BY FirstHead
<1>3. Lacks(key, Before(off))'
  BY <1>1, <1>2 DEF Lacks, Before
<1>4. KeyInv'
  BY <1>1, <1>3 DEF KeyInv, AddPlaces
<1>5. MergeInv'
  BY <1>1, <1>2 DEF MergeInv
<1> QED BY <1>4, <1>5

LEMMA ReturnPlain ==
    ASSUME TypeInv', ChainInv', Once(eeprom', heads'), Merged(eeprom', heads'),
           NEW code, Return(code)
    PROVE  KeyInv' /\ MergeInv'
<1>1. CASE pc' = "idle"
  BY <1>1, RestPlain DEF View, Unfinished, DelPlaces, AddPlaces
<1>2. CASE Enter(Prodnum, kept[Prodnum])
  BY <1>2, EnterPlain
<1> QED BY <1>1, <1>2 DEF Return

LEMMA DelReturnPlain ==
    ASSUME TypeInv', ChainInv', Once(eeprom', heads'), Merged(eeprom', heads'),
           NEW code, DelReturn(code), \A o \in heads' : KeyAt(eeprom', o) # key
    PROVE  KeyInv' /\ MergeInv'
<1>1. CASE cmd = "del"
  BY <1>1, ReturnPlain DEF DelReturn
<1>2. CASE cmd # "del"
  <2>1. pc' = "addSearch" /\ UNCHANGED key /\ View' = eeprom'
    BY <1>2 DEF DelReturn, View, Unfinished
  <2> QED BY <2>1 DEF KeyInv, MergeInv, Lacks, AddPlaces
<1> QED BY <1>1, <1>2

\* A step that leaves the device alone.
LEMMA StillPlain ==
    ASSUME PlainInv, UNCHANGED <<eeprom, heads>>, pc \notin EndPlaces, pc' \notin EndPlaces
    PROVE  /\ Once(View', heads') /\ Merged(View', heads') /\ View' = eeprom'
           /\ Once(eeprom', heads') /\ Merged(eeprom', heads')
<1>1. View = eeprom /\ View' = eeprom
  BY ViewIs DEF View, Unfinished, EndPlaces
<1> QED BY <1>1 DEF PlainInv, KeyInv, MergeInv

LEMMA PlainStart ==
    ASSUME Quiet, PlainInv, TypeInv', ChainInv', NEW c \in Commands, NEW k \in Keys,
           NEW d \in Values \cup {<<>>}, Start(c, k, d)
    PROVE  KeyInv' /\ MergeInv'
<1>1. pc = "idle" /\ UNCHANGED <<eeprom, heads>> /\ (Enter(k, d) \/ pc' = "magic")
  BY DEF Start
<1>2. pc' \notin EndPlaces
  BY <1>1 DEF Enter, EndPlaces
<1> QED BY <1>1, <1>2, StillPlain, EnterPlain, RestPlain DEF EndPlaces, DelPlaces, AddPlaces

LEMMA DispatchPlain ==
    ASSUME TypeInv', ChainInv', Once(eeprom', heads'), Merged(eeprom', heads'), Dispatch,
           TypeInv, pc \in StartPlaces, prev.key # Null
    PROVE  KeyInv' /\ MergeInv'
<1>1. /\ pc' \in {"delWalk", "clrWalk", "envWalk", "dumpWalk"} /\ off' = MagicSize
      /\ prev' = prev
  <2>1. cmd \in AllCommands \ {"eepromadd"}
    BY DEF TypeInv, CmdInv
  <2> QED BY <2>1 DEF Dispatch, AllCommands
<1>2. \A o \in heads' : ~ (o < MagicSize) /\ NextOf(eeprom', o) # MagicSize
  BY FirstHead
<1>3. Lacks(key, Before(off))'
  BY <1>1, <1>2 DEF Lacks, Before
<1>4. View' = eeprom' /\ off' \in heads'
  BY <1>1, HeadsNext DEF View, Unfinished
<1>5. KeyInv'
  BY <1>1, <1>3, <1>4 DEF KeyInv, AddPlaces
<1>6. MergeInv'
  BY <1>1, <1>2, <1>4 DEF MergeInv
<1> QED BY <1>5, <1>6

LEMMA PlainReadMagic ==
    ASSUME Quiet, PlainInv, TypeInv', ChainInv', ReadMagic
    PROVE  KeyInv' /\ MergeInv'
<1>1. pc = "magic" /\ UNCHANGED <<eeprom, heads>> /\ prev.key # Null /\ (Dispatch \/ pc' = "initEnd")
  BY DEF ReadMagic, Quiet, PlainInv, ChainInv, DelPlaces
<1>2. pc' \notin EndPlaces
  BY <1>1 DEF Dispatch, EndPlaces, PlainInv, TypeInv, CmdInv, StartPlaces, AllCommands
<1>3. /\ Once(View', heads') /\ Merged(View', heads')
      /\ Once(eeprom', heads') /\ Merged(eeprom', heads')
  BY <1>1, <1>2, StillPlain DEF EndPlaces
<1>4. CASE Dispatch
  BY <1>1, <1>3, <1>4, DispatchPlain DEF StartPlaces, PlainInv
<1>5. CASE pc' = "initEnd"
  BY <1>3, <1>5, RestPlain DEF DelPlaces, AddPlaces
<1> QED BY <1>1, <1>4, <1>5

LEMMA PlainInitEnd ==
    ASSUME Quiet, PlainInv, TypeInv', ChainInv', InitEnd
    PROVE  KeyInv' /\ MergeInv'
<1>1. /\ pc = "initEnd" /\ pc' = "initMagic" /\ WriteDone /\ heads' = {MagicSize}
      /\ eeprom \in Mem /\ MagicSize = 1 /\ End = 1 /\ Null = 0 /\ HeadSize = 2
  BY Facts DEF InitEnd, WriteFails, Quiet, Safe, PlainInv
<1>2. /\ eeprom' = Written(eeprom, MagicSize, Header(End, 0), HeadSize)
      /\ MagicSize \in Nat /\ MagicSize + HeadSize <= Size /\ End \in Nat
  <2>1. MagicSize \in Nat /\ MagicSize + HeadSize <= Size /\ End \in Nat /\ 0 \in Nat
    BY <1>1, Sizes
  <2>2. Pending = [at |-> MagicSize, cells |-> Header(End, 0)]
    BY <1>1, PendingIs
  <2>3. Len(Header(End, 0)) = HeadSize
    BY <2>1, HeaderSeq
  <2> QED BY <1>1, <2>1, <2>2, <2>3 DEF WriteDone
<1>3. KeyAt(eeprom', MagicSize) = End
  <2> DEFINE new == eeprom'
  <2>1. /\ new = Written(eeprom, MagicSize, Header(End, 0), HeadSize) /\ 0 \in Nat
        /\ eeprom \in Mem /\ MagicSize \in Nat /\ MagicSize + HeadSize <= Size /\ End \in Nat
    BY <1>1, <1>2
  <2> HIDE DEF new
  <2>2. new[MagicSize] = End
    BY ONLY <2>1, WrittenHeader
  <2> QED BY <2>2 DEF new, KeyAt
<1>4. View' = eeprom'
  BY <1>1 DEF View, Unfinished
<1>5. Once(View', heads') /\ Merged(View', heads')
  BY <1>1, <1>3, <1>4 DEF Once, Merged
<1> QED BY <1>1, <1>5, RestPlain DEF DelPlaces, AddPlaces

LEMMA PlainInitMagic ==
    ASSUME Quiet, PlainInv, TypeInv', ChainInv', InitMagic
    PROVE  KeyInv' /\ MergeInv'
<1>1. /\ pc = "initMagic" /\ Dispatch /\ WriteDone /\ UNCHANGED heads
      /\ eeprom \in Mem /\ prev.key # Null
  BY Facts DEF InitMagic, WriteFails, Quiet, Safe, PlainInv, ChainInv, DelPlaces
<1>2. View = eeprom /\ IsChain(eeprom, heads)
  BY <1>1, InChain, ViewIs DEF Chained, PlainInv, EndPlaces
<1>3. eeprom' = Written(eeprom, 0, <<Magic>>, 1) /\ <<Magic>> \in Seq(Nat)
  <2>1. <<Magic>> \in Seq(Nat) /\ Len(<<Magic>>) = 1
    BY DbConstants
  <2>2. Pending = [at |-> 0, cells |-> <<Magic>>]
    BY <1>1, PendingIs
  <2> QED BY <1>1, <2>1, <2>2 DEF WriteDone
<1>4. \A o \in heads : SameItem(eeprom, eeprom', o)
  <2>1. \A o \in heads : o + 1 < 0 \/ o >= 0 + 1
    BY <1>1, Ahead, HeadsIn DEF MagicSize, PlainInv
  <2>2. Len(<<Magic>>) = 1 /\ 0 + 1 <= Size /\ 0 \in Nat /\ 1 \in Nat /\ 1 <= 1
    BY Sizes
  <2> DEFINE one == <<Magic>>
             new == Written(eeprom, 0, one, 1)
  <2>3. one \in Seq(Nat) /\ Len(one) = 1 /\ eeprom' = new
    BY <1>3, <2>2
  <2> HIDE DEF one
  <2>4. \A o \in heads : SameItem(eeprom, new, o)
    BY <1>1, <1>2, <2>1, <2>2, <2>3, WriteMisses
  <2> QED BY <2>3, <2>4
<1>5. Once(eeprom', heads') /\ Merged(eeprom', heads')
  BY <1>1, <1>2, <1>4, SameHeads DEF PlainInv, KeyInv, MergeInv
<1> QED BY <1>1, <1>5, DispatchPlain DEF StartPlaces, PlainInv

\* What a walk has passed, one item further.
LEMMA WalkOn ==
    ASSUME NEW mem \in Mem, NEW S, IsChain(mem, S), NEW o \in S, KeyAt(mem, o) # End
    PROVE  \A p \in S : p < NextOf(mem, o) <=> p < o \/ p = o
<1>1. /\ \A p \in S : p \in Nat /\ NextOf(mem, o) \in Nat /\ NextOf(mem, o) >= o + HeadSize
      /\ \A p \in S : o < p => NextOf(mem, o) <= p
  BY ChainFacts
<1> QED BY <1>1 DEF HeadSize

LEMMA PlainEnvWalk ==
    ASSUME Quiet, PlainInv, TypeInv', ChainInv', EnvWalk \/ DumpWalk
    PROVE  KeyInv' /\ MergeInv'
<1>1. /\ pc \in {"envWalk", "dumpWalk"} /\ UNCHANGED <<eeprom, heads>> /\ off \in heads
      /\ eeprom \in Mem /\ InRange(off)
  BY Facts, HeadsIn DEF EnvWalk, DumpWalk, PlainInv, KeyInv
<1>2. View = eeprom /\ IsChain(eeprom, heads) /\ ReadErrors = FALSE
  BY <1>1, InChain, ViewIs DEF Chained, PlainInv, EndPlaces, Quiet
<1>3. CASE pc' = "idle"
  BY <1>1, <1>3, StillPlain, RestPlain DEF EndPlaces, DelPlaces, AddPlaces
<1>4. CASE Return("no such key") \/ Return("ok")
  <2>1. pc' = "idle" \/ pc' = "delWalk"
    BY <1>4 DEF Return, Enter
  <2> QED BY <1>1, <1>4, <2>1, StillPlain, ReturnPlain DEF EndPlaces
<1>5. CASE /\ off' = NextOf(eeprom, off) /\ KeyAt(eeprom, off) # End /\ UNCHANGED <<pc, key>>
           /\ pc = "envWalk" => KeyAt(eeprom, off) # key
  <2>1. off' \in heads
    BY <1>1, <1>2, <1>5, ChainFacts
  <2>2. \A p \in heads : p < off' <=> p < off \/ p = off
    BY <1>1, <1>2, <1>5, WalkOn
  <2>3. pc = "envWalk" => \A p \in heads : p < off => KeyAt(eeprom, p) # key
    BY <1>1, <1>5 DEF PlainInv, KeyInv, Lacks, Before
  <2>4. /\ Once(View', heads') /\ Merged(View', heads')
    BY <1>1, <1>5, StillPlain DEF EndPlaces
  <2>5. pc = "envWalk" => Lacks(key, Before(off))'
    BY <1>1, <1>5, <2>2, <2>3 DEF Lacks, Before
  <2>6. KeyInv'
    BY <1>1, <1>5, <2>1, <2>4, <2>5 DEF KeyInv, AddPlaces
  <2>7. MergeInv'
    BY <1>1, <1>5, <2>4 DEF MergeInv
  <2> QED BY <2>6, <2>7
<1>6. CASE EnvWalk
  BY <1>1, <1>2, <1>3, <1>4, <1>5, <1>6 DEF EnvWalk
<1>7. CASE DumpWalk
  BY <1>1, <1>2, <1>4, <1>5, <1>7 DEF DumpWalk
<1> QED BY <1>6, <1>7

\* What del_item's walk leaves without a match: no item has the key.
LEMMA NotThere ==
    ASSUME PlainInv, pc \in {"delWalk", "addSearch"}, ~InRange(off)
    PROVE  \A o \in heads : KeyAt(eeprom, o) # key
<1>1. key \in Keys /\ off \in Nat
  BY Facts DEF PlainInv, TypeInv, CmdInv, ItemPlaces, DelPlaces, AddPlaces
<1>2. CASE Unused
  <2>1. heads = {MagicSize} /\ KeyAt(eeprom, MagicSize) = Blank /\ Blank \notin Keys
    BY <1>2, DbCells DEF Unused
  <2> QED BY <1>1, <2>1
<1>3. CASE Chained /\ pc = "delWalk"
  <2>1. Behind(off) /\ \A o \in heads : o \in Nat
    BY <1>3, HeadsIn DEF Chained, OffInv, WalkInv, PlainInv
  <2>2. \A o \in heads : o < off
    BY <1>1, <2>1 DEF Behind, HeadSize
  <2> QED BY <1>3, <2>2 DEF PlainInv, KeyInv, Lacks, Before
<1>4. CASE pc = "addSearch"
  BY <1>4 DEF PlainInv, KeyInv, Lacks, AddPlaces
<1> QED BY <1>2, <1>3, <1>4 DEF PlainInv, ChainInv

LEMMA PlainDelWalk ==
    ASSUME Quiet, PlainInv, TypeInv', ChainInv', DelWalk
    PROVE  KeyInv' /\ MergeInv'
<1>1. /\ pc = "delWalk" /\ UNCHANGED <<eeprom, heads>> /\ ReadErrors = FALSE
      /\ eeprom \in Mem /\ off \in Nat /\ key \in Keys /\ View = eeprom /\ HeadSize = 2 /\ Null = 0
  BY Facts, ViewIs DEF DelWalk, Quiet, EndPlaces, PlainInv, TypeInv, CmdInv, DelPlaces
<1>2. CASE ~InRange(off) /\ DelReturn("failed")
  <2>1. \A o \in heads : KeyAt(eeprom, o) # key
    BY <1>1, <1>2, NotThere
  <2>2. Once(eeprom, heads) /\ Merged(eeprom, heads)
    BY <1>1 DEF PlainInv, KeyInv, MergeInv
  <2> QED BY <1>1, <1>2, <2>1, <2>2, DelReturnPlain
<1>3. CASE /\ pc' = "delNext" /\ len' = LenAt(eeprom, off)
           /\ UNCHANGED <<cmd, key, data, off, prev, kept, rc, out>>
  <2>1. View' = eeprom'
    BY <1>3 DEF View, Unfinished
  <2>2. KeyInv'
    BY <1>1, <1>3, <2>1 DEF PlainInv, KeyInv, AddPlaces, Lacks, Before
  <2>3. MergeInv'
    BY <1>1, <1>3, <2>1 DEF PlainInv, MergeInv
  <2> QED BY <2>2, <2>3
<1>4. CASE /\ InRange(off) /\ KeyAt(eeprom, off) # key
           /\ prev' = [off |-> off, key |-> KeyAt(eeprom, off), len |-> LenAt(eeprom, off)]
           /\ off' = NextOf(eeprom, off)
           /\ UNCHANGED <<pc, cmd, key, data, len, kept, rc, out>>
  <2>1. View' = eeprom'
    BY <1>1, <1>4 DEF View, Unfinished
  <2>2. /\ \A p \in heads : p < off' => p < off \/ KeyAt(eeprom, p) # key
        /\ off' \in heads => \A o \in heads : NextOf(eeprom, o) = off' => o = off
    <3>1. CASE Unused
      <4>1. ~InRange(off') /\ Blank \notin Keys /\ heads = {MagicSize} /\ KeyAt(eeprom, MagicSize) = Blank
        BY <1>1, <1>4, <3>1, UnusedWalk DEF Unused, PlainInv
      <4> QED BY <1>1, <4>1, HeadsIn DEF PlainInv
    <3>2. CASE Chained
      <4>0. IsChain(eeprom, heads) /\ (off \in heads \/ Behind(off)) /\ off' \in Nat /\ off' > off
        BY <1>1, <1>4, <3>2, Forward DEF Chained, OffInv, WalkInv
      <4>1. /\ \A p \in heads : p \in Nat /\ NextOf(eeprom, p) \in Nat /\ NextOf(eeprom, p) > p
            /\ \A o, p \in heads : o < p => NextOf(eeprom, o) <= p
        BY <1>1, <4>0, ChainFacts
      <4>2. CASE Behind(off)
        <5>1. \A p \in heads : p < off
          BY <1>1, <4>1, <4>2 DEF Behind
        <5> QED BY <1>1, <4>0, <4>1, <5>1
      <4>3. CASE off \in heads
        <5>1. \A p \in heads : off < p => off' <= p /\ off' < NextOf(eeprom, p)
          BY <1>1, <1>4, <4>0, <4>1, <4>3
        <5>2. \A p \in heads : p < off => NextOf(eeprom, p) < off'
          BY <1>1, <1>4, <4>0, <4>1, <4>3
        <5>3. \A p \in heads : p < off' => p < off \/ p = off
          BY <1>1, <4>0, <4>1, <5>1
        <5>4. \A p \in heads : NextOf(eeprom, p) = off' => p = off
          BY <1>1, <4>0, <4>1, <5>1, <5>2
        <5> QED BY <1>4, <5>3, <5>4
      <4> QED BY <4>0, <4>2, <4>3
    <3> QED BY <3>1, <3>2 DEF PlainInv, ChainInv
  <2>3. Lacks(key, Before(off))'
    BY <1>1, <1>4, <2>2 DEF PlainInv, KeyInv, Lacks, Before
  <2>4. KeyInv'
    BY <1>1, <1>4, <2>1, <2>3 DEF PlainInv, KeyInv, AddPlaces
  <2>5. /\ prev'.off = off /\ prev'.key = KeyAt(eeprom, off)
        /\ prev'.len = LenAt(eeprom, off)
    BY <1>4
  <2>6. MergeInv'
    BY <1>1, <1>4, <2>1, <2>2, <2>5 DEF PlainInv, MergeInv
  <2> QED BY <2>4, <2>6
<1> QED BY <1>1, <1>2, <1>3, <1>4 DEF DelWalk

\* The item found is the only one with its key.
LEMMA OthersLack ==
    ASSUME PlainInv, pc = "delNext"
    PROVE  \A o \in heads : o # off => KeyAt(eeprom, o) # key
<1>1. /\ Chained /\ View = eeprom /\ off \in Nat /\ KeyAt(eeprom, off) = key /\ key \in Keys
      /\ (off \in heads \/ Behind(off)) /\ \A o \in heads : o \in Nat
  <2>1. Chained /\ View = eeprom /\ off \in Nat /\ key \in Keys /\ \A o \in heads : o \in Nat
    BY Facts, HeadsIn, InChain, ViewIs DEF PlainInv, TypeInv, CmdInv, DelPlaces, EndPlaces
  <2> QED BY <2>1 DEF Chained, OffInv, WalkInv
<1>2. CASE off \in heads
  BY <1>1, <1>2 DEF PlainInv, KeyInv, Once
<1>3. CASE Behind(off)
  <2>1. \A o \in heads : o < off
    BY <1>1, <1>3 DEF Behind, HeadSize
  <2> QED BY <2>1 DEF PlainInv, KeyInv, Lacks, Before
<1> QED BY <1>1, <1>2, <1>3

LEMMA PlainDelNext ==
    ASSUME Quiet, PlainInv, TypeInv', ChainInv', DelNext
    PROVE  KeyInv' /\ MergeInv'
<1>1. /\ pc = "delNext" /\ pc' = "delSave" /\ UNCHANGED <<eeprom, heads, key>> /\ ReadErrors = FALSE
      /\ eeprom \in Mem /\ off \in Nat /\ len \in Nat /\ key \in Keys /\ View = eeprom
      /\ HeadSize = 2 /\ Null = 0 /\ End = 1 /\ key # End
      /\ prev.off \in Nat /\ prev.len \in Nat
  <2>1. prev \in [off : Nat, key : Nat, len : Nat]
    BY DEF PlainInv, TypeInv, TypeOK
  <2> QED BY <2>1, Facts, ViewIs, Sizes
        DEF DelNext, Quiet, EndPlaces, PlainInv, TypeInv, CmdInv, DelPlaces
<1>2. /\ IsChain(eeprom, heads) /\ len = LenAt(eeprom, off) /\ KeyAt(eeprom, off) = key
      /\ prev.key = Null => prev.off + HeadSize + prev.len = off
      /\ off \in heads \/ Behind(off)
      /\ prev.key = Null /\ off \in heads => prev.off \in heads
      /\ prev.key = Null /\ off \notin heads => prev.off \notin heads /\ Behind(prev.off)
  <2>1. Chained
    BY <1>1, InChain DEF PlainInv
  <2>2. Behind(prev.off) => prev.off \notin heads
    BY <1>1 DEF Behind
  <2> QED BY <1>1, <2>1, <2>2 DEF Chained, OffInv, WalkInv
<1> DEFINE next == off + HeadSize + len
           l == IF InRange(next) /\ KeyAt(eeprom, next) = Null
                  THEN len + HeadSize + LenAt(eeprom, next) ELSE len
<1>3. off' = MergedWithPrev(l).off /\ len' = MergedWithPrev(l).len
  BY <1>1 DEF DelNext
<1>4. next \in Nat /\ next > off
  BY <1>1
<1>5. l \in Nat
  <2>1. InRange(next) => LenAt(eeprom, next) \in Nat
    <3> HIDE DEF next
    <3>1. InRange(next) => next + 1 \in Addr
      BY <1>4, Sizes DEF InRange, HeadSize, Addr
    <3> QED BY <1>1, <3>1 DEF LenAt, Mem
  <2> HIDE DEF next
  <2> QED BY <1>1, <2>1
<1>6. \/ prev.key # Null /\ off' = off /\ len' = l
      \/ prev.key = Null /\ off' = prev.off /\ len' = l + prev.len + HeadSize
  <2> HIDE DEF l
  <2> QED BY <1>3 DEF MergedWithPrev
<1>7. off' \in Nat /\ len' \in Nat /\ off' <= off /\ off' + HeadSize + len' = off + HeadSize + l
  <2> HIDE DEF l
  <2> QED BY <1>1, <1>2, <1>5, <1>6
<1>8. View' = eeprom'
  BY <1>1 DEF View, Unfinished
<1>9. KeyInv'
  <2>1. \A o \in heads : o # off => KeyAt(eeprom, o) # key
    BY <1>1, OthersLack
  <2>2. ~ (off < off') /\ ~ (off >= off' + HeadSize + len')
    <3> DEFINE a == off'
               m == len'
    <3> HIDE DEF l
    <3>1. a \in Nat /\ m \in Nat /\ a <= off /\ a + HeadSize + m = off + HeadSize + l
      BY <1>7
    <3> HIDE DEF a, m
    <3>2. ~ (off < a) /\ ~ (off >= a + HeadSize + m)
      BY <1>1, <1>5, <3>1
    <3> QED BY <3>2 DEF a, m
  <2>3. Once(View, heads)
    BY DEF PlainInv, KeyInv
  <2>4. Lacks(key, { o \in heads : o < off \/ o >= off + HeadSize + len })'
    BY <1>1, <2>1, <2>2 DEF Lacks
  <2>5. ASSUME NEW o \in heads, off' <= o, o < off + HeadSize + l
        PROVE  KeyAt(eeprom, o) \in {Null, key}
    <3>1. /\ \A p \in heads : p \in Nat /\ NextOf(eeprom, p) \in Nat
          /\ \A p, q \in heads : p < q => NextOf(eeprom, p) <= q
      BY <1>1, <1>2, ChainFacts
    <3>2. CASE off \notin heads
      <4>1. Behind(off')
        BY <1>2, <1>6, <3>2
      <4> QED BY <1>1, <1>7, <2>5, <3>1, <4>1 DEF Behind
    <3>3. CASE off \in heads /\ o < off
      <4>1. prev.key = Null /\ off' = prev.off /\ prev.off \in heads
        BY <1>1, <1>2, <1>6, <2>5, <3>1, <3>3
      <4>2. NextOf(eeprom, prev.off) = off /\ KeyAt(eeprom, prev.off) = Null
        BY <1>1, <1>2, <4>1 DEF NextOf, PlainInv, MergeInv
      <4>3. o = prev.off
        BY <1>1, <2>5, <3>1, <3>3, <4>1, <4>2
      <4> QED BY <4>2, <4>3
    <3>4. CASE off \in heads /\ o = off
      BY <1>2, <3>4
    <3>5. CASE off \in heads /\ off < o
      <4>1. next <= o /\ next \in heads
        <5>1. next = NextOf(eeprom, off)
          BY <1>2 DEF NextOf
        <5>2. NextOf(eeprom, off) \in heads
          BY <1>1, <1>2, <3>5, ChainFacts
        <5> QED BY <3>1, <3>5, <5>1, <5>2
      <4>2. l # len
        <5> SUFFICES ASSUME l = len PROVE FALSE
          OBVIOUS
        <5>1. o < next
          <6> HIDE DEF l
          <6> QED BY <2>5
        <5> HIDE DEF next
        <5> QED BY <1>4, <3>1, <4>1, <5>1
      <4>3. KeyAt(eeprom, next) = Null /\ l = len + HeadSize + LenAt(eeprom, next)
        BY <4>2
      <4>4. LenAt(eeprom, next) \in Nat
        <5> HIDE DEF next
        <5> QED BY <1>1, <1>2, <4>1, ChainFacts
      <4>5. o < NextOf(eeprom, next)
        <5>1. off + HeadSize + l = NextOf(eeprom, next)
          <6> HIDE DEF l
          <6> QED BY <1>1, <4>3, <4>4 DEF NextOf
        <5> HIDE DEF l, next
        <5> QED BY <2>5, <5>1
      <4>6. o = next
        <5> HIDE DEF l, next
        <5> QED BY <1>4, <3>1, <4>1, <4>5
      <4> QED BY <4>3, <4>6
    <3> QED BY <1>1, <3>1, <3>2, <3>3, <3>4, <3>5
  <2>6. (\A o \in heads : off <= o /\ o < off + HeadSize + len => KeyAt(eeprom, o) \in {Null, key})'
    <3> HIDE DEF l
    <3> QED BY <1>1, <1>7, <2>5
  <2> QED BY <1>1, <1>8, <2>3, <2>4, <2>6 DEF KeyInv, AddPlaces
<1>10. ASSUME off' \in heads, NEW o \in heads, NextOf(eeprom, o) = off'
       PROVE KeyAt(eeprom, o) # Null
  <2>1. CASE prev.key # Null
    BY <1>1, <1>6, <1>10, <2>1 DEF PlainInv, MergeInv
  <2>2. CASE prev.key = Null
    BY <1>1, <1>6, <1>10, <2>2 DEF PlainInv, MergeInv, Merged
  <2> QED BY <2>1, <2>2
<1>11. ASSUME off' \in heads PROVE KeyAt(eeprom, off + HeadSize + l) # Null
  <2>1. off \in heads
    BY <1>2, <1>6, <1>11
  <2>2. next \in heads /\ InRange(next)
    <3>1. next = NextOf(eeprom, off)
      BY <1>2 DEF NextOf
    <3>2. next \in heads
      BY <1>1, <1>2, <2>1, <3>1, ChainFacts
    <3> QED BY <3>2, HeadsIn DEF PlainInv
  <2>3. CASE KeyAt(eeprom, next) # Null
    <3> HIDE DEF next
    <3>1. l = len
      BY <2>3
    <3> QED BY <2>3, <3>1 DEF next
  <2>4. CASE KeyAt(eeprom, next) = Null
    <3>1. LenAt(eeprom, next) \in Nat /\ NextOf(eeprom, next) \in heads
      <4> HIDE DEF next
      <4> QED BY <1>1, <1>2, <2>2, <2>4, ChainFacts
    <3>2. off + HeadSize + l = NextOf(eeprom, next)
      <4>1. l = len + HeadSize + LenAt(eeprom, next)
        BY <2>2, <2>4
      <4> QED BY <1>1, <3>1, <4>1 DEF NextOf
    <3>3. KeyAt(eeprom, NextOf(eeprom, next)) # Null
      <4> HIDE DEF next
      <4> QED BY <1>1, <2>2, <2>4, <3>1 DEF PlainInv, MergeInv, Merged
    <3> QED BY <3>2, <3>3
  <2> QED BY <2>3, <2>4
<1>12. MergeInv'
  <2>1. Merged(View, heads)
    BY DEF PlainInv, MergeInv
  <2> HIDE DEF l
  <2> QED BY <1>1, <1>7, <1>8, <1>10, <1>11, <2>1 DEF MergeInv
<1> QED BY <1>9, <1>12

\* The header of the freed item: in the chain, or behind it.
LEMMA Freed ==
    ASSUME Safe, TypeInv, ChainInv, DelSave
    PROVE  /\ pc = "delSave" /\ DelReturn("ok") /\ IsChain(eeprom, heads) /\ View = eeprom
           /\ heads' = { o \in heads : o <= off \/ o >= off + HeadSize + len }
           /\ eeprom' = Written(eeprom, off, Header(Null, len), HeadSize)
           /\ \/ /\ off \in heads /\ KeyAt(eeprom, off) # End /\ off + HeadSize + len \in heads
                 /\ KeyAt(eeprom', off) = Null /\ LenAt(eeprom', off) = len
                 /\ \A o \in heads \ {off} : SameItem(eeprom, eeprom', o)
              \/ /\ heads' = heads /\ off \notin heads /\ Behind(off)
                 /\ \A o \in heads : SameItem(eeprom, eeprom', o)
<1>1. /\ pc = "delSave" /\ WriteDone /\ DelReturn("ok")
      /\ heads' = { o \in heads : o <= off \/ o >= off + HeadSize + len }
      /\ eeprom \in Mem /\ off \in Nat /\ len \in Nat /\ Null = 0 /\ HeadSize = 2 /\ Null \in Nat
  BY Facts DEF DelSave, WriteFails, Safe
<1>2. Chained /\ View = eeprom /\ IsChain(eeprom, heads) /\ heads \subseteq Nat
  BY <1>1, InChain, ViewIs, ChainFacts DEF Chained, EndPlaces
<1>3. /\ Header(Null, len) \in Seq(Nat) /\ Len(Header(Null, len)) = HeadSize
      /\ eeprom' = Written(eeprom, off, Header(Null, len), HeadSize)
  <2>1. Pending = [at |-> off, cells |-> Header(Null, len)]
    BY <1>1, PendingIs
  <2>2. Header(Null, len) \in Seq(Nat) /\ Len(Header(Null, len)) = HeadSize
    BY <1>1, HeaderSeq
  <2> QED BY <1>1, <2>1, <2>2 DEF WriteDone
<1>4. CASE off \in heads /\ KeyAt(eeprom, off) # End /\ off + HeadSize + len \in heads
  <2>1. /\ KeyAt(eeprom', off) = Null /\ LenAt(eeprom', off) = len
        /\ \A o \in heads \ {off} : SameItem(eeprom, eeprom', o)
    BY <1>1, <1>2, <1>3, <1>4, WriteHead
  <2> QED BY <1>1, <1>2, <1>3, <1>4, <2>1
<1>5. CASE Behind(off)
  <2>1. \A o \in heads : o + 1 < off /\ o <= off
    BY <1>1, <1>2, <1>5 DEF Behind
  <2>2. heads' = heads /\ off \notin heads
    BY <1>1, <2>1
  <2>3. off + HeadSize <= Size /\ HeadSize \in Nat /\ HeadSize <= HeadSize
    BY <1>1, Sizes DEF TypeInv, SizeInv, InRange
  <2>4. \A o \in heads : SameItem(eeprom, eeprom', o)
    BY <1>1, <1>2, <1>3, <2>1, <2>3, WriteMisses
  <2> QED BY <1>1, <1>2, <1>3, <1>5, <2>2, <2>4
<1> QED BY <1>1, <1>2, <1>4, <1>5 DEF Chained, OffInv

LEMMA PlainDelSave ==
    ASSUME Quiet, PlainInv, TypeInv', ChainInv', DelSave
    PROVE  KeyInv' /\ MergeInv'
<1>1. /\ pc = "delSave" /\ DelReturn("ok") /\ IsChain(eeprom, heads) /\ View = eeprom
      /\ heads' = { o \in heads : o <= off \/ o >= off + HeadSize + len }
      /\ eeprom \in Mem /\ off \in Nat /\ len \in Nat /\ Null = 0 /\ End = 1 /\ HeadSize = 2
      /\ key \in Keys /\ Null \notin Keys
      /\ Once(eeprom, heads) /\ Merged(eeprom, heads)
  <2>1. Null = 0 /\ End = 1 /\ HeadSize = 2 /\ eeprom \in Mem /\ off \in Nat /\ len \in Nat
    BY Facts DEF PlainInv
  <2>2. pc = "delSave" /\ View = eeprom
    BY Freed DEF Quiet, PlainInv
  <2> QED BY <2>1, <2>2, Freed, Sizes
      DEF Quiet, PlainInv, TypeInv, CmdInv, DelPlaces, KeyInv, MergeInv
<1>2. Lacks(key, { o \in heads : o < off \/ o >= off + HeadSize + len })
  BY <1>1 DEF PlainInv, KeyInv
<1>3. CASE /\ heads' = heads /\ off \notin heads
           /\ Behind(off) /\ \A o \in heads : SameItem(eeprom, eeprom', o)
  <2>1. Once(eeprom', heads') /\ Merged(eeprom', heads')
    BY <1>1, <1>3, SameHeads
  <2>2. \A o \in heads : o \in Nat /\ o < off
    <3>1. \A o \in heads : o \in Nat
      BY HeadsIn DEF PlainInv
    <3> QED BY <1>1, <1>3, <3>1 DEF Behind
  <2>3. \A o \in heads' : KeyAt(eeprom', o) # key
    BY <1>2, <1>3, <2>2 DEF Lacks, SameItem
  <2> QED BY <1>1, <2>1, <2>3, DelReturnPlain
<1>4. CASE /\ off \in heads /\ KeyAt(eeprom, off) # End /\ off + HeadSize + len \in heads
           /\ KeyAt(eeprom', off) = Null /\ LenAt(eeprom', off) = len
           /\ \A o \in heads \ {off} : SameItem(eeprom, eeprom', o)
  <2> DEFINE c == off + HeadSize + len
  <2>1. /\ \A o \in heads : o \in Nat /\ NextOf(eeprom, o) \in Nat /\ NextOf(eeprom, o) > o
        /\ \A o, p \in heads : o < p => NextOf(eeprom, o) <= p
        /\ \A o \in heads : KeyAt(eeprom, o) # End => NextOf(eeprom, o) \in heads
    BY <1>1, ChainFacts
  <2>2. \A o \in heads' \ {off} : /\ o \in heads /\ SameItem(eeprom, eeprom', o)
                                  /\ NextOf(eeprom', o) = NextOf(eeprom, o) /\ KeyAt(eeprom', o) = KeyAt(eeprom, o)
    BY <1>1, <1>4 DEF SameItem, NextOf
  <2>3. \A o \in heads' \ {off} : o < off \/ o >= c
    BY <1>1, <2>1
  <2>4. \A o \in heads' : KeyAt(eeprom', o) # key
    <3>1. \A o \in heads' \ {off} : KeyAt(eeprom, o) # key
      BY <1>2, <2>2, <2>3 DEF Lacks
    <3> QED BY <1>1, <1>4, <2>2, <3>1
  <2>5. Once(eeprom', heads')
    <3> DEFINE new == eeprom'
               T == heads'
    <3>1. /\ \A o \in T \ {off} : o \in heads /\ KeyAt(new, o) = KeyAt(eeprom, o)
          /\ KeyAt(new, off) \notin Keys
      BY <1>1, <1>4, <2>2
    <3> HIDE DEF new, T
    <3>2. Once(new, T)
      BY <1>1, <3>1, OnceHead
    <3> QED BY <3>2 DEF new, T
  <2>6. NextOf(eeprom', off) = c /\ c # off /\ KeyAt(eeprom, c) # Null
    BY <1>1, <1>4 DEF NextOf, PlainInv, MergeInv
  <2>7. \A o \in heads : NextOf(eeprom, o) = off => KeyAt(eeprom, o) # Null
    BY <1>1, <1>4 DEF PlainInv, MergeInv
  <2>8. ASSUME NEW o \in heads', KeyAt(eeprom', o) = Null, NextOf(eeprom', o) \in heads'
        PROVE KeyAt(eeprom', NextOf(eeprom', o)) # Null
    <3>1. CASE o = off
      BY <2>2, <2>6, <2>8, <3>1
    <3>2. CASE o # off
      <4>1. /\ o \in heads /\ KeyAt(eeprom, o) = Null /\ NextOf(eeprom, o) # off
            /\ NextOf(eeprom', o) = NextOf(eeprom, o)
        BY <2>2, <2>7, <2>8, <3>2
      <4>2. KeyAt(eeprom, NextOf(eeprom, o)) # Null /\ NextOf(eeprom, o) \in heads' \ {off}
        BY <1>1, <2>2, <2>8, <4>1 DEF Merged
      <4> QED BY <2>2, <4>1, <4>2
    <3> QED BY <3>1, <3>2
  <2>9. Merged(eeprom', heads')
    BY <2>8 DEF Merged
  <2> QED BY <1>1, <2>4, <2>5, <2>9, DelReturnPlain
<1> QED BY <1>3, <1>4, Freed DEF Quiet, PlainInv

\* A step of add_item that leaves the headers alone.
LEMMA SparePlain ==
    ASSUME PlainInv, \A o \in heads : SameItem(eeprom, eeprom', o), UNCHANGED <<heads, key>>,
           pc \in AddPlaces, pc' \in AddPlaces
    PROVE  KeyInv' /\ MergeInv'
<1>1. View = eeprom /\ View' = eeprom'
  BY ViewIs DEF View, Unfinished, AddPlaces, EndPlaces
<1>2. Once(eeprom', heads) /\ Merged(eeprom', heads)
  BY <1>1, SameHeads DEF PlainInv, KeyInv, MergeInv
<1>3. Lacks(key, heads)'
  BY DEF PlainInv, KeyInv, Lacks, SameItem
<1> QED BY <1>1, <1>2, <1>3 DEF KeyInv, MergeInv, AddPlaces

LEMMA PlainAddSearch ==
    ASSUME Quiet, PlainInv, TypeInv', ChainInv', AddSearch
    PROVE  KeyInv' /\ MergeInv'
<1>1. pc = "addSearch" /\ UNCHANGED <<eeprom, heads>>
  BY DEF AddSearch
<1>2. CASE Return("failed")
  <2>1. pc' \notin EndPlaces
    BY <1>2 DEF Return, Enter, EndPlaces
  <2> QED BY <1>1, <1>2, <2>1, StillPlain, ReturnPlain DEF EndPlaces
<1>3. CASE pc' \in AddPlaces /\ UNCHANGED key
  BY <1>1, <1>3, SparePlain DEF AddPlaces, SameItem
<1> QED BY <1>2, <1>3 DEF AddSearch, AddPlaces

LEMMA PlainData ==
    ASSUME Quiet, PlainInv, TypeInv', ChainInv', AddData \/ AppendData
    PROVE  KeyInv' /\ MergeInv'
<1>1. /\ pc \in {"addData", "appData"} /\ WriteDone /\ UNCHANGED <<heads, key>>
      /\ pc' \in AddPlaces /\ Len(data) \in Nat /\ Len(data) <= Len(data)
  BY Facts DEF AddData, AppendData, WriteFails, Quiet, Safe, AddPlaces, regs, PlainInv
<1>2. eeprom' = Written(eeprom, off + HeadSize, data, Len(data))
  BY <1>1, PendingIs DEF WriteDone
<1>3. \A o \in heads : SameItem(eeprom, eeprom', o)
  BY <1>1, <1>2, DataSpares DEF PlainInv
<1> QED BY <1>1, <1>3, SparePlain DEF AddPlaces

LEMMA FitPlain ==
    ASSUME PlainInv, pc = "fitHead", KeyAt(eeprom', off) = key,
           \A o \in heads \ {off} : SameItem(eeprom, eeprom', o)
    PROVE  Once(eeprom', heads) /\ Merged(eeprom', heads)
<1>1. /\ off \in heads /\ View = eeprom /\ \A o \in heads : KeyAt(eeprom, o) # key
      /\ key # Null /\ Once(eeprom, heads) /\ Merged(eeprom, heads)
  <2>1. Chained /\ View = eeprom
    BY InChain, ViewIs DEF PlainInv, EndPlaces
  <2>2. key # Null
    BY Sizes DEF PlainInv, TypeInv, CmdInv, ItemPlaces, AddPlaces, DelPlaces
  <2> QED BY <2>1, <2>2 DEF PlainInv, Chained, OffInv, KeyInv, MergeInv, Lacks, AddPlaces
<1> DEFINE new == eeprom'
<1>2. /\ KeyAt(new, off) = key /\ \A o \in heads \ {off} : SameItem(eeprom, new, o)
  OBVIOUS
<1> HIDE DEF new
<1>3. Once(new, heads)
  BY <1>1, <1>2, OnceHead DEF SameItem
<1>4. Merged(new, heads)
  <2> SUFFICES ASSUME NEW o \in heads, KeyAt(new, o) = Null, NextOf(new, o) \in heads
               PROVE  KeyAt(new, NextOf(new, o)) # Null
    BY DEF Merged
  <2>1. KeyAt(eeprom, o) = Null /\ NextOf(eeprom, o) = NextOf(new, o)
    BY <1>1, <1>2 DEF SameItem, NextOf
  <2>2. KeyAt(eeprom, NextOf(new, o)) # Null
    BY <1>1, <2>1 DEF Merged
  <2> QED BY <1>1, <1>2, <2>2 DEF SameItem
<1> QED BY <1>3, <1>4 DEF new

LEMMA PlainFitHead ==
    ASSUME Quiet, PlainInv, TypeInv', ChainInv', pc = "fitHead", WriteDone, Return("ok"),
           UNCHANGED heads
    PROVE  KeyInv' /\ MergeInv'
BY FitPlain, ItemHead, ReturnPlain DEF PlainInv

LEMMA PlainNewHead ==
    ASSUME Quiet, PlainInv, TypeInv', ChainInv', WriteDone, pc \in {"splitHead", "appHead"},
           UNCHANGED regs, pc' = IF pc = "splitHead" THEN "splitRest" ELSE "appEnd",
           heads' = heads \cup {ItemEnd}
    PROVE  KeyInv' /\ MergeInv'
<1> DEFINE new == View'
           b == ItemEnd
<1>1. /\ off \in heads /\ \A o \in heads : KeyAt(eeprom, o) # key
      /\ IsChain(eeprom, heads) /\ eeprom \in Mem
      /\ key # Null /\ Null = 0 /\ End = 1 /\ Null \notin Keys /\ End \notin Keys
      /\ Once(eeprom, heads) /\ Merged(eeprom, heads)
      /\ IF pc = "splitHead" THEN KeyAt(eeprom, off) = Null ELSE KeyAt(eeprom, off) = End
  <2>1. Chained /\ View = eeprom
    BY InChain, ViewIs DEF PlainInv, EndPlaces
  <2>2. Null = 0 /\ End = 1 /\ eeprom \in Mem /\ Null \notin Keys /\ End \notin Keys /\ key # Null
    BY Facts, Sizes, ItemHead DEF PlainInv
  <2>3. /\ off \in heads
        /\ IF pc = "splitHead" THEN KeyAt(eeprom, off) = Null ELSE KeyAt(eeprom, off) = End
    BY <2>1 DEF Chained, OffInv
  <2>4. \A o \in heads : KeyAt(eeprom, o) # key
    BY DEF PlainInv, KeyInv, AddPlaces, Lacks
  <2> QED BY <2>1, <2>2, <2>3, <2>4 DEF PlainInv, Chained, KeyInv, MergeInv
<1>2. /\ IsChain(new, heads \cup {b}) /\ new \in Mem /\ KeyAt(new, off) = key
      /\ \A o \in heads \ {off} : SameItem(eeprom, new, o)
      /\ KeyAt(new, b) = IF pc = "splitHead" THEN Null ELSE End
      /\ pc = "splitHead" => NextOf(new, b) = NextOf(eeprom, off)
  BY ViewInsert DEF PlainInv
<1>3. \A o \in heads : o \in Nat /\ (o + HeadSize <= b \/ b + HeadSize <= o)
  BY ViewInsert, HeadsIn DEF PlainInv
<1>4. b \in Nat
  <2>1. off \in Nat /\ Len(data) \in Nat /\ HeadSize = 2
    BY Facts DEF PlainInv
  <2>2. off + HeadSize + Len(data) \in Nat
    BY <2>1
  <2> QED BY <2>2 DEF ItemEnd
<1> HIDE DEF new, b
<1>5. Once(new, heads \cup {b})
  <2>1. \A o \in (heads \cup {b}) \ {off} :
            (o \in heads /\ KeyAt(new, o) = KeyAt(eeprom, o)) \/ KeyAt(new, o) \notin Keys
    BY <1>1, <1>2 DEF SameItem
  <2>2. KeyAt(new, off) \in Keys => \A o \in (heads \cup {b}) \ {off} : KeyAt(new, o) # KeyAt(new, off)
    BY <1>1, <1>2 DEF SameItem
  <2> QED BY <1>1, <2>1, <2>2, OnceHead
<1>6. Merged(new, heads \cup {b})
  <2>1. /\ \A o \in heads : NextOf(eeprom, o) \in Nat /\ NextOf(eeprom, o) >= o + HeadSize
        /\ \A o, p \in heads : o < p => NextOf(eeprom, o) <= p
        /\ \A o \in heads : KeyAt(eeprom, o) # End => NextOf(eeprom, o) \in heads
        /\ \A o, p \in heads : o < p => KeyAt(eeprom, o) # End
    BY <1>1, ChainFacts
  <2>2. \A o \in heads : KeyAt(eeprom, o) = Null => NextOf(eeprom, o) \in heads
    BY <1>1, <2>1
  <2>3. off \in Nat /\ NextOf(eeprom, off) # off
    BY <1>1, <1>3, <2>1 DEF HeadSize
  <2>4. \A o \in heads \ {off} : NextOf(eeprom, o) # b
    <3> SUFFICES ASSUME NEW o \in heads \ {off}, NextOf(eeprom, o) = b PROVE FALSE
      OBVIOUS
    <3>1. \A p \in heads : p # b
      BY <1>3, <1>4 DEF HeadSize
    <3>2. KeyAt(eeprom, o) = End /\ off < o
      <4>1. KeyAt(eeprom, o) = End
        BY <2>1, <3>1
      <4>2. ~ (o < off)
        BY <1>1, <2>1, <4>1
      <4> QED BY <1>3, <2>3, <4>1, <4>2
    <3>3. KeyAt(eeprom, off) # End
      BY <1>1, <2>1, <3>2
    <3>4. pc = "splitHead" /\ NextOf(new, b) = NextOf(eeprom, off)
      BY <1>1, <1>2, <3>3
    <3>5. NextOf(new, b) >= b + HeadSize /\ NextOf(new, b) \in Nat
      <4>1. heads \cup {b} \subseteq Offsets
        BY <1>2 DEF IsChain
      <4> QED BY <1>2, <4>1, Ahead
    <3>6. NextOf(eeprom, off) <= o /\ b >= o + HeadSize
      BY <1>1, <2>1, <3>2
    <3> QED BY <1>3, <1>4, <3>4, <3>5, <3>6 DEF HeadSize
  <2>5. /\ KeyAt(new, off) # Null
        /\ KeyAt(new, b) = Null => KeyAt(eeprom, off) = Null /\ NextOf(new, b) = NextOf(eeprom, off)
    BY <1>1, <1>2
  <2> QED BY <1>1, <1>2, <2>2, <2>3, <2>4, <2>5, MergedInsert
<1>7. Once(View', heads') /\ Merged(View', heads')
  BY <1>5, <1>6 DEF new, b
<1> QED BY <1>7, RestPlain DEF DelPlaces, AddPlaces

\* The second header makes of the device what the view was.
LEMMA SecondIsView ==
    ASSUME TypeInv, WriteDone, pc \in EndPlaces
    PROVE  eeprom' = View
<1>1. Len(Pending.cells) = HeadSize
  <2>1. len \in Nat /\ Len(data) \in Nat /\ HeadSize = 2 /\ Null \in Nat /\ End \in Nat /\ 0 \in Nat
    BY Facts
  <2>2. CASE pc = "splitRest"
    <3>1. len - Len(data) - HeadSize \in Nat
      BY <2>1, <2>2 DEF TypeInv, SizeInv
    <3> QED BY <2>1, <2>2, <3>1, HeaderSeq, PendingIs
  <2>3. CASE pc = "appEnd"
    BY <2>1, <2>3, HeaderSeq, PendingIs
  <2> QED BY <2>2, <2>3 DEF EndPlaces
<1> QED BY <1>1 DEF WriteDone, View, Unfinished, EndPlaces

LEMMA PlainSecondHead ==
    ASSUME Quiet, PlainInv, TypeInv', ChainInv', WriteDone, pc \in EndPlaces, Return("ok"),
           UNCHANGED heads
    PROVE  KeyInv' /\ MergeInv'
<1>1. eeprom' = View
  BY SecondIsView DEF PlainInv
<1>2. Once(eeprom', heads') /\ Merged(eeprom', heads')
  BY <1>1 DEF PlainInv, KeyInv, MergeInv
<1> QED BY <1>2, ReturnPlain

LEMMA PlainClearWalk ==
    ASSUME Quiet, PlainInv, TypeInv', ChainInv', ClearWalk
    PROVE  KeyInv' /\ MergeInv'
<1>1. pc = "clrWalk" /\ UNCHANGED <<eeprom, heads>>
  BY DEF ClearWalk
<1>2. CASE Return("failed")
  <2>1. pc' \notin EndPlaces
    BY <1>2 DEF Return, Enter, EndPlaces
  <2> QED BY <1>1, <1>2, <2>1, StillPlain, ReturnPlain DEF EndPlaces
<1>3. CASE pc' \in {"undefined", "clrImage", "clrWalk"}
  BY <1>1, <1>3, StillPlain, RestPlain DEF EndPlaces, DelPlaces, AddPlaces
<1> QED BY <1>2, <1>3 DEF ClearWalk

\* The fresh image: its magic, a free item and the end item.
LEMMA Fresh ==
    ASSUME Safe, TypeInv, ClearImage
    PROVE  /\ pc = "clrImage" /\ heads' = {1, 4} /\ Enter(Ethaddr, kept[Ethaddr])
           /\ eeprom' \in Mem /\ eeprom'[0] = Magic
           /\ KeyAt(eeprom', 1) = Null /\ KeyAt(eeprom', 4) = End
<1>1. /\ pc = "clrImage" /\ WriteDone /\ heads' = {1, 4} /\ Enter(Ethaddr, kept[Ethaddr])
      /\ eeprom \in Mem /\ ImageEnd = 4 /\ Null = 0 /\ End = 1
  BY Facts DEF ClearImage, WriteFails, Safe, ImageEnd
<1>2. Size \in Nat /\ ImageSize \in Nat /\ ImageSize <= Size /\ ImageSize > 5
  BY <1>1, DbRoom, DbConstants
<1>3. eeprom' = Written(eeprom, 0, Image, ImageSize)
  <2>1. Pending = [at |-> 0, cells |-> Image]
    BY <1>1, PendingIs
  <2> QED BY <1>1, <2>1, ImageSeq DEF WriteDone
<1>4. eeprom' \in Mem
  BY <1>1, WriteType
<1>5. \A c \in {0, 1, 4} : eeprom'[c] = Image[c + 1]
  <2> TAKE c \in {0, 1, 4}
  <2>1. c \in Addr /\ 0 <= c /\ c < 0 + ImageSize /\ 0 + ImageSize <= Size
    BY <1>2 DEF Addr
  <2>2. eeprom'[c] = Image[c - 0 + 1]
    BY <1>1, <1>2, <1>3, <2>1, WrittenCell
  <2> QED BY <2>2
<1>6. Image[1] = Magic /\ Image[2] = 0 /\ Image[5] = 1
  BY <1>2 DEF Image, ImageCell, End
<1> QED BY <1>1, <1>4, <1>5, <1>6 DEF KeyAt

LEMMA PlainClearImage ==
    ASSUME Quiet, PlainInv, TypeInv', ChainInv', ClearImage
    PROVE  KeyInv' /\ MergeInv'
<1>1. /\ heads' = {1, 4} /\ Enter(Ethaddr, kept[Ethaddr])
      /\ KeyAt(eeprom', 1) = Null /\ KeyAt(eeprom', 4) = End
      /\ Null \notin Keys /\ End \notin Keys /\ Null # End
  BY Fresh, Sizes DEF Quiet, PlainInv, Null, End
<1>2. Once(eeprom', heads')
  BY <1>1 DEF Once
<1>3. Merged(eeprom', heads')
  <2>1. 1 \in heads' => NextOf(eeprom', 1) # 1
    BY <1>1, FirstHead DEF MagicSize
  <2> QED BY <1>1, <2>1 DEF Merged
<1> QED BY <1>1, <1>2, <1>3, EnterPlain

\* What a loss of power leaves: part of the data, or the key of an exact fit.
LEMMA Lost ==
    ASSUME Quiet, TypeInv, ChainInv, PowerLoss
    PROVE  /\ heads' = heads /\ pc' = "idle" /\ View = eeprom /\ View' = eeprom'
           /\ pc \notin EndPlaces \cup {"idle", "undefined"}
           /\ \/ eeprom' = eeprom
              \/ /\ pc \in {"addData", "appData"}
                 /\ \E n \in Nat : /\ n <= Len(data)
                                   /\ eeprom' = Written(eeprom, off + HeadSize, data, n)
              \/ /\ pc = "fitHead" /\ KeyAt(eeprom', off) = key
                 /\ \A c \in Addr : c # off => eeprom'[c] = eeprom[c]
<1>1. /\ pc \in {"magic", "delWalk", "delNext", "addSearch", "addData", "fitHead", "appData",
                 "clrWalk", "envWalk", "dumpWalk"}
      /\ pc' = "idle" /\ heads' = heads /\ (UNCHANGED eeprom \/ WriteCut)
  BY DbConstants DEF PowerLoss, Quiet, Safe, Windows, Places
<1>2. View = eeprom /\ View' = eeprom' /\ pc \notin EndPlaces
  BY <1>1, ViewIs DEF View, Unfinished, EndPlaces
<1>3. CASE UNCHANGED eeprom
  BY <1>1, <1>2, <1>3
<1>4. CASE WriteCut
  <2> DEFINE at == Pending.at
             cells == Pending.cells
  <2>1. PICK n \in 0 .. Len(cells) - 1 : eeprom' = Written(eeprom, at, cells, n)
    BY <1>4 DEF WriteCut
  <2>2. at \in Nat /\ cells \in Seq(Nat) /\ Len(cells) \in Nat /\ n \in Nat /\ n < Len(cells)
    BY <2>1, PendingType
  <2>3. CASE pc \in {"addData", "appData"}
    <3>1. at = off + HeadSize /\ cells = data
      BY <2>3, PendingIs
    <3>2. n <= Len(data)
      BY <2>2, <3>1
    <3> QED BY <1>1, <1>2, <2>1, <2>2, <2>3, <3>1, <3>2
  <2>4. CASE pc = "fitHead"
    <3>1. /\ eeprom \in Mem /\ off \in Nat /\ HeadSize = 2 /\ off + HeadSize < Size /\ off \in Addr
          /\ key \in Nat /\ Len(data) \in Nat /\ Size \in Nat
      <4>1. /\ eeprom \in Mem /\ off \in Nat /\ HeadSize = 2 /\ Len(data) \in Nat /\ Size \in Nat
        BY Facts, Sizes
      <4>2. InRange(off) /\ key \in Nat
        BY <2>4, Sizes DEF TypeInv, SizeInv, CmdInv, ItemPlaces, AddPlaces, DelPlaces
      <4> QED BY <4>1, <4>2 DEF InRange, Addr
    <3>2. at = off /\ cells = Header(key, Len(data))
      BY <2>4, PendingIs
    <3>3. Len(cells) = HeadSize /\ cells[1] = key
      BY <3>1, <3>2, HeaderSeq
    <3> HIDE DEF at, cells
    <3>4. n = 0 \/ n = 1
      BY <2>2, <3>1, <3>3
    <3>5. CASE n = 0
      <4>1. off < Size
        BY <3>1
      <4>2. eeprom' = eeprom
        BY <2>1, <3>1, <3>2, <3>5, <4>1, WriteNothing
      <4> QED BY <1>1, <1>2, <4>2
    <3>6. CASE n = 1
      <4>1. off + n <= Size
        BY <3>1, <3>6
      <4>2. \A c \in Addr : eeprom'[c] = IF off <= c /\ c < off + n THEN cells[c - off + 1] ELSE eeprom[c]
        BY <2>1, <2>2, <3>1, <3>2, <4>1, WrittenCell
      <4>3. \A c \in Addr : c \in Nat /\ (off <= c /\ c < off + 1 <=> c = off)
        BY <3>1 DEF Addr
      <4>4. off - off + 1 = 1
        BY <3>1
      <4>5. \A c \in Addr : eeprom'[c] = IF c = off THEN cells[c - off + 1] ELSE eeprom[c]
        BY <3>6, <4>2, <4>3
      <4>6. eeprom'[off] = key
        BY <3>1, <3>3, <4>4, <4>5
      <4> QED BY <1>1, <1>2, <2>4, <4>5, <4>6 DEF KeyAt
    <3> QED BY <3>4, <3>5, <3>6
  <2>5. CASE pc \notin {"addData", "appData", "fitHead"}
    <3>1. cells = <<>>
      BY <1>1, <2>5, PendingIs
    <3> QED BY <2>2, <3>1
  <2> QED BY <2>3, <2>4, <2>5
<1> QED BY <1>1, <1>3, <1>4

LEMMA PlainPowerLoss ==
    ASSUME Quiet, PlainInv, TypeInv', ChainInv', PowerLoss
    PROVE  KeyInv' /\ MergeInv'
<1>1. /\ heads' = heads /\ pc' = "idle" /\ View = eeprom /\ View' = eeprom'
      /\ Once(eeprom, heads) /\ Merged(eeprom, heads)
  BY Lost DEF PlainInv, KeyInv, MergeInv
<1>2. Once(eeprom', heads) /\ Merged(eeprom', heads)
  <2>1. CASE eeprom' = eeprom
    BY <1>1, <2>1
  <2>2. ASSUME pc \in {"addData", "appData"},
               NEW n \in Nat, n <= Len(data), eeprom' = Written(eeprom, off + HeadSize, data, n)
        PROVE Once(eeprom', heads) /\ Merged(eeprom', heads)
    <3>1. \A o \in heads : SameItem(eeprom, eeprom', o)
      BY <2>2, DataSpares DEF PlainInv
    <3> QED BY <1>1, <3>1, SameHeads
  <2>3. CASE /\ pc = "fitHead" /\ KeyAt(eeprom', off) = key
             /\ \A c \in Addr : c # off => eeprom'[c] = eeprom[c]
    <3>1. Chained /\ off \in heads
      BY <2>3, InChain DEF PlainInv, Chained, OffInv
    <3>2. \A o \in heads \ {off} : o \in Addr /\ o + 1 \in Addr /\ o # off /\ o + 1 # off
      <4>1. /\ \A o \in heads : o \in Nat /\ o \in Addr /\ o + 1 \in Addr
            /\ \A o, p \in heads : o < p => o + HeadSize <= p
        BY <1>1, <3>1, Facts, ChainFacts DEF PlainInv, Chained
      <4> QED BY <3>1, <4>1 DEF HeadSize
    <3>3. \A o \in heads \ {off} : SameItem(eeprom, eeprom', o)
      BY <2>3, <3>2 DEF SameItem, KeyAt, LenAt
    <3> QED BY <2>3, <3>3, FitPlain
  <2> QED BY <2>1, <2>2, <2>3, Lost DEF PlainInv
<1> QED BY <1>1, <1>2, RestPlain DEF DelPlaces, AddPlaces

LEMMA PlainInit == Init => KeyInv /\ MergeInv
<1> SUFFICES ASSUME Init PROVE KeyInv /\ MergeInv
  OBVIOUS
<1>1. /\ pc = "idle" /\ heads = {MagicSize} /\ View = eeprom /\ KeyAt(eeprom, MagicSize) # Null
  <2>1. MagicSize \in Addr /\ Blank # Null
    BY Sizes, DbConstants, DbCells DEF Addr, MagicSize, Null
  <2>2. eeprom[MagicSize] = Blank
    BY <2>1 DEF Init
  <2> QED BY <2>1, <2>2 DEF Init, View, Unfinished, KeyAt
<1>2. Once(View, heads) /\ Merged(View, heads)
  BY <1>1 DEF Once, Merged
<1> QED BY <1>1, <1>2 DEF KeyInv, MergeInv, AddPlaces

LEMMA PlainStep ==
    ASSUME Quiet
    PROVE  PlainInv /\ [Next]_vars => PlainInv'
<1> SUFFICES ASSUME PlainInv, [Next]_vars PROVE PlainInv'
  OBVIOUS
<1>0. TypeInv' /\ ChainInv'
  BY TypeStep, ChainStep DEF Quiet, PlainInv
<1>1. CASE \E c \in Commands, k \in Keys, d \in Values \cup {<<>>} : Start(c, k, d)
  BY <1>0, <1>1, PlainStart DEF PlainInv
<1>2. CASE ReadMagic \/ InitEnd \/ InitMagic
  BY <1>0, <1>2, PlainReadMagic, PlainInitEnd, PlainInitMagic DEF PlainInv
<1>3. CASE DelWalk \/ DelNext \/ DelSave
  BY <1>0, <1>3, PlainDelWalk, PlainDelNext, PlainDelSave DEF PlainInv
<1>4. CASE AddSearch \/ AddData \/ AppendData
  BY <1>0, <1>4, PlainAddSearch, PlainData DEF PlainInv
<1>5. CASE AddHead
  <2>1. CASE pc = "fitHead"
    BY <1>0, <1>5, <2>1, PlainFitHead DEF AddHead, WriteFails, Quiet, Safe, PlainInv
  <2>2. CASE pc = "splitHead"
    BY <1>0, <1>5, <2>2, PlainNewHead DEF AddHead, WriteFails, Quiet, Safe, PlainInv
  <2> QED BY <1>5, <2>1, <2>2 DEF AddHead
<1>6. CASE AppendHead
  BY <1>0, <1>6, PlainNewHead DEF AppendHead, WriteFails, Quiet, Safe, PlainInv
<1>7. CASE AddRest \/ AppendEnd
  BY <1>0, <1>7, PlainSecondHead DEF AddRest, AppendEnd, WriteFails, Quiet, Safe, EndPlaces, PlainInv
<1>8. CASE AppendUndo
  BY <1>8 DEF AppendUndo, ChainInv, PlainInv
<1>9. CASE ClearWalk \/ ClearImage
  BY <1>0, <1>9, PlainClearWalk, PlainClearImage DEF PlainInv
<1>10. CASE EnvWalk \/ DumpWalk
  BY <1>0, <1>10, PlainEnvWalk DEF PlainInv
<1>11. CASE PowerLoss
  BY <1>0, <1>11, PlainPowerLoss DEF PlainInv
<1>12. CASE UNCHANGED vars
  <2>1. View' = View
    BY <1>12 DEF vars, regs, View, Unfinished, Pending, ItemEnd
  <2>2. KeyInv' /\ MergeInv'
    BY <1>12, <2>1 DEF vars, regs, PlainInv, KeyInv, MergeInv, Lacks, Before
  <2> QED BY <1>0, <2>2 DEF PlainInv
<1> QED
  BY <1>1, <1>2, <1>3, <1>4, <1>5, <1>6, <1>7, <1>8, <1>9, <1>10, <1>11, <1>12
  DEF Next, Step

LEMMA ViewWalk ==
    ASSUME PlainInv, eeprom[0] = Magic
    PROVE  Walk(View) = heads /\ View \in Mem /\ IsChain(View, heads)
<1>1. IsChain(View, heads)
  BY DEF PlainInv, ChainInv, Chained, Unused
<1>2. View \in Mem
  BY ViewType DEF PlainInv
<1> QED BY <1>1, <1>2, WalkChain

\* add_item deletes the key before it stores it: no key is in the chain twice,
\* while reading works and power is not lost in the initialisation, in
\* del_item's write or between two headers.
THEOREM KeysOnce == ASSUME Quiet PROVE Spec => []NoDuplicates
<1>1. PlainInv => NoDuplicates
  BY ViewWalk DEF PlainInv, KeyInv, Once, NoDuplicates
<1>2. Init => PlainInv
  BY TypeInit, ChainInit, PlainInit DEF PlainInv
<1> QED BY <1>1, <1>2, PlainStep, PTL DEF Spec

\* del_item merges what it frees with the free items on both sides, under the
\* same conditions.
THEOREM FreeInOnePiece == ASSUME Quiet PROVE Spec => []Coalesced
<1>1. PlainInv => Coalesced
  BY ViewWalk DEF PlainInv, MergeInv, Merged, Coalesced
<1>2. Init => PlainInv
  BY TypeInit, ChainInit, PlainInit DEF PlainInv
<1> QED BY <1>1, <1>2, PlainStep, PTL DEF Spec

-----------------------------------------------------------------------------
(* What a search finds.                                                    *)

\* The data of the items with key k in the chain S.
Holds(mem, S, k) == { DataAt(mem, o) : o \in { p \in S : KeyAt(mem, p) = k } }

LEMMA SmallRest == ASSUME NEW n \in Nat, NEW m \in Nat, n < m PROVE n % m = n
<1>1. n = m * (n \div m) + (n % m) /\ n \div m \in Nat /\ n % m \in 0 .. m - 1
  OBVIOUS
<1>2. CASE n \div m = 0
  <2>1. m * 0 = 0
    OBVIOUS
  <2> QED BY <1>1, <1>2, <2>1
<1>3. CASE n \div m >= 1
  <2>1. m * (n \div m) >= m
    BY <1>1, <1>3
  <2> QED BY <1>1, <2>1
<1> QED BY <1>1, <1>2, <1>3

LEMMA FirstIs == ASSUME NEW o \in Nat PROVE FirstOf({o}) = o
BY DEF FirstOf

LEMMA StoredHolds ==
    ASSUME NEW mem \in Mem, NEW S, IsChain(mem, S), Once(mem, S), mem[0] = Magic
    PROVE  Stored(mem) = [k \in Keys |-> Holds(mem, S, k)]
<1>1. Walk(mem) = S /\ S \subseteq Nat
  BY WalkChain, ChainFacts
<1> DEFINE At(k) == { o \in S : KeyAt(mem, o) = k }
<1>2. \A k \in Keys : Holds(mem, S, k) = IF At(k) = {} THEN {} ELSE {DataAt(mem, FirstOf(At(k)))}
  <2> TAKE k \in Keys
  <2>1. CASE At(k) = {}
    BY <2>1 DEF Holds
  <2>2. CASE At(k) # {}
    <3>1. PICK o \in S : KeyAt(mem, o) = k
      BY <2>2
    <3>2. At(k) = {o}
      BY <3>1 DEF Once
    <3>3. FirstOf(At(k)) = o
      BY <1>1, <3>1, <3>2, FirstIs
    <3>4. Holds(mem, S, k) = {DataAt(mem, o)}
      BY <3>2 DEF Holds
    <3> QED BY <2>2, <3>3, <3>4
  <2> QED BY <2>1, <2>2
<1>3. Stored(mem) = [k \in Keys |-> IF At(k) = {} THEN {} ELSE {DataAt(mem, FirstOf(At(k)))}]
  BY <1>1 DEF Stored
<1> HIDE DEF At
<1> QED BY <1>2, <1>3

LEMMA StoredNone ==
    ASSUME NEW mem, mem[0] # Magic
    PROVE  Stored(mem) = [k \in Keys |-> {}]
BY DEF Stored

\* The cells of an item's data are between its header and the next one.
LEMMA DataCells ==
    ASSUME NEW mem \in Mem, NEW S, IsChain(mem, S), NEW o \in S, KeyAt(mem, o) # End
    PROVE  /\ LenAt(mem, o) \in Nat
           /\ DataAt(mem, o) = [i \in 1 .. LenAt(mem, o) |-> mem[o + 1 + i]]
           /\ \A i \in 1 .. LenAt(mem, o) :
                 o + 1 + i \in Addr /\ o + 1 < o + 1 + i /\ o + 1 + i < NextOf(mem, o)
<1>1. /\ o \in Nat /\ Size \in Nat /\ HeadSize = 2 /\ LenAt(mem, o) \in Nat
      /\ NextOf(mem, o) \in Nat /\ NextOf(mem, o) < Size
  <2>1. o \in Nat /\ LenAt(mem, o) \in Nat /\ NextOf(mem, o) \in S
    BY ChainFacts
  <2>2. NextOf(mem, o) \in Nat /\ NextOf(mem, o) + HeadSize < Size
    BY <2>1, ChainFacts
  <2> QED BY <2>1, <2>2, Sizes DEF HeadSize
<1> DEFINE n == LenAt(mem, o)
<1>2. n \in Nat /\ NextOf(mem, o) = o + HeadSize + n
  BY <1>1 DEF NextOf
<1> HIDE DEF n
<1>3. \A i \in 1 .. n : o + 1 + i \in Addr /\ o + 1 < o + 1 + i /\ o + 1 + i < NextOf(mem, o)
  BY <1>1, <1>2 DEF Addr
<1>4. \A i \in 1 .. n : (o + HeadSize + i - 1) % Size = o + 1 + i
  <2> TAKE i \in 1 .. n
  <2>1. o + HeadSize + i - 1 = o + 1 + i /\ o + 1 + i \in Nat /\ o + 1 + i < Size
    BY <1>1, <1>2
  <2> QED BY <1>1, <2>1, SmallRest
<1>5. DataAt(mem, o) = [i \in 1 .. n |-> mem[(o + HeadSize + i - 1) % Size]]
  BY DEF DataAt, n
<1>6. DataAt(mem, o) = [i \in 1 .. n |-> mem[o + 1 + i]]
  BY <1>4, <1>5
<1> QED BY <1>1, <1>3, <1>6 DEF n

\* The data stay where nothing is written over them.
LEMMA SameData ==
    ASSUME NEW mem \in Mem, NEW S, IsChain(mem, S), NEW o \in S, KeyAt(mem, o) # End,
           NEW new \in Mem, NEW T, IsChain(new, T), o \in T, SameItem(mem, new, o),
           \A c \in Addr : o + 1 < c /\ c < NextOf(mem, o) => new[c] = mem[c]
    PROVE  DataAt(new, o) = DataAt(mem, o)
<1>1. KeyAt(new, o) # End /\ LenAt(new, o) = LenAt(mem, o)
  BY DEF SameItem
<1>2. /\ DataAt(mem, o) = [i \in 1 .. LenAt(mem, o) |-> mem[o + 1 + i]]
      /\ DataAt(new, o) = [i \in 1 .. LenAt(mem, o) |-> new[o + 1 + i]]
      /\ \A i \in 1 .. LenAt(mem, o) : new[o + 1 + i] = mem[o + 1 + i]
  BY <1>1, DataCells
<1> QED BY <1>2

\* Items that come, go or change are none with key k.
LEMMA HoldsSame ==
    ASSUME NEW mem, NEW new, NEW S, NEW T, NEW k,
           \A o \in S : KeyAt(mem, o) = k => o \in T /\ KeyAt(new, o) = k,
           \A o \in T : KeyAt(new, o) = k => o \in S /\ KeyAt(mem, o) = k /\ DataAt(new, o) = DataAt(mem, o)
    PROVE  Holds(new, T, k) = Holds(mem, S, k)
<1>1. { o \in T : KeyAt(new, o) = k } = { o \in S : KeyAt(mem, o) = k }
  OBVIOUS
<1>2. \A o \in { p \in S : KeyAt(mem, p) = k } : DataAt(new, o) = DataAt(mem, o)
  OBVIOUS
<1> QED BY <1>1, <1>2 DEF Holds

LEMMA HoldsOne ==
    ASSUME NEW mem, NEW S, Once(mem, S), NEW o \in S, KeyAt(mem, o) \in Keys
    PROVE  Holds(mem, S, KeyAt(mem, o)) = {DataAt(mem, o)}
<1>1. { p \in S : KeyAt(mem, p) = KeyAt(mem, o) } = {o}
  BY DEF Once
<1> QED BY <1>1 DEF Holds

-----------------------------------------------------------------------------
(* A step of the database as a step of KeyStore.                           *)

RestInv == MagicInv /\ DataInv /\ ClearInv /\ AnswerInv
StoreInv == PlainInv /\ RestInv

\* What KeyStore sees of clear_eeprom.
Asked == IF cmd = "clear" THEN Ethaddr ELSE key
AskedData == IF cmd = "clear" THEN <<>> ELSE data
WasHeld == [k \in {Ethaddr, Prodnum} |-> IF kept[k] = <<>> THEN {} ELSE {kept[k]}]
Was == IF cmd = "clear" /\ BeforeImage THEN [k \in {Ethaddr, Prodnum} |-> Stored(eeprom)[k]]
       ELSE WasHeld

LEMMA KSVars == KS!vars = <<Stored(View), pc # "idle", cmd, Asked, AskedData, Was, rc, out>>
BY DEF KS!vars, Asked, AskedData, Was, WasHeld

LEMMA Going ==
    ASSUME pc # "idle", pc' # "idle", UNCHANGED <<cmd, rc, out>>,
           cmd # "clear" => UNCHANGED <<key, data>>, Was' = Was,
           Stored(View)' = Stored(View) \/ KS!Change
    PROVE  [KS!Next]_(KS!vars)
<1>1. UNCHANGED <<pc # "idle", cmd, Asked, AskedData, Was, rc, out>>
  BY DEF Asked, AskedData
<1>2. CASE Stored(View)' = Stored(View)
  BY <1>1, <1>2, KSVars DEF KS!vars, Asked, AskedData, Was, WasHeld
<1>3. CASE KS!Change
  BY <1>1, <1>3 DEF KS!Next, KS!Work, Asked, AskedData, Was, WasHeld
<1> QED BY <1>2, <1>3

LEMMA Answered ==
    ASSUME pc # "idle", pc' = "idle", UNCHANGED <<cmd, key, data>>, Was' = Was,
           Stored(View)' = Stored(View) \/ KS!Change,
           \/ rc' = "ok" /\ KS!Done
           \/ rc' = "failed" /\ out' = {}
           \/ rc' = "no such key" /\ out' = {} /\ Stored(View)[Asked] = {}
    PROVE  [KS!Next]_(KS!vars)
<1>1. UNCHANGED <<cmd, Asked, AskedData, Was>>
  BY DEF Asked, AskedData
<1> QED BY <1>1 DEF KS!Next, KS!Answer, Asked, AskedData, Was, WasHeld

LEMMA Asks ==
    ASSUME pc = "idle", pc' # "idle", cmd' \in AllCommands, Asked' \in Keys,
           AskedData' \in Values \cup {<<>>}, rc' = "none", out' = {},
           Was' = IF cmd' = "clear" THEN [k \in {Ethaddr, Prodnum} |-> Stored(View)[k]] ELSE KS!Nothing,
           Stored(View)' = Stored(View)
    PROVE  [KS!Next]_(KS!vars)
BY DEF KS!Next, KS!Ask, Asked, AskedData, Was, WasHeld, AllCommands

LEMMA Loses ==
    ASSUME pc # "idle", pc' = "idle", cmd' = "none", key' = Null, data' = <<>>, kept' = NoCopy,
           rc' = "none", out' = {}, Stored(View)' = Stored(View) \/ KS!Change
    PROVE  [KS!Next]_(KS!vars)
<1>1. Was' = KS!Nothing
  BY DEF Was, WasHeld, KS!Nothing, NoCopy
<1> QED BY <1>1 DEF KS!Next, KS!PowerLoss, Asked, AskedData, Was, WasHeld, Null

LEMMA PutChange ==
    ASSUME cmd \in {"add", "eepromadd", "clear"}, cmd = "clear" => key \in {Ethaddr, Prodnum} /\ data = kept[key] /\ ~BeforeImage,
           Stored(View)' = [Stored(View) EXCEPT ![key] = {data}]
    PROVE  KS!Change
<1>1. CASE cmd # "clear"
  BY <1>1 DEF KS!Change, KS!Put
<1>2. CASE cmd = "clear"
  <2>1. Was = WasHeld /\ Was[key] = IF kept[key] = <<>> THEN {} ELSE {kept[key]}
    BY <1>2 DEF Was, WasHeld
  <2>2. KS!Restored(key) = {data}
    BY <1>2, <2>1 DEF KS!Restored, Was, WasHeld
  <2>3. KS!Restore
    BY <1>2, <2>2 DEF KS!Restore
  <2> QED BY <2>3 DEF KS!Change
<1> QED BY <1>1, <1>2

LEMMA ForgetChange ==
    ASSUME cmd \in {"add", "eepromadd", "del"}, Stored(View)' = [Stored(View) EXCEPT ![key] = {}]
    PROVE  KS!Change
BY DEF KS!Change, KS!Forget

LEMMA WipeChange ==
    ASSUME cmd = "clear", Stored(View)' = [k \in Keys |-> {}]
    PROVE  KS!Change
BY DEF KS!Change, KS!Wipe

-----------------------------------------------------------------------------
(* The steps before the walks.                                             *)

LEMMA StoreIs ==
    ASSUME PlainInv, MagicInv
    PROVE  /\ View[0] = eeprom[0]
           /\ Stored(View) = [k \in Keys |-> IF eeprom[0] = Magic THEN Holds(View, heads, k) ELSE {}]
<1>1. View[0] = eeprom[0]
  BY ViewIs DEF MagicInv
<1>2. CASE eeprom[0] = Magic
  <2>1. IsChain(View, heads) /\ View \in Mem /\ Once(View, heads)
    BY <1>2, ViewWalk DEF PlainInv, KeyInv
  <2> QED BY <1>1, <1>2, <2>1, StoredHolds
<1>3. CASE eeprom[0] # Magic
  BY <1>1, <1>3, StoredNone
<1> QED BY <1>1, <1>2, <1>3

\* Where an operation has come further than the walks of an unused device, it
\* has a chain and its magic.
LEMMA MagicThere ==
    ASSUME PlainInv, MagicInv, pc \notin {"idle", "magic", "initEnd", "initMagic", "delWalk", "addSearch"}
    PROVE  eeprom[0] = Magic
BY DEF MagicInv, Unused

LEMMA StillStore ==
    ASSUME UNCHANGED eeprom, pc \notin EndPlaces, pc' \notin EndPlaces
    PROVE  View = eeprom /\ View' = eeprom /\ Stored(View)' = Stored(View) /\ Stored(eeprom)' = Stored(eeprom)
<1>1. View = eeprom /\ View' = eeprom'
  BY ViewIs DEF View, Unfinished, EndPlaces
<1> QED BY <1>1

LEMMA StillMagic ==
    ASSUME PlainInv, MagicInv, PlainInv', UNCHANGED <<eeprom, heads>>,
           pc \notin EndPlaces \cup {"initMagic"}, pc' \notin EndPlaces \cup {"initMagic"},
           pc' = "initEnd" => eeprom[0] # Magic
    PROVE  MagicInv'
<1>1. CASE eeprom[0] = Magic
  BY <1>1 DEF MagicInv
<1>2. CASE Unused
  <2>1. ~ IsChain(View', heads')
    <3>1. View' = eeprom
      BY StillStore
    <3>2. heads' = {MagicSize} /\ KeyAt(eeprom, MagicSize) # End
      BY <1>2, DbCells, Sizes DEF Unused, End
    <3> QED BY <3>1, <3>2 DEF IsChain
  <2>2. Unused'
    BY <2>1 DEF PlainInv, ChainInv, Chained
  <2> QED BY <2>2 DEF MagicInv
<1> QED BY <1>1, <1>2 DEF MagicInv

KSStep == [KS!Next]_(KS!vars)

LEMMA StoreStart ==
    ASSUME Quiet, StoreInv, PlainInv', NEW c \in Commands, NEW k \in Keys,
           NEW d \in Values \cup {<<>>}, Start(c, k, d)
    PROVE  RestInv' /\ KSStep
<1>1. /\ pc = "idle" /\ UNCHANGED <<eeprom, heads>> /\ cmd' = c /\ rc' = "none" /\ out' = {}
      /\ kept' = NoCopy /\ key' = k /\ data' = d
      /\ IF c = "eepromadd" THEN pc' = "delWalk" ELSE pc' = "magic"
      /\ c = "clear" => k = Ethaddr
  BY DEF Start, Enter
<1>2. View' = eeprom /\ View = eeprom /\ Stored(View)' = Stored(View) /\ Stored(eeprom)' = Stored(View)
  BY <1>1, StillStore DEF EndPlaces
<1>3. MagicInv'
  BY <1>1, StillMagic DEF StoreInv, RestInv, EndPlaces
<1>4. DataInv'
  BY <1>1 DEF DataInv, EndPlaces
<1>5. ClearInv'
  BY <1>1 DEF ClearInv, StartPlaces, ItemPlaces, DelPlaces, AddPlaces, EndPlaces
<1>6. AnswerInv'
  BY <1>1 DEF AnswerInv, NoSpuriousFailure
<1>7. Was' = IF c = "clear" THEN [p \in {Ethaddr, Prodnum} |-> Stored(View)[p]] ELSE KS!Nothing
  <2>1. c = "clear" => BeforeImage'
    BY <1>1 DEF BeforeImage
  <2>2. WasHeld' = KS!Nothing
    BY <1>1 DEF WasHeld, NoCopy, KS!Nothing
  <2> QED BY <1>1, <1>2, <2>1, <2>2 DEF Was
<1>8. KSStep
  <2>1. Asked' \in Keys /\ AskedData' \in Values \cup {<<>>} /\ cmd' \in AllCommands
    BY <1>1, DbConstants DEF Asked, AskedData
  <2> QED BY <1>1, <1>2, <1>7, <2>1, Asks DEF KSStep
<1> QED BY <1>3, <1>4, <1>5, <1>6, <1>8 DEF RestInv

LEMMA DispatchClear ==
    ASSUME StoreInv, PlainInv', Dispatch, pc \in StartPlaces
    PROVE  DataInv' /\ ClearInv' /\ AnswerInv'
<1>1. /\ pc' \in {"delWalk", "clrWalk", "envWalk", "dumpWalk"} /\ off' = MagicSize
      /\ pc' = "clrWalk" => cmd = "clear"
      /\ pc' = "delWalk" => cmd # "clear"
      /\ UNCHANGED <<cmd, key, data, kept, rc, out>>
  <2>1. cmd \in AllCommands \ {"eepromadd"}
    BY DEF StoreInv, PlainInv, TypeInv, CmdInv
  <2> QED BY <2>1 DEF Dispatch, AllCommands
<1>2. DataInv'
  BY <1>1 DEF DataInv, EndPlaces
<1>3. ClearInv'
  <2>1. pc' = "clrWalk" => kept' = NoCopy
    BY <1>1 DEF StoreInv, RestInv, ClearInv
  <2>2. \A o \in heads' : ~ (o < off')
    BY <1>1, FirstHead DEF PlainInv
  <2>3. pc' = "clrWalk" => Copied(off)'
    BY <1>1, <2>1, <2>2 DEF Copied, Before, Lacks, NoCopy
  <2> QED BY <1>1, <2>3 DEF ClearInv, StartPlaces, ItemPlaces, DelPlaces, AddPlaces, EndPlaces
<1>4. AnswerInv'
  <2>1. (pc' = "envWalk" => cmd = "toenv") /\ (pc' = "dumpWalk" => cmd = "dump")
    BY DEF Dispatch, StoreInv, PlainInv, TypeInv, CmdInv, AllCommands
  <2> QED BY <1>1, <2>1 DEF StoreInv, RestInv, AnswerInv, NoSpuriousFailure, StartPlaces
<1> QED BY <1>2, <1>3, <1>4

LEMMA WasSame ==
    ASSUME UNCHANGED <<cmd, kept>>,
           cmd = "clear" => BeforeImage' = BeforeImage /\ (BeforeImage => Stored(eeprom)' = Stored(eeprom))
    PROVE  Was' = Was
BY DEF Was, WasHeld

LEMMA StoreReadMagic ==
    ASSUME Quiet, StoreInv, PlainInv', ReadMagic
    PROVE  RestInv' /\ KSStep
<1>1. /\ pc = "magic" /\ UNCHANGED <<eeprom, heads, cmd, key, data, kept, rc, out>>
      /\ \/ Dispatch
         \/ pc' = "initEnd" /\ eeprom[0] # Magic
      /\ pc' \in {"delWalk", "clrWalk", "envWalk", "dumpWalk", "initEnd"}
      /\ pc' \in {"delWalk", "envWalk", "dumpWalk"} => cmd # "clear"
  <2>1. cmd \in AllCommands \ {"eepromadd"} /\ pc = "magic"
    BY DEF ReadMagic, StoreInv, PlainInv, TypeInv, CmdInv, StartPlaces
  <2> QED BY <2>1 DEF ReadMagic, Quiet, Dispatch, AllCommands, regs
<1>2. Stored(View)' = Stored(View) /\ Stored(eeprom)' = Stored(eeprom)
  BY <1>1, StillStore DEF EndPlaces
<1>3. MagicInv'
  <2>1. pc' = "initEnd" => eeprom[0] # Magic
    BY <1>1 DEF Dispatch, StoreInv, PlainInv, TypeInv, CmdInv, StartPlaces, AllCommands
  <2> QED BY <1>1, <2>1, StillMagic DEF StoreInv, RestInv, EndPlaces
<1>4. DataInv' /\ ClearInv' /\ AnswerInv'
  <2>1. CASE Dispatch
    BY <1>1, <2>1, DispatchClear DEF StartPlaces
  <2>2. CASE pc' = "initEnd"
    BY <1>1, <2>2 DEF StoreInv, RestInv, DataInv, ClearInv, AnswerInv, NoSpuriousFailure,
                      StartPlaces, ItemPlaces, DelPlaces, AddPlaces, EndPlaces
  <2> QED BY <1>1, <2>1, <2>2
<1>5. Was' = Was
  <2>1. cmd = "clear" => BeforeImage /\ BeforeImage'
    BY <1>1 DEF BeforeImage
  <2> QED BY <1>1, <1>2, <2>1, WasSame
<1>6. KSStep
  BY <1>1, <1>2, <1>5, Going DEF KSStep
<1> QED BY <1>3, <1>4, <1>6 DEF RestInv

LEMMA StoreInitEnd ==
    ASSUME Quiet, StoreInv, PlainInv', InitEnd
    PROVE  RestInv' /\ KSStep
<1>1. /\ pc = "initEnd" /\ pc' = "initMagic" /\ WriteDone /\ heads' = {MagicSize}
      /\ UNCHANGED <<cmd, key, data, kept, rc, out>>
      /\ eeprom \in Mem /\ MagicSize = 1 /\ End = 1 /\ HeadSize = 2 /\ eeprom[0] # Magic
  BY Facts DEF InitEnd, WriteFails, Quiet, Safe, StoreInv, PlainInv, RestInv, MagicInv, Unused, regs
<1>2. /\ eeprom' = Written(eeprom, MagicSize, Header(End, 0), HeadSize)
      /\ MagicSize \in Nat /\ MagicSize + HeadSize <= Size /\ End \in Nat /\ 0 \in Nat
  <2>1. MagicSize \in Nat /\ MagicSize + HeadSize <= Size /\ End \in Nat /\ 0 \in Nat
    BY <1>1, Sizes
  <2>2. Pending = [at |-> MagicSize, cells |-> Header(End, 0)]
    BY <1>1, PendingIs
  <2>3. Len(Header(End, 0)) = HeadSize
    BY <2>1, HeaderSeq
  <2> QED BY <1>1, <2>1, <2>2, <2>3 DEF WriteDone
<1>3. eeprom'[MagicSize] = End /\ eeprom'[0] = eeprom[0]
  <2>1. 0 \in Addr /\ 0 # MagicSize /\ 0 # MagicSize + 1
    BY <1>1, Sizes DEF Addr
  <2> DEFINE new == eeprom'
  <2>2. new = Written(eeprom, MagicSize, Header(End, 0), HeadSize)
    BY <1>2
  <2> HIDE DEF new
  <2>3. new[MagicSize] = End /\ \A c \in Addr : c # MagicSize /\ c # MagicSize + 1 => new[c] = eeprom[c]
    <3>1. eeprom \in Mem /\ MagicSize \in Nat /\ MagicSize + HeadSize <= Size /\ End \in Nat /\ 0 \in Nat
      BY <1>1, <1>2
    <3> QED BY ONLY <2>2, <3>1, WrittenHeader
  <2> QED BY <2>1, <2>3 DEF new
<1>4. View = eeprom /\ View' = eeprom'
  BY <1>1, ViewIs DEF View, Unfinished, EndPlaces
<1>5. Stored(eeprom)' = Stored(eeprom)
  BY <1>1, <1>3, StoredNone
<1>6. MagicInv'
  BY <1>1, <1>3 DEF MagicInv, EndPlaces, KeyAt
<1>7. DataInv' /\ ClearInv' /\ AnswerInv'
  BY <1>1 DEF StoreInv, RestInv, DataInv, ClearInv, AnswerInv, NoSpuriousFailure,
              StartPlaces, ItemPlaces, DelPlaces, AddPlaces, EndPlaces
<1>8. Was' = Was
  BY <1>1, <1>5, WasSame DEF BeforeImage
<1>9. KSStep
  BY <1>1, <1>4, <1>5, <1>8, Going DEF KSStep
<1> QED BY <1>6, <1>7, <1>9 DEF RestInv

LEMMA StoreInitMagic ==
    ASSUME Quiet, StoreInv, PlainInv', InitMagic
    PROVE  RestInv' /\ KSStep
<1>1. /\ pc = "initMagic" /\ Dispatch /\ WriteDone /\ UNCHANGED heads
      /\ eeprom \in Mem /\ eeprom[0] # Magic /\ KeyAt(eeprom, MagicSize) = End
      /\ heads = {MagicSize} /\ UNCHANGED <<cmd, key, data, kept, rc, out>>
      /\ pc' \in {"delWalk", "clrWalk", "envWalk", "dumpWalk"}
      /\ pc' # "clrWalk" => cmd # "clear"
  <2>1. cmd \in AllCommands \ {"eepromadd"} /\ pc = "initMagic"
    BY DEF InitMagic, StoreInv, PlainInv, TypeInv, CmdInv, StartPlaces
  <2>2. Dispatch /\ WriteDone /\ UNCHANGED heads /\ eeprom \in Mem
    BY Facts DEF InitMagic, WriteFails, Quiet, Safe, StoreInv, PlainInv
  <2>3. eeprom[0] # Magic /\ KeyAt(eeprom, MagicSize) = End /\ heads = {MagicSize}
    BY <2>1 DEF StoreInv, RestInv, MagicInv, Unused
  <2> QED BY <2>1, <2>2, <2>3 DEF Dispatch, AllCommands
<1>2. eeprom' = Written(eeprom, 0, <<Magic>>, 1)
  <2>1. Len(<<Magic>>) = 1
    OBVIOUS
  <2>2. Pending = [at |-> 0, cells |-> <<Magic>>]
    BY <1>1, PendingIs
  <2> QED BY <1>1, <2>1, <2>2 DEF WriteDone
<1>3. eeprom'[0] = Magic /\ eeprom'[MagicSize] = eeprom[MagicSize]
  <2>1. 0 \in Addr /\ MagicSize \in Addr /\ MagicSize = 1 /\ 0 \in Nat /\ 1 \in Nat /\ 0 + 1 <= Size
    BY Sizes DEF Addr, MagicSize
  <2> DEFINE one == <<Magic>>
  <2>2. one[1] = Magic /\ eeprom' = Written(eeprom, 0, one, 1)
    BY <1>2
  <2> HIDE DEF one
  <2>3. \A c \in Addr : eeprom'[c] = IF 0 <= c /\ c < 0 + 1 THEN one[c - 0 + 1] ELSE eeprom[c]
    BY <1>1, <2>1, <2>2, WrittenCell
  <2> QED BY <2>1, <2>2, <2>3
<1>4. View = eeprom /\ View' = eeprom' /\ eeprom' \in Mem
  <2>1. eeprom' \in Mem
    BY HeadsNext DEF PlainInv
  <2> QED BY <1>1, <2>1, ViewIs DEF View, Unfinished, EndPlaces
<1>5. Stored(eeprom') = [k \in Keys |-> {}]
  <2> DEFINE new == eeprom'
             S == heads'
  <2>1. IsChain(new, S) /\ Once(new, S) /\ S = {MagicSize} /\ KeyAt(new, MagicSize) = End
        /\ new[0] = Magic /\ new \in Mem
    BY <1>1, <1>3, <1>4 DEF PlainInv, ChainInv, Chained, Unused, KeyInv, KeyAt
  <2> HIDE DEF new, S
  <2>2. \A k \in Keys : Holds(new, S, k) = {}
    BY <2>1, Sizes DEF Holds
  <2>3. Stored(new) = [k \in Keys |-> {}]
    BY <2>1, <2>2, StoredHolds
  <2> QED BY <2>3 DEF new
<1>6. Stored(eeprom)' = Stored(eeprom)
  BY <1>1, <1>5, StoredNone
<1>7. MagicInv'
  BY <1>1, <1>3 DEF MagicInv, EndPlaces
<1>8. DataInv' /\ ClearInv' /\ AnswerInv'
  BY <1>1, DispatchClear DEF StartPlaces
<1>9. Was' = Was
  <2>1. cmd = "clear" => BeforeImage /\ BeforeImage'
    BY <1>1 DEF BeforeImage
  <2> QED BY <1>1, <1>6, <2>1, WasSame
<1>10. KSStep
  BY <1>1, <1>4, <1>6, <1>9, Going DEF KSStep
<1> QED BY <1>7, <1>8, <1>10 DEF RestInv

-----------------------------------------------------------------------------
(* The walks.                                                              *)

LEMMA ReturnRest ==
    ASSUME StoreInv, MagicInv', NEW code, Return(code), pc # "idle",
           pc' = "idle" => NoSpuriousFailure',
           pc' # "idle" => Stored(View)' = [k \in Keys |-> IF k = Ethaddr THEN {kept[Ethaddr]} ELSE {}]
    PROVE  RestInv'
<1>1. rc = "none" /\ out = {} /\ Ethaddr # Prodnum
  BY DbConstants DEF StoreInv, RestInv, AnswerInv
<1>2. CASE cmd = "clear" /\ key = Ethaddr /\ ~BeforeDispatch /\ pc # "clrWalk"
  <2>1. Enter(Prodnum, kept[Prodnum]) /\ UNCHANGED <<cmd, kept, rc, out>>
    BY <1>2 DEF Return
  <2>2. pc' = "delWalk" /\ key' = Prodnum /\ data' = kept[Prodnum]
    BY <2>1 DEF Enter
  <2>3. DataInv' /\ AnswerInv'
    BY <1>1, <1>2, <2>1, <2>2 DEF DataInv, AnswerInv, NoSpuriousFailure, EndPlaces
  <2>4. Back' = {Ethaddr}
    BY <1>1, <2>2 DEF Back, EndPlaces
  <2>5. ClearInv'
    BY <2>1, <2>2, <2>4 DEF ClearInv, StartPlaces
  <2> QED BY <2>3, <2>5 DEF RestInv
<1>3. CASE ~ (cmd = "clear" /\ key = Ethaddr /\ ~BeforeDispatch /\ pc # "clrWalk")
  <2>1. pc' = "idle" /\ UNCHANGED <<cmd, key, data, kept, out>>
    BY <1>3 DEF Return
  <2>2. DataInv' /\ ClearInv' /\ AnswerInv'
    BY <1>1, <2>1 DEF DataInv, ClearInv, AnswerInv, StartPlaces, ItemPlaces, DelPlaces, AddPlaces, EndPlaces
  <2> QED BY <2>2 DEF RestInv
<1> QED BY <1>2, <1>3

\* A walk of add_item or del_item that goes on.
LEMMA ItemStill ==
    ASSUME StoreInv, PlainInv', UNCHANGED <<eeprom, heads, cmd, key, data, kept, rc, out>>,
           pc \in DelPlaces \cup AddPlaces, pc' \in DelPlaces \cup AddPlaces,
           pc' \in {"fitHead", "splitHead", "appHead"} => data = <<>>
    PROVE  RestInv' /\ KSStep
<1>1. View' = View /\ Stored(View)' = Stored(View) /\ Stored(eeprom)' = Stored(eeprom)
  BY StillStore DEF DelPlaces, AddPlaces, EndPlaces
<1>2. MagicInv'
  BY StillMagic DEF StoreInv, RestInv, DelPlaces, AddPlaces, EndPlaces
<1>3. DataInv'
  BY DEF DataInv, DelPlaces, AddPlaces, EndPlaces
<1>4. Back' = Back
  BY DEF Back, DelPlaces, AddPlaces, EndPlaces
<1>5. ClearInv'
  <2>1. cmd = "clear" => /\ data = kept[key]
                         /\ Stored(View) = [k \in Keys |-> IF k \in Back THEN {kept[k]} ELSE {}]
    BY DEF StoreInv, RestInv, ClearInv, ItemPlaces
  <2>2. pc' \notin StartPlaces \cup {"clrWalk", "clrImage"}
    BY DEF StartPlaces, DelPlaces, AddPlaces
  <2> QED BY <1>1, <1>4, <2>1, <2>2 DEF ClearInv
<1>6. pc # "idle" /\ pc' # "idle"
  BY DEF DelPlaces, AddPlaces
<1>7. AnswerInv'
  BY <1>6 DEF StoreInv, RestInv, AnswerInv, NoSpuriousFailure, DelPlaces, AddPlaces
<1>8. Was' = Was
  BY WasSame DEF BeforeImage, DelPlaces, AddPlaces
<1>9. KSStep
  BY <1>1, <1>6, <1>8, Going DEF KSStep
<1> QED BY <1>2, <1>3, <1>5, <1>7, <1>9 DEF RestInv

LEMMA LacksNone ==
    ASSUME StoreInv, pc \notin EndPlaces, NEW k \in Keys, \A o \in heads : KeyAt(eeprom, o) # k
    PROVE  Stored(eeprom)[k] = {}
<1>1. View = eeprom
  BY ViewIs
<1>2. Stored(eeprom) = [p \in Keys |-> IF eeprom[0] = Magic THEN Holds(eeprom, heads, p) ELSE {}]
  BY <1>1, StoreIs DEF StoreInv, RestInv
<1>3. Holds(eeprom, heads, k) = {}
  BY DEF Holds
<1> QED BY <1>2, <1>3

\* An operation that fails, with the device as it was.
LEMMA FailRest ==
    ASSUME StoreInv, PlainInv', UNCHANGED <<eeprom, heads>>, Return("failed"), cmd # "clear",
           pc \in {"delWalk", "addSearch"}, NoSpuriousFailure'
    PROVE  RestInv' /\ KSStep
<1>1. /\ pc' = "idle" /\ UNCHANGED <<cmd, key, data, kept, out>> /\ rc' = "failed"
      /\ out = {} /\ pc # "idle"
  BY DEF Return, StoreInv, RestInv, AnswerInv
<1>2. Stored(View)' = Stored(View)
  BY <1>1, StillStore DEF EndPlaces
<1>3. MagicInv'
  BY <1>1, StillMagic DEF StoreInv, RestInv, EndPlaces
<1>4. RestInv'
  BY <1>1, <1>3, ReturnRest
<1>5. Was' = Was
  BY <1>1, WasSame
<1>6. KSStep
  BY <1>1, <1>2, <1>5, Answered DEF KSStep
<1> QED BY <1>4, <1>6

LEMMA StoreDelWalk ==
    ASSUME Quiet, StoreInv, PlainInv', DelWalk
    PROVE  RestInv' /\ KSStep
<1>1. /\ pc = "delWalk" /\ UNCHANGED <<eeprom, heads>> /\ ReadErrors = FALSE /\ key \in Keys
  BY DEF DelWalk, Quiet, StoreInv, PlainInv, TypeInv, CmdInv, DelPlaces
<1>2. CASE ~InRange(off) /\ DelReturn("failed") /\ cmd = "del"
  <2>1. Return("failed") /\ UNCHANGED <<cmd, key>>
    BY <1>2 DEF DelReturn, Return
  <2>2. Stored(eeprom)[key] = {}
    BY <1>1, <1>2, NotThere, LacksNone DEF StoreInv, EndPlaces
  <2>3. NoSpuriousFailure'
    BY <1>1, <1>2, <2>1, <2>2 DEF NoSpuriousFailure
  <2> QED BY <1>1, <1>2, <2>1, <2>3, FailRest
<1>3. CASE DelReturn("failed") /\ cmd # "del"
  BY <1>1, <1>3, ItemStill DEF DelReturn, DelPlaces, AddPlaces
<1>4. CASE pc' = "delNext" /\ UNCHANGED <<cmd, key, data, kept, rc, out>>
  BY <1>1, <1>4, ItemStill DEF DelPlaces
<1>5. CASE UNCHANGED <<pc, cmd, key, data, kept, rc, out>>
  BY <1>1, <1>5, ItemStill DEF DelPlaces
<1> QED BY <1>1, <1>2, <1>3, <1>4, <1>5 DEF DelWalk

LEMMA StoreDelNext ==
    ASSUME Quiet, StoreInv, PlainInv', DelNext
    PROVE  RestInv' /\ KSStep
BY ItemStill DEF DelNext, DelPlaces

LEMMA StoreAddSearch ==
    ASSUME Quiet, StoreInv, PlainInv', AddSearch
    PROVE  RestInv' /\ KSStep
<1>1. /\ pc = "addSearch" /\ UNCHANGED <<eeprom, heads>> /\ ReadErrors = FALSE
  BY DEF AddSearch, Quiet
<1>2. CASE ~InRange(off) /\ Return("failed")
  <2>1. Unused
    <3>1. off \notin heads
      BY <1>2, HeadsIn DEF StoreInv, PlainInv
    <3> QED BY <1>1, <3>1 DEF StoreInv, PlainInv, ChainInv, Chained, OffInv
  <2>2. cmd = "eepromadd" /\ eeprom[0] # Magic /\ UNCHANGED cmd
    BY <1>1, <1>2, <2>1 DEF Unused, Return
  <2>3. NoSpuriousFailure'
    BY <1>1, <2>2 DEF NoSpuriousFailure
  <2> QED BY <1>1, <1>2, <2>2, <2>3, FailRest
<1>3. CASE /\ InRange(off) /\ pc' \in AddPlaces /\ UNCHANGED <<cmd, key, data, kept, rc, out>>
           /\ pc' \in {"fitHead", "splitHead", "appHead"} => data = <<>>
  BY <1>1, <1>3, ItemStill DEF AddPlaces
<1> QED BY <1>1, <1>2, <1>3 DEF AddSearch, AddPlaces, SkipsData

LEMMA StoreEnvWalk ==
    ASSUME Quiet, StoreInv, PlainInv', EnvWalk
    PROVE  RestInv' /\ KSStep
<1>1. /\ pc = "envWalk" /\ UNCHANGED <<eeprom, heads>> /\ ReadErrors = FALSE /\ off \in heads
      /\ key \in Keys /\ cmd = "toenv" /\ InRange(off) /\ rc = "none" /\ out = {}
      /\ eeprom[0] = Magic
  BY HeadsIn, MagicThere
     DEF EnvWalk, Quiet, StoreInv, PlainInv, KeyInv, RestInv, AnswerInv, TypeInv, CmdInv
<1>2. View = eeprom /\ IsChain(eeprom, heads) /\ eeprom \in Mem /\ Once(eeprom, heads)
  BY <1>1, ViewIs, ViewWalk DEF EndPlaces, StoreInv, PlainInv, KeyInv
<1>3. CASE /\ KeyAt(eeprom, off) = key /\ UNCHANGED <<cmd, key, data, kept>>
           /\ out' = {IF LenAt(eeprom, off) = 0 THEN Garbage ELSE DataAt(eeprom, off)}
           /\ pc' = "idle" /\ rc' = "ok"
  <2>1. Stored(View) = Stored(View)' /\ Stored(View)[key] = {DataAt(eeprom, off)}
    <3>1. Holds(eeprom, heads, key) = {DataAt(eeprom, off)}
      BY <1>1, <1>2, <1>3, HoldsOne
    <3>2. Stored(View) = Stored(View)'
      BY <1>1, <1>3, StillStore DEF EndPlaces
    <3> QED BY <1>1, <1>2, <3>1, <3>2, StoreIs DEF StoreInv, RestInv
  <2>2. LenAt(eeprom, off) = 0 <=> DataAt(eeprom, off) = <<>>
    <3>1. KeyAt(eeprom, off) # End
      BY <1>1, <1>3, Sizes
    <3>2. LenAt(eeprom, off) \in Nat /\ DOMAIN DataAt(eeprom, off) = 1 .. LenAt(eeprom, off)
      BY <1>1, <1>2, <3>1, DataCells
    <3>3. LenAt(eeprom, off) = 0 => DataAt(eeprom, off) = <<>>
      BY <3>2 DEF DataAt
    <3>4. DataAt(eeprom, off) = <<>> => 1 .. LenAt(eeprom, off) = {}
      BY <3>2
    <3> QED BY <3>2, <3>3, <3>4
  <2>3. KS!Done
    <3>1. {DataAt(eeprom, off)} = {<<>>} <=> DataAt(eeprom, off) = <<>>
      OBVIOUS
    <3>2. out' = IF Stored(View)[key] = {<<>>} THEN {Garbage} ELSE Stored(View)[key]
      BY <1>3, <2>1, <2>2, <3>1
    <3> QED BY <1>1, <3>2 DEF KS!Done
  <2>4. MagicInv'
    BY <1>1, <1>3, StillMagic DEF StoreInv, RestInv, EndPlaces
  <2>5. DataInv' /\ ClearInv' /\ AnswerInv'
    BY <1>1, <1>3 DEF DataInv, ClearInv, AnswerInv, NoSpuriousFailure,
                      StartPlaces, ItemPlaces, DelPlaces, AddPlaces, EndPlaces
  <2>6. Was' = Was
    BY <1>1, <1>3, WasSame
  <2>7. KSStep
    BY <1>1, <1>3, <2>1, <2>3, <2>6, Answered DEF KSStep
  <2> QED BY <2>4, <2>5, <2>7 DEF RestInv
<1>4. CASE KeyAt(eeprom, off) = End /\ Return("no such key")
  <2>1. /\ pc' = "idle" /\ UNCHANGED <<cmd, key, data, kept, out>> /\ rc' = "no such key"
    BY <1>1, <1>4 DEF Return
  <2>2. Stored(View) = Stored(View)' /\ Stored(View)[key] = {}
    <3>1. \A o \in heads : o \in Nat /\ o <= off
      BY <1>1, <1>2, <1>4, ChainFacts
    <3>2. \A o \in heads : o < off => KeyAt(eeprom, o) # key
      BY <1>1 DEF StoreInv, PlainInv, KeyInv, Lacks, Before
    <3>3. \A o \in heads : KeyAt(eeprom, o) # key
      <4>1. KeyAt(eeprom, off) # key
        BY <1>1, <1>4, Sizes
      <4>2. \A o \in heads : o < off \/ o = off
        BY <1>1, <3>1
      <4> QED BY <3>2, <4>1, <4>2
    <3>4. Stored(eeprom)[key] = {}
      BY <1>1, <3>3, LacksNone DEF EndPlaces
    <3> QED BY <1>1, <1>2, <2>1, <3>4, StillStore DEF EndPlaces
  <2>3. MagicInv'
    BY <1>1, <2>1, StillMagic DEF StoreInv, RestInv, EndPlaces
  <2>4. RestInv'
    <3>1. NoSpuriousFailure'
      BY <2>1 DEF NoSpuriousFailure
    <3> QED BY <1>1, <1>4, <2>1, <2>3, <3>1, ReturnRest
  <2>5. Was' = Was
    BY <1>1, <2>1, WasSame
  <2>6. KSStep
    <3>1. Asked = key
      BY <1>1 DEF Asked
    <3> QED BY <1>1, <2>1, <2>2, <2>5, <3>1, Answered DEF KSStep
  <2> QED BY <2>4, <2>6
<1>5. CASE UNCHANGED <<pc, cmd, key, data, kept, rc, out>>
  <2>1. Stored(View) = Stored(View)'
    BY <1>1, <1>5, StillStore DEF EndPlaces
  <2>2. MagicInv'
    BY <1>1, <1>5, StillMagic DEF StoreInv, RestInv, EndPlaces
  <2>3. DataInv' /\ ClearInv' /\ AnswerInv'
    BY <1>1, <1>5 DEF DataInv, ClearInv, AnswerInv, NoSpuriousFailure,
                      StartPlaces, ItemPlaces, DelPlaces, AddPlaces, EndPlaces
  <2>4. KSStep
    BY <1>1, <1>5, <2>1, WasSame, Going DEF KSStep
  <2> QED BY <2>2, <2>3, <2>4 DEF RestInv
<1> QED BY <1>1, <1>3, <1>4, <1>5 DEF EnvWalk

LEMMA StoreDumpWalk ==
    ASSUME Quiet, StoreInv, PlainInv', DumpWalk
    PROVE  RestInv' /\ KSStep
<1>1. /\ pc = "dumpWalk" /\ UNCHANGED <<eeprom, heads>> /\ ReadErrors = FALSE
      /\ cmd = "dump" /\ InRange(off) /\ rc = "none" /\ out = {}
  BY HeadsIn DEF DumpWalk, Quiet, StoreInv, PlainInv, KeyInv, RestInv, AnswerInv
<1>2. CASE Return("ok")
  <2>1. /\ pc' = "idle" /\ UNCHANGED <<cmd, key, data, kept, out>> /\ rc' = "ok"
    BY <1>1, <1>2 DEF Return
  <2>2. Stored(View) = Stored(View)'
    BY <1>1, <2>1, StillStore DEF EndPlaces
  <2>3. MagicInv'
    BY <1>1, <2>1, StillMagic DEF StoreInv, RestInv, EndPlaces
  <2>4. RestInv'
    BY <1>1, <1>2, <2>1, <2>3, ReturnRest DEF NoSpuriousFailure
  <2>5. KS!Done
    BY <1>1, <2>1 DEF KS!Done
  <2>6. KSStep
    BY <1>1, <2>1, <2>2, <2>5, WasSame, Answered DEF KSStep
  <2> QED BY <2>4, <2>6
<1>3. CASE UNCHANGED <<pc, cmd, key, data, kept, rc, out>>
  <2>1. Stored(View) = Stored(View)'
    BY <1>1, <1>3, StillStore DEF EndPlaces
  <2>2. MagicInv'
    BY <1>1, <1>3, StillMagic DEF StoreInv, RestInv, EndPlaces
  <2>3. DataInv' /\ ClearInv' /\ AnswerInv'
    BY <1>1, <1>3 DEF DataInv, ClearInv, AnswerInv, NoSpuriousFailure,
                      StartPlaces, ItemPlaces, DelPlaces, AddPlaces, EndPlaces
  <2>4. KSStep
    BY <1>1, <1>3, <2>1, WasSame, Going DEF KSStep
  <2> QED BY <2>2, <2>3, <2>4 DEF RestInv
<1> QED BY <1>1, <1>2, <1>3 DEF DumpWalk

\* clear_eeprom's walk holds a copy of what it has passed.
LEMMA CopyOn ==
    ASSUME StoreInv, pc = "clrWalk",
           NEW k \in {Ethaddr, Prodnum}, NEW P, P \subseteq heads,
           \A p \in P : p < off \/ p = off, \A p \in heads : p < off \/ p = off => p \in P,
           KeyAt(eeprom, off) \in {Ethaddr, Prodnum} => Copies(LenAt(eeprom, off)),
           kept' = IF KeyAt(eeprom, off) \in {Ethaddr, Prodnum}
                     THEN [kept EXCEPT ![KeyAt(eeprom, off)] = DataAt(eeprom, off)] ELSE kept
    PROVE  /\ \A p \in P : KeyAt(eeprom, p) = k => kept'[k] = DataAt(eeprom, p) /\ kept'[k] # <<>>
           /\ (\A p \in P : KeyAt(eeprom, p) # k) => kept'[k] = <<>>
<1>1. /\ off \in heads /\ View = eeprom /\ IsChain(eeprom, heads) /\ eeprom \in Mem
      /\ Once(eeprom, heads) /\ k \in Keys /\ off \in Nat
      /\ kept \in [{Ethaddr, Prodnum} -> Seq(Nat)]
      /\ \A p \in heads : p < off /\ KeyAt(eeprom, p) = k => kept[k] = DataAt(eeprom, p) /\ kept[k] # <<>>
      /\ (\A p \in heads : p < off => KeyAt(eeprom, p) # k) => kept[k] = <<>>
  <2>1. View = eeprom /\ Chained /\ eeprom \in Mem /\ off \in Nat
    BY InChain, ViewIs, Facts DEF StoreInv, PlainInv, EndPlaces
  <2>2. off \in heads /\ IsChain(eeprom, heads) /\ Once(eeprom, heads)
    BY <2>1 DEF Chained, OffInv, StoreInv, PlainInv, KeyInv
  <2>3. k \in Keys /\ kept \in [{Ethaddr, Prodnum} -> Seq(Nat)]
    BY DbConstants DEF StoreInv, PlainInv, TypeInv, TypeOK
  <2>4. Copied(off)
    BY DEF StoreInv, RestInv, ClearInv
  <2> QED BY <2>1, <2>2, <2>3, <2>4 DEF Copied, Before, Lacks
<1>2. CASE KeyAt(eeprom, off) = k
  <2>1. kept'[k] = DataAt(eeprom, off)
    BY <1>1, <1>2
  <2>2. kept'[k] # <<>>
    <3>1. LenAt(eeprom, off) > 0 /\ KeyAt(eeprom, off) # End
      BY <1>1, <1>2, Sizes DEF Copies
    <3>2. LenAt(eeprom, off) \in Nat /\ DOMAIN DataAt(eeprom, off) = 1 .. LenAt(eeprom, off)
      BY <1>1, <3>1, DataCells
    <3>3. 1 \in DOMAIN DataAt(eeprom, off)
      BY <3>1, <3>2
    <3> QED BY <2>1, <3>3
  <2>3. \A p \in P : KeyAt(eeprom, p) = k => p = off
    BY <1>1, <1>2 DEF Once
  <2> QED BY <1>1, <1>2, <2>1, <2>2, <2>3
<1>3. CASE KeyAt(eeprom, off) # k
  <2>1. kept'[k] = kept[k]
    BY <1>1, <1>3
  <2> QED BY <1>1, <1>3, <2>1
<1> QED BY <1>2, <1>3

LEMMA StoreClearWalk ==
    ASSUME Quiet, StoreInv, PlainInv', ClearWalk
    PROVE  RestInv' /\ KSStep
<1>1. /\ pc = "clrWalk" /\ UNCHANGED <<eeprom, heads>> /\ ReadErrors = FALSE
      /\ cmd = "clear" /\ off \in heads /\ InRange(off) /\ rc = "none" /\ out = {}
      /\ eeprom[0] = Magic /\ IsChain(eeprom, heads) /\ eeprom \in Mem
  <2>1. pc = "clrWalk" /\ Chained /\ View = eeprom
    BY InChain, ViewIs DEF ClearWalk, StoreInv, PlainInv, EndPlaces
  <2>2. off \in heads /\ IsChain(eeprom, heads)
    BY <2>1 DEF Chained, OffInv
  <2> QED BY <2>1, <2>2, HeadsIn, MagicThere
          DEF ClearWalk, Quiet, StoreInv, PlainInv, RestInv, AnswerInv, TypeInv, CmdInv
<1>2. CASE pc' = "undefined" /\ UNCHANGED <<cmd, kept, rc, out>>
  <2>1. Stored(View) = Stored(View)' /\ Stored(eeprom)' = Stored(eeprom)
    BY <1>1, <1>2, StillStore DEF EndPlaces
  <2>2. MagicInv'
    BY <1>1, <1>2, StillMagic DEF StoreInv, RestInv, EndPlaces
  <2>3. DataInv' /\ ClearInv' /\ AnswerInv'
    BY <1>1, <1>2 DEF DataInv, ClearInv, AnswerInv, NoSpuriousFailure,
                      StartPlaces, ItemPlaces, DelPlaces, AddPlaces, EndPlaces
  <2>4. KSStep
    BY <1>1, <1>2, <2>1, WasSame, Going DEF KSStep, BeforeImage
  <2> QED BY <2>2, <2>3, <2>4 DEF RestInv
<1>3. CASE /\ KeyAt(eeprom, off) \in {Ethaddr, Prodnum} => Copies(LenAt(eeprom, off))
           /\ kept' = IF KeyAt(eeprom, off) \in {Ethaddr, Prodnum}
                        THEN [kept EXCEPT ![KeyAt(eeprom, off)] = DataAt(eeprom, off)] ELSE kept
           /\ off' = NextOf(eeprom, off)
           /\ pc' = IF KeyAt(eeprom, off) = End THEN "clrImage" ELSE "clrWalk"
           /\ UNCHANGED <<cmd, key, data, len, prev, rc, out>>
  <2>1. Stored(View) = Stored(View)' /\ Stored(eeprom)' = Stored(eeprom)
    BY <1>1, <1>3, StillStore DEF EndPlaces
  <2>2. MagicInv'
    BY <1>1, <1>3, StillMagic DEF StoreInv, RestInv, EndPlaces
  <2>3. pc' = "clrWalk" => Copied(off)'
    <3> SUFFICES ASSUME KeyAt(eeprom, off) # End PROVE Copied(off)'
      BY <1>3
    <3>1. \A p \in heads : p < off' <=> p < off \/ p = off
      BY <1>1, <1>3, WalkOn
    <3> DEFINE P == { p \in heads : p < off' }
    <3>2. /\ P \subseteq heads /\ \A p \in P : p < off \/ p = off
          /\ \A p \in heads : p < off \/ p = off => p \in P
          /\ Before(off)' = P
      BY <1>1, <3>1 DEF Before
    <3> HIDE DEF P
    <3>3. \A k \in {Ethaddr, Prodnum} :
             /\ \A p \in P : KeyAt(eeprom, p) = k => kept'[k] = DataAt(eeprom, p) /\ kept'[k] # <<>>
             /\ (\A p \in P : KeyAt(eeprom, p) # k) => kept'[k] = <<>>
      BY <1>1, <1>3, <3>2, CopyOn
    <3> QED BY <1>1, <3>2, <3>3 DEF Copied, Lacks
  <2>4. pc' = "clrImage" => Copied(Size)'
    <3>0. SUFFICES ASSUME KeyAt(eeprom, off) = End PROVE Copied(Size)'
      BY <1>3
    <3>1. \A p \in heads : p \in Nat /\ p <= off /\ p < Size /\ off \in Nat
      <4>1. \A p \in heads : p \in Addr /\ p \in Nat /\ p <= off
        BY <1>1, <3>0, ChainFacts
      <4> QED BY <1>1, <4>1, Sizes DEF Addr
    <3>2. /\ \A p \in heads : p < off \/ p = off
          /\ Before(Size)' = heads
      BY <1>1, <3>1 DEF Before
    <3>3. \A k \in {Ethaddr, Prodnum} :
             /\ \A p \in heads : KeyAt(eeprom, p) = k => kept'[k] = DataAt(eeprom, p) /\ kept'[k] # <<>>
             /\ (\A p \in heads : KeyAt(eeprom, p) # k) => kept'[k] = <<>>
      BY <1>1, <1>3, <3>2, CopyOn
    <3> QED BY <1>1, <3>2, <3>3 DEF Copied, Lacks
  <2>5. pc' \in {"clrWalk", "clrImage"} /\ pc' # "idle"
    BY <1>3
  <2>6. DataInv' /\ ClearInv' /\ AnswerInv'
    BY <1>1, <1>3, <2>3, <2>4, <2>5
       DEF DataInv, ClearInv, AnswerInv, NoSpuriousFailure,
           StartPlaces, ItemPlaces, DelPlaces, AddPlaces, EndPlaces
  <2>7. Was' = Was
    <3>1. BeforeImage /\ BeforeImage'
      BY <1>1, <2>5 DEF BeforeImage
    <3> QED BY <1>1, <1>3, <2>1, <3>1 DEF Was
  <2>8. KSStep
    BY <1>1, <1>3, <2>1, <2>5, <2>7, Going DEF KSStep
  <2> QED BY <2>2, <2>6, <2>8 DEF RestInv
<1> QED BY <1>1, <1>2, <1>3 DEF ClearWalk

\* A write that leaves the items with keys outside D alone.
LEMMA StoredChange ==
    ASSUME NEW mem \in Mem, NEW S, IsChain(mem, S), Once(mem, S), mem[0] = Magic,
           NEW new \in Mem, NEW T, IsChain(new, T), Once(new, T), new[0] = Magic, NEW D,
           \A o \in S : KeyAt(mem, o) \in Keys \ D =>
               /\ o \in T /\ SameItem(mem, new, o)
               /\ \A c \in Addr : o + 1 < c /\ c < NextOf(mem, o) => new[c] = mem[c],
           \A o \in T : KeyAt(new, o) \in Keys \ D => o \in S /\ KeyAt(mem, o) = KeyAt(new, o)
    PROVE  Stored(new) = [k \in Keys |-> IF k \in D THEN Holds(new, T, k) ELSE Stored(mem)[k]]
<1>1. ASSUME NEW o \in S, KeyAt(mem, o) \in Keys \ D
      PROVE  o \in T /\ KeyAt(new, o) = KeyAt(mem, o) /\ DataAt(new, o) = DataAt(mem, o)
  <2>1. /\ o \in T /\ SameItem(mem, new, o)
        /\ \A c \in Addr : o + 1 < c /\ c < NextOf(mem, o) => new[c] = mem[c]
    BY <1>1
  <2>2. KeyAt(mem, o) # End
    BY <1>1, Sizes
  <2>3. DataAt(new, o) = DataAt(mem, o)
    BY <2>1, <2>2, SameData
  <2> QED BY <2>1, <2>3 DEF SameItem
<1>2. \A k \in Keys \ D : Holds(new, T, k) = Holds(mem, S, k)
  <2> TAKE k \in Keys \ D
  <2>1. \A o \in S : KeyAt(mem, o) = k => o \in T /\ KeyAt(new, o) = k
    BY <1>1
  <2>2. \A o \in T : KeyAt(new, o) = k => o \in S /\ KeyAt(mem, o) = k /\ DataAt(new, o) = DataAt(mem, o)
    BY <1>1
  <2> QED BY <2>1, <2>2, HoldsSame
<1>3. Stored(mem) = [k \in Keys |-> Holds(mem, S, k)] /\ Stored(new) = [k \in Keys |-> Holds(new, T, k)]
  BY StoredHolds
<1> QED BY <1>2, <1>3

\* The key is gone from the device with the write of del_item.
LEMMA DelStored ==
    ASSUME Quiet, StoreInv, PlainInv', DelSave
    PROVE  /\ eeprom[0] = Magic /\ eeprom'[0] = Magic /\ key \in Keys
           /\ Stored(eeprom') = [Stored(eeprom) EXCEPT ![key] = {}]
<1>1. /\ pc = "delSave" /\ DelReturn("ok") /\ IsChain(eeprom, heads) /\ View = eeprom
      /\ heads' = { o \in heads : o <= off \/ o >= off + HeadSize + len }
      /\ eeprom' = Written(eeprom, off, Header(Null, len), HeadSize)
      /\ eeprom \in Mem /\ off \in Nat /\ len \in Nat /\ Null = 0 /\ End = 1 /\ HeadSize = 2
      /\ key \in Keys /\ Null \notin Keys /\ Once(eeprom, heads) /\ eeprom[0] = Magic
      /\ off + HeadSize <= Size /\ MagicSize = 1
  <2>1. Null = 0 /\ End = 1 /\ HeadSize = 2 /\ eeprom \in Mem /\ off \in Nat /\ len \in Nat /\ MagicSize = 1
    BY Facts DEF StoreInv, PlainInv
  <2>2. /\ pc = "delSave" /\ DelReturn("ok") /\ IsChain(eeprom, heads) /\ View = eeprom
        /\ heads' = { o \in heads : o <= off \/ o >= off + HeadSize + len }
        /\ eeprom' = Written(eeprom, off, Header(Null, len), HeadSize)
    BY Freed DEF Quiet, StoreInv, PlainInv
  <2>3. key \in Keys /\ Null \notin Keys /\ Once(eeprom, heads)
    BY <2>2, Sizes DEF StoreInv, PlainInv, TypeInv, CmdInv, DelPlaces, KeyInv
  <2>4. eeprom[0] = Magic
    BY <2>2, MagicThere DEF StoreInv, RestInv
  <2>5. off + HeadSize <= Size
    BY <2>1, <2>2, Sizes DEF StoreInv, PlainInv, TypeInv, SizeInv, InRange
  <2> QED BY <2>1, <2>2, <2>3, <2>4, <2>5
<1>2. /\ \A o \in heads : o < off \/ o >= off + HeadSize + len => KeyAt(eeprom, o) # key
      /\ \A o \in heads : off <= o /\ o < off + HeadSize + len => KeyAt(eeprom, o) \in {Null, key}
  BY <1>1 DEF StoreInv, PlainInv, KeyInv, Lacks
<1>3. /\ \A o \in heads : o \in Nat /\ NextOf(eeprom, o) \in Nat /\ NextOf(eeprom, o) >= o + HeadSize
      /\ \A o, p \in heads : o < p => NextOf(eeprom, o) <= p
      /\ \A o \in heads : KeyAt(eeprom, o) # End => NextOf(eeprom, o) \in heads
      /\ MagicSize \in heads
  BY <1>1, ChainFacts DEF IsChain
<1>4. /\ off >= 1 /\ \A o \in heads : o < off /\ KeyAt(eeprom, o) # End => NextOf(eeprom, o) <= off
      /\ \A o \in heads' \ {off} : SameItem(eeprom, eeprom', o)
      /\ off \in heads' => KeyAt(eeprom', off) = Null
  <2>1. CASE off \in heads
    <3>1. \A o \in heads \ {off} : SameItem(eeprom, eeprom', o)
      BY <2>1, Freed DEF Quiet, StoreInv, PlainInv
    <3>2. KeyAt(eeprom', off) = Null
      BY <2>1, Freed DEF Quiet, StoreInv, PlainInv
    <3>3. off >= 1
      BY <1>1, <2>1, HeadsIn DEF StoreInv, PlainInv
    <3> QED BY <1>1, <1>3, <2>1, <3>1, <3>2, <3>3
  <2>2. CASE off \notin heads /\ Behind(off) /\ \A o \in heads : SameItem(eeprom, eeprom', o)
    <3>1. \A o \in heads : o + 2 <= off
      BY <1>1, <2>2 DEF Behind
    <3> QED BY <1>1, <1>3, <2>2, <3>1
  <2> QED BY <2>1, <2>2, Freed DEF Quiet, StoreInv, PlainInv
<1> DEFINE new == eeprom'
           T == heads'
<1>5. new \in Mem /\ \A c \in Addr : c # off /\ c # off + 1 => new[c] = eeprom[c]
  <2>1. new = Written(eeprom, off, Header(Null, len), HeadSize)
    BY <1>1
  <2> HIDE DEF new
  <2>2. Null \in Nat /\ eeprom \in Mem /\ off \in Nat /\ len \in Nat /\ off + HeadSize <= Size
    BY <1>1
  <2> QED BY ONLY <2>1, <2>2, WrittenHeader
<1>6. new[0] = Magic
  <2>1. 0 \in Addr /\ 0 # off /\ 0 # off + 1
    BY <1>1, <1>4, Sizes DEF Addr
  <2> QED BY <1>1, <1>5, <2>1
<1>7. IsChain(new, T) /\ Once(new, T)
  <2>1. pc' \notin EndPlaces
    BY <1>1 DEF DelReturn, Return, Enter, EndPlaces
  <2>2. View' = eeprom'
    BY <2>1 DEF View, Unfinished, EndPlaces
  <2> QED BY <1>6, <2>2 DEF PlainInv, ChainInv, Chained, Unused, KeyInv
<1>8. ASSUME NEW o \in heads, KeyAt(eeprom, o) \in Keys \ {key}
      PROVE  /\ o \in T /\ SameItem(eeprom, new, o)
             /\ \A c \in Addr : o + 1 < c /\ c < NextOf(eeprom, o) => new[c] = eeprom[c]
  <2>1. o < off \/ o >= off + HeadSize + len
    BY <1>1, <1>2, <1>3, <1>8
  <2>2. o \in T /\ o # off
    BY <1>1, <1>3, <2>1
  <2>3. \A c \in Addr : o + 1 < c /\ c < NextOf(eeprom, o) => c # off /\ c # off + 1
    <3>1. \A c \in Addr : c \in Nat
      BY Sizes DEF Addr
    <3>2. CASE o < off
      <4>1. NextOf(eeprom, o) <= off
        BY <1>4, <1>8, <3>2, Sizes
      <4> QED BY <1>1, <1>3, <3>1, <4>1
    <3>3. CASE o >= off + HeadSize + len
      BY <1>1, <1>3, <3>1, <3>3
    <3> QED BY <2>1, <3>2, <3>3
  <2> QED BY <1>4, <1>5, <2>2, <2>3
<1>9. \A o \in T : /\ KeyAt(new, o) \in Keys \ {key} => o \in heads /\ KeyAt(eeprom, o) = KeyAt(new, o)
                   /\ KeyAt(new, o) # key
  <2> TAKE o \in T
  <2>1. CASE o = off
    BY <1>1, <1>4, <2>1
  <2>2. CASE o # off
    <3>1. o \in heads /\ SameItem(eeprom, new, o) /\ (o < off \/ o >= off + HeadSize + len)
      BY <1>1, <1>3, <1>4, <2>2
    <3> QED BY <1>2, <3>1 DEF SameItem
  <2> QED BY <2>1, <2>2
<1> HIDE DEF new, T
<1>10. Stored(new) = [p \in Keys |-> IF p \in {key} THEN Holds(new, T, p) ELSE Stored(eeprom)[p]]
  <2> DEFINE D == {key}
  <2>1. /\ \A o \in heads : KeyAt(eeprom, o) \in Keys \ D =>
               /\ o \in T /\ SameItem(eeprom, new, o)
               /\ \A c \in Addr : o + 1 < c /\ c < NextOf(eeprom, o) => new[c] = eeprom[c]
        /\ \A o \in T : KeyAt(new, o) \in Keys \ D => o \in heads /\ KeyAt(eeprom, o) = KeyAt(new, o)
    BY <1>8, <1>9
  <2>2. IsChain(eeprom, heads) /\ Once(eeprom, heads) /\ eeprom[0] = Magic /\ eeprom \in Mem
    BY <1>1
  <2> HIDE DEF D
  <2>3. Stored(new) = [p \in Keys |-> IF p \in D THEN Holds(new, T, p) ELSE Stored(eeprom)[p]]
    BY <1>5, <1>6, <1>7, <2>1, <2>2, StoredChange
  <2> QED BY <2>3 DEF D
<1>11. Holds(new, T, key) = {}
  BY <1>9 DEF Holds
<1>12. Stored(new) = [Stored(eeprom) EXCEPT ![key] = {}]
  <2>1. Stored(new) = [p \in Keys |-> IF p \in {key} THEN {} ELSE Stored(eeprom)[p]]
    BY <1>10, <1>11
  <2>2. DOMAIN Stored(eeprom) = Keys
    BY DEF Stored
  <2> QED BY <2>1, <2>2
<1> QED BY <1>1, <1>6, <1>12 DEF new

\* A write in the middle of the chain leaves the magic.
LEMMA MagicStays ==
    ASSUME eeprom'[0] = Magic, pc' \notin EndPlaces \cup {"initEnd", "initMagic"}
    PROVE  MagicInv'
BY DEF MagicInv

LEMMA StoreDelSave ==
    ASSUME Quiet, StoreInv, PlainInv', DelSave
    PROVE  RestInv' /\ KSStep
<1>1. /\ pc = "delSave" /\ DelReturn("ok") /\ key \in Keys /\ eeprom'[0] = Magic
      /\ cmd \in {"add", "eepromadd", "del", "clear"} /\ rc = "none" /\ out = {}
      /\ pc' \in {"idle", "addSearch"} /\ UNCHANGED <<cmd, key, data, kept, out>>
  <2>1. pc = "delSave" /\ DelReturn("ok")
    BY DEF DelSave, WriteFails, Quiet, Safe
  <2>2. key \in Keys /\ eeprom'[0] = Magic
    BY DelStored
  <2>3. cmd \in {"add", "eepromadd", "del", "clear"} /\ rc = "none" /\ out = {}
    BY <2>1 DEF StoreInv, PlainInv, TypeInv, CmdInv, DelPlaces, RestInv, AnswerInv
  <2> QED BY <2>1, <2>2, <2>3 DEF DelReturn, Return
<1>2. View = eeprom /\ View' = eeprom'
  BY <1>1, ViewIs DEF View, Unfinished, EndPlaces
<1>3. Stored(View)' = [Stored(View) EXCEPT ![key] = {}]
  BY <1>2, DelStored
<1>4. MagicInv'
  BY <1>1, MagicStays DEF EndPlaces
<1>5. CASE cmd = "del"
  <2>1. Return("ok") /\ pc' = "idle" /\ rc' = "ok"
    BY <1>1, <1>5 DEF DelReturn, Return
  <2>2. RestInv'
    BY <1>1, <1>4, <2>1, ReturnRest DEF NoSpuriousFailure
  <2>3. KS!Change
    BY <1>3, <1>5, ForgetChange
  <2>4. KS!Done
    <3>1. Stored(View)'[key] = {}
      BY <1>1, <1>3 DEF Stored
    <3> QED BY <1>1, <1>5, <3>1 DEF KS!Done
  <2> QED BY <1>1, <1>5, <2>1, <2>2, <2>3, <2>4, WasSame, Answered DEF KSStep
<1>6. CASE cmd # "del"
  <2>1. pc' = "addSearch" /\ UNCHANGED rc
    BY <1>1, <1>6 DEF DelReturn
  <2>2. DataInv' /\ AnswerInv'
    BY <1>1, <2>1 DEF DataInv, EndPlaces, AnswerInv, NoSpuriousFailure
  <2>3. CASE cmd # "clear"
    <3>1. ClearInv'
      BY <1>1, <2>1, <2>3 DEF ClearInv
    <3>2. KS!Change
      BY <1>1, <1>3, <1>6, <2>3, ForgetChange
    <3>3. KSStep
      BY <1>1, <2>1, <2>3, <3>2, WasSame, Going DEF KSStep
    <3> QED BY <1>4, <2>2, <3>1, <3>3 DEF RestInv
  <2>4. CASE cmd = "clear"
    <3>1. /\ data = kept[key] /\ key \notin Back /\ Back' = Back
          /\ Stored(View) = [k \in Keys |-> IF k \in Back THEN {kept[k]} ELSE {}]
      BY <1>1, <2>1, <2>4, DbConstants
         DEF StoreInv, RestInv, ClearInv, ItemPlaces, DelPlaces, Back, EndPlaces
    <3>2. Stored(View)' = Stored(View)
      BY <1>3, <3>1
    <3>3. ClearInv'
      BY <1>1, <2>1, <3>1, <3>2 DEF ClearInv, StartPlaces
    <3>4. Was' = Was
      BY <1>1, <2>1 DEF BeforeImage, Was, WasHeld
    <3>5. KSStep
      BY <1>1, <2>1, <3>2, <3>4, Going DEF KSStep
    <3> QED BY <1>4, <2>2, <3>3, <3>5 DEF RestInv
  <2> QED BY <2>3, <2>4
<1> QED BY <1>5, <1>6

-----------------------------------------------------------------------------
(* The writes of add_item.                                                 *)

\* The data of the new item, or a part of them, overwrite no item's.
LEMMA DataStored ==
    ASSUME StoreInv, PlainInv', pc \in {"addData", "appData"}, pc' \notin EndPlaces,
           NEW n \in Nat, n <= Len(data), UNCHANGED heads,
           eeprom' = Written(eeprom, off + HeadSize, data, n)
    PROVE  /\ eeprom'[0] = Magic /\ Stored(eeprom') = Stored(eeprom)
           /\ \A i \in 1 .. n : eeprom'[off + HeadSize + i - 1] = data[i]
<1> DEFINE new == eeprom'
<1>1. /\ eeprom \in Mem /\ off \in Nat /\ HeadSize = 2 /\ Null = 0 /\ End = 1 /\ Size \in Nat
      /\ IsChain(eeprom, heads) /\ Once(eeprom, heads) /\ eeprom[0] = Magic /\ off \in heads
      /\ KeyAt(eeprom, off) \notin Keys /\ 0 \in Addr /\ Addr \subseteq Nat
  <2>1. Chained /\ View = eeprom /\ eeprom[0] = Magic
    BY InChain, ViewIs, MagicThere DEF StoreInv, PlainInv, RestInv, EndPlaces
  <2>2. off \in heads /\ KeyAt(eeprom, off) \in {Null, End} /\ IsChain(eeprom, heads) /\ Once(eeprom, heads)
    BY <2>1 DEF Chained, OffInv, StoreInv, PlainInv, KeyInv
  <2> QED BY <2>1, <2>2, Facts, Sizes DEF StoreInv, PlainInv, Addr
<1>2. /\ new \in Mem /\ \A o \in heads : SameItem(eeprom, new, o)
      /\ off + HeadSize + n <= Size
      /\ \A o \in heads : o <= off \/ o >= off + HeadSize + n
  BY DataSpares DEF StoreInv, PlainInv
<1>3. \A c \in Addr : new[c] = IF off + HeadSize <= c /\ c < off + HeadSize + n
                                THEN data[c - (off + HeadSize) + 1] ELSE eeprom[c]
  <2>1. off + HeadSize \in Nat /\ off + HeadSize + n <= Size
    BY <1>1, <1>2
  <2> QED BY <1>1, <2>1, WrittenCell
<1>4. new[0] = Magic
  BY <1>1, <1>3
<1>5. View' = new /\ IsChain(new, heads) /\ Once(new, heads)
  <2>1. View' = eeprom'
    BY DEF View, Unfinished, EndPlaces
  <2> QED BY <1>4, <2>1 DEF PlainInv, ChainInv, Chained, Unused, KeyInv
<1>6. \A i \in 1 .. n : new[off + HeadSize + i - 1] = data[i]
  <2> TAKE i \in 1 .. n
  <2> DEFINE c == off + HeadSize + i - 1
  <2>1. c \in Addr /\ off + HeadSize <= c /\ c < off + HeadSize + n /\ c - (off + HeadSize) + 1 = i
    BY <1>1, <1>2 DEF Addr
  <2> HIDE DEF c
  <2>2. new[c] = data[i]
    BY <1>3, <2>1
  <2> QED BY <2>2 DEF c
<1> HIDE DEF new
<1>7. \A o \in heads : KeyAt(eeprom, o) \in Keys =>
          \A c \in Addr : o + 1 < c /\ c < NextOf(eeprom, o) => new[c] = eeprom[c]
  <2> SUFFICES ASSUME NEW o \in heads, KeyAt(eeprom, o) \in Keys,
                      NEW c \in Addr, o + 1 < c, c < NextOf(eeprom, o)
               PROVE  new[c] = eeprom[c]
    OBVIOUS
  <2>1. o \in Nat /\ o # off /\ (o < off => NextOf(eeprom, o) <= off) /\ NextOf(eeprom, o) \in Nat
    BY <1>1, ChainFacts
  <2>2. ~ (off + HeadSize <= c /\ c < off + HeadSize + n)
    BY <1>1, <1>2, <2>1
  <2> QED BY <1>3, <2>2
<1>8. Stored(new) = [p \in Keys |-> IF p \in {} THEN Holds(new, heads, p) ELSE Stored(eeprom)[p]]
  <2> DEFINE D == {}
  <2>1. /\ \A o \in heads : KeyAt(eeprom, o) \in Keys \ D =>
               /\ o \in heads /\ SameItem(eeprom, new, o)
               /\ \A c \in Addr : o + 1 < c /\ c < NextOf(eeprom, o) => new[c] = eeprom[c]
        /\ \A o \in heads : KeyAt(new, o) \in Keys \ D => o \in heads /\ KeyAt(eeprom, o) = KeyAt(new, o)
    BY <1>2, <1>7 DEF SameItem
  <2> HIDE DEF D
  <2>2. /\ IsChain(eeprom, heads) /\ Once(eeprom, heads) /\ eeprom[0] = Magic /\ eeprom \in Mem
        /\ IsChain(new, heads) /\ Once(new, heads) /\ new[0] = Magic /\ new \in Mem
    BY <1>1, <1>2, <1>4, <1>5
  <2>3. Stored(new) = [p \in Keys |-> IF p \in D THEN Holds(new, heads, p) ELSE Stored(eeprom)[p]]
    BY ONLY <2>1, <2>2, StoredChange
  <2> QED BY <2>3 DEF D
<1>9. Stored(new) = Stored(eeprom)
  <2>1. Stored(eeprom) = [p \in Keys |-> Stored(eeprom)[p]]
    BY DEF Stored
  <2> QED BY <1>8, <2>1
<1> QED BY <1>4, <1>6, <1>9 DEF new

LEMMA StoreData ==
    ASSUME Quiet, StoreInv, PlainInv', AddData \/ AppendData
    PROVE  RestInv' /\ KSStep
<1>1. /\ pc \in {"addData", "appData"} /\ WriteDone /\ UNCHANGED <<heads, cmd, key, data, off, kept, rc, out>>
      /\ pc' \in {"fitHead", "splitHead", "appHead"} /\ Len(data) \in Nat /\ Len(data) <= Len(data)
      /\ cmd \in {"add", "eepromadd", "clear"} /\ rc = "none" /\ out = {}
  <2>1. pc \in {"addData", "appData"} /\ Len(data) \in Nat
    BY Facts DEF AddData, AppendData, StoreInv, PlainInv
  <2>2. cmd \in {"add", "eepromadd", "clear"} /\ rc = "none" /\ out = {}
    BY <2>1 DEF StoreInv, PlainInv, TypeInv, CmdInv, ItemPlaces, AddPlaces, DelPlaces, RestInv, AnswerInv
  <2>3. Len(data) <= Len(data)
    BY <2>1
  <2> QED BY <2>1, <2>2, <2>3 DEF AddData, AppendData, WriteFails, Quiet, Safe, regs
<1>2. eeprom' = Written(eeprom, off + HeadSize, data, Len(data))
  BY <1>1, PendingIs DEF WriteDone
<1>3. /\ eeprom'[0] = Magic /\ Stored(eeprom') = Stored(eeprom)
      /\ \A i \in 1 .. Len(data) : eeprom'[off + HeadSize + i - 1] = data[i]
  BY <1>1, <1>2, DataStored DEF EndPlaces
<1>4. View = eeprom /\ View' = eeprom' /\ Stored(View)' = Stored(View)
  BY <1>1, <1>3, ViewIs DEF View, Unfinished, EndPlaces
<1>5. MagicInv'
  BY <1>1, <1>3, MagicStays DEF EndPlaces
<1>6. DataInv' /\ AnswerInv'
  BY <1>1, <1>3 DEF DataInv, EndPlaces, AnswerInv, NoSpuriousFailure
<1>7. ClearInv'
  <2>1. cmd = "clear" => /\ data = kept[key]
                         /\ Stored(View) = [k \in Keys |-> IF k \in Back THEN {kept[k]} ELSE {}]
    BY <1>1 DEF StoreInv, RestInv, ClearInv, ItemPlaces, AddPlaces
  <2>2. Back' = Back
    BY <1>1 DEF Back, EndPlaces
  <2> QED BY <1>1, <1>4, <2>1, <2>2 DEF ClearInv, StartPlaces
<1>8. Was' = Was
  BY <1>1 DEF BeforeImage, Was, WasHeld
<1>9. KSStep
  BY <1>1, <1>4, <1>8, Going DEF KSStep
<1> QED BY <1>5, <1>6, <1>7, <1>9 DEF RestInv

\* The header of the new item brings its value; b is the header behind it, or
\* the item's own when it is an exact fit.
LEMMA ItemStored ==
    ASSUME StoreInv, pc \in {"fitHead", "splitHead", "appHead"},
           NEW new \in Mem, NEW b, b = off \/ (b = ItemEnd /\ b \notin heads),
           IsChain(new, heads \cup {b}), Once(new, heads \cup {b}),
           KeyAt(new, off) = key, LenAt(new, off) = Len(data),
           b # off => KeyAt(new, b) \notin Keys,
           \A o \in heads \ {off} : SameItem(eeprom, new, o),
           \A c \in Addr : c \notin {off, off + 1, b, b + 1} => new[c] = eeprom[c]
    PROVE  /\ eeprom[0] = Magic /\ new[0] = Magic /\ key \in Keys
           /\ Stored(new) = [Stored(eeprom) EXCEPT ![key] = {data}]
<1> DEFINE T == heads \cup {b}
           n == Len(data)
<1>1. /\ eeprom \in Mem /\ off \in Nat /\ HeadSize = 2 /\ Null = 0 /\ End = 1
      /\ IsChain(eeprom, heads) /\ Once(eeprom, heads) /\ eeprom[0] = Magic /\ off \in heads
      /\ 0 \in Addr /\ Addr \subseteq Nat /\ key \in Keys /\ key # End /\ n \in Nat
      /\ off >= 1 /\ \A o \in heads : KeyAt(eeprom, o) # key
  <2>1. Chained /\ View = eeprom /\ eeprom[0] = Magic
    BY InChain, ViewIs, MagicThere DEF StoreInv, PlainInv, RestInv, EndPlaces
  <2>2. off \in heads /\ IsChain(eeprom, heads) /\ Once(eeprom, heads)
    BY <2>1 DEF Chained, OffInv, StoreInv, PlainInv, KeyInv
  <2>3. key \in Keys /\ \A o \in heads : KeyAt(eeprom, o) # key
    BY DEF StoreInv, PlainInv, TypeInv, CmdInv, ItemPlaces, AddPlaces, DelPlaces, KeyInv, Lacks
  <2>4. off >= 1
    BY <2>2, HeadsIn, Facts DEF StoreInv, PlainInv
  <2> QED BY <2>1, <2>2, <2>3, <2>4, Facts, Sizes DEF StoreInv, PlainInv, Addr
<1>2. b \in Nat /\ b >= off /\ (b # off => b = off + HeadSize + n)
  <2>1. ItemEnd = off + HeadSize + n
    BY DEF ItemEnd
  <2> HIDE DEF n
  <2> QED BY <1>1, <2>1
<1>3. \A i \in 1 .. n : eeprom[off + 1 + i] = data[i]
  <2>1. \A i \in 1 .. n : eeprom[off + HeadSize + i - 1] = data[i]
    BY DEF StoreInv, RestInv, DataInv
  <2> HIDE DEF n
  <2>2. \A i \in 1 .. n : off + HeadSize + i - 1 = off + 1 + i
    BY <1>1
  <2> QED BY <2>1, <2>2
<1>4. KeyAt(new, off) = key /\ LenAt(new, off) = n /\ IsChain(new, T) /\ Once(new, T) /\ off \in T
  BY <1>1
<1>5. data = [i \in 1 .. n |-> data[i]]
  <2>1. data \in Seq(Nat)
    BY Facts DEF StoreInv, PlainInv
  <2> QED BY <2>1
<1> HIDE DEF T, n
<1>6. new[0] = Magic
  BY <1>1, <1>2
<1>7. Holds(new, T, key) = {data}
  <2>1. Holds(new, T, key) = {DataAt(new, off)}
    BY <1>1, <1>4, HoldsOne
  <2>2. /\ DataAt(new, off) = [i \in 1 .. n |-> new[off + 1 + i]]
        /\ \A i \in 1 .. n : off + 1 + i \in Addr
    BY <1>1, <1>4, DataCells
  <2>3. \A i \in 1 .. n : off + 1 + i \notin {off, off + 1, b, b + 1}
    BY <1>1, <1>2
  <2>4. \A i \in 1 .. n : new[off + 1 + i] = data[i]
    BY <1>3, <2>2, <2>3
  <2>5. DataAt(new, off) = data
    BY <1>5, <2>2, <2>4
  <2> QED BY <2>1, <2>5
<1>8. ASSUME NEW o \in heads, o # off
      PROVE  \A c \in Addr : o + 1 < c /\ c < NextOf(eeprom, o) /\ KeyAt(eeprom, o) \in Keys => new[c] = eeprom[c]
  <2> SUFFICES ASSUME KeyAt(eeprom, o) \in Keys, NEW c \in Addr, o + 1 < c, c < NextOf(eeprom, o)
               PROVE  c \notin {off, off + 1, b, b + 1}
    OBVIOUS
  <2>1. o \in Nat /\ (o < off => NextOf(eeprom, o) <= off) /\ NextOf(eeprom, o) \in Nat /\ o \in T
    BY <1>1, <1>8, ChainFacts DEF T
  <2>2. CASE o < off
    BY <1>1, <1>2, <2>1, <2>2
  <2>3. CASE o > off
    <3>1. b = off \/ o >= b + HeadSize
      <4>1. NextOf(new, off) <= o
        BY <1>1, <1>4, <2>1, <2>3, ChainFacts
      <4>2. NextOf(new, off) = off + HeadSize + n
        BY <1>4 DEF NextOf
      <4>3. b # off => b < o
        BY <1>1, <1>2, <1>8, <2>1, <4>1, <4>2
      <4>4. b # off => o >= b + HeadSize
        BY <1>4, <2>1, <4>3, ChainFacts DEF T
      <4> QED BY <4>4
    <3>2. o >= off + HeadSize
      BY <1>1, <1>8, <2>1, <2>3, ChainFacts
    <3> QED BY <1>1, <1>2, <2>1, <3>1, <3>2
  <2> QED BY <1>1, <1>8, <2>1, <2>2, <2>3
<1>9. Stored(new) = [p \in Keys |-> IF p \in {key} THEN Holds(new, T, p) ELSE Stored(eeprom)[p]]
  <2> DEFINE D == {key}
  <2>1. \A o \in heads : KeyAt(eeprom, o) \in Keys \ D =>
               /\ o \in T /\ SameItem(eeprom, new, o)
               /\ \A c \in Addr : o + 1 < c /\ c < NextOf(eeprom, o) => new[c] = eeprom[c]
    <3> SUFFICES ASSUME NEW o \in heads, KeyAt(eeprom, o) \in Keys \ D
                 PROVE  /\ o \in T /\ SameItem(eeprom, new, o)
                        /\ \A c \in Addr : o + 1 < c /\ c < NextOf(eeprom, o) => new[c] = eeprom[c]
      OBVIOUS
    <3>1. o # off
      <4>1. KeyAt(eeprom, off) \notin Keys
        <5>1. Chained
          BY InChain DEF StoreInv, PlainInv
        <5> QED BY <1>1, <5>1, Sizes DEF Chained, OffInv
      <4> QED BY <4>1
    <3> QED BY <1>8, <3>1 DEF T
  <2>2. \A o \in T : KeyAt(new, o) \in Keys \ D => o \in heads /\ KeyAt(eeprom, o) = KeyAt(new, o)
    BY <1>1, <1>4 DEF T, SameItem
  <2>3. /\ IsChain(eeprom, heads) /\ Once(eeprom, heads) /\ eeprom[0] = Magic /\ eeprom \in Mem
        /\ IsChain(new, T) /\ Once(new, T) /\ new[0] = Magic /\ new \in Mem
    BY <1>1, <1>4, <1>6
  <2> HIDE DEF D
  <2>4. Stored(new) = [p \in Keys |-> IF p \in D THEN Holds(new, T, p) ELSE Stored(eeprom)[p]]
    BY ONLY <2>1, <2>2, <2>3, StoredChange
  <2> QED BY <2>4 DEF D
<1>10. Stored(new) = [Stored(eeprom) EXCEPT ![key] = {data}]
  <2>1. Stored(new) = [p \in Keys |-> IF p \in {key} THEN {data} ELSE Stored(eeprom)[p]]
    BY <1>7, <1>9
  <2>2. DOMAIN Stored(eeprom) = Keys
    BY DEF Stored
  <2> QED BY <2>1, <2>2
<1> QED BY <1>1, <1>6, <1>10

\* The last write of add_item: the answer, or the second item of clear_eeprom.
LEMMA AddReturn ==
    ASSUME StoreInv, PlainInv', pc \in {"fitHead"} \cup EndPlaces, Return("ok"),
           eeprom'[0] = Magic, Stored(eeprom')[key] = {data},
           Stored(View)' = Stored(View) \/ KS!Change,
           cmd = "clear" =>
              Stored(eeprom') = [k \in Keys |-> IF k \in Back \cup {key} THEN {kept[k]} ELSE {}]
    PROVE  RestInv' /\ KSStep
<1>1. /\ cmd \in {"add", "eepromadd", "clear"} /\ rc = "none" /\ out = {} /\ pc # "idle"
      /\ ~ BeforeDispatch /\ pc # "clrWalk" /\ ~ BeforeImage /\ Ethaddr # Prodnum
      /\ cmd = "clear" => key \in {Ethaddr, Prodnum}
      /\ pc' \in {"idle", "delWalk"} /\ View' = eeprom' /\ ~ BeforeImage'
  <2>1. pc \in {"fitHead", "splitRest", "appEnd"}
    BY DEF EndPlaces
  <2>2. pc' \in {"idle", "delWalk"}
    BY DEF Return, Enter
  <2>3. cmd \in {"add", "eepromadd", "clear"} /\ rc = "none" /\ out = {}
    BY <2>1 DEF StoreInv, PlainInv, TypeInv, CmdInv, ItemPlaces, AddPlaces, DelPlaces, EndPlaces,
                RestInv, AnswerInv
  <2>4. cmd = "clear" => key \in {Ethaddr, Prodnum}
    BY <2>1, <2>3, DbConstants DEF StoreInv, PlainInv, TypeInv, CmdInv
  <2> QED BY <2>1, <2>2, <2>3, <2>4, DbConstants
          DEF BeforeDispatch, BeforeImage, View, Unfinished
<1>2. MagicInv'
  BY <1>1, MagicStays DEF EndPlaces
<1>3. CASE cmd = "clear" /\ key = Ethaddr
  <2>1. Enter(Prodnum, kept[Prodnum]) /\ UNCHANGED <<cmd, kept, rc, out>> /\ pc' = "delWalk"
    BY <1>1, <1>3 DEF Return, Enter
  <2>2. Stored(eeprom') = [k \in Keys |-> IF k = Ethaddr THEN {kept[Ethaddr]} ELSE {}]
    <3>1. \A k \in Keys : k \in Back \cup {key} <=> k = Ethaddr
      BY <1>1, <1>3 DEF Back
    <3> QED BY <1>3, <3>1
  <2>3. RestInv'
    BY <1>1, <1>2, <2>1, <2>2, ReturnRest
  <2>4. Was' = Was
    BY <1>1, <2>1 DEF Was, WasHeld
  <2>5. KSStep
    BY <1>1, <1>3, <2>1, <2>4, Going DEF KSStep
  <2> QED BY <2>3, <2>5
<1>4. CASE ~ (cmd = "clear" /\ key = Ethaddr)
  <2>1. pc' = "idle" /\ rc' = "ok" /\ UNCHANGED <<cmd, key, data, kept, out>>
    BY <1>1, <1>4 DEF Return
  <2>2. RestInv'
    BY <1>1, <1>2, <2>1, ReturnRest DEF NoSpuriousFailure
  <2>3. Was' = Was
    BY <1>1, <2>1 DEF Was, WasHeld
  <2>4. KS!Done
    <3>1. CASE cmd # "clear"
      BY <1>1, <2>1, <3>1 DEF KS!Done
    <3>2. CASE cmd = "clear"
      <4>1. \A k \in Keys : k \in Back \cup {key} <=> k \in {Ethaddr, Prodnum}
        BY <1>1, <1>4, <3>2 DEF Back
      <4>2. \A k \in {Ethaddr, Prodnum} : KS!Restored(k) = {kept[k]}
        <5>1. \A k \in {Ethaddr, Prodnum} : Was[k] = IF kept[k] = <<>> THEN {} ELSE {kept[k]}
          BY <1>1 DEF Was, WasHeld
        <5> QED BY <1>1, <5>1 DEF KS!Restored, Was, WasHeld
      <4>3. Stored(eeprom') = [k \in Keys |-> IF k \in {Ethaddr, Prodnum} THEN KS!Restored(k) ELSE {}]
        BY <3>2, <4>1, <4>2
      <4> QED BY <1>1, <2>1, <3>2, <4>3 DEF KS!Done
    <3> QED BY <3>1, <3>2
  <2>5. KSStep
    BY <1>1, <2>1, <2>3, <2>4, Answered DEF KSStep
  <2> QED BY <2>2, <2>5
<1> QED BY <1>3, <1>4

LEMMA ClearPut ==
    ASSUME StoreInv, pc \in AddPlaces, cmd = "clear"
    PROVE  [Stored(View) EXCEPT ![key] = {data}]
             = [k \in Keys |-> IF k \in Back \cup {key} THEN {kept[k]} ELSE {}]
<1>1. /\ data = kept[key]
      /\ Stored(View) = [k \in Keys |-> IF k \in Back THEN {kept[k]} ELSE {}]
  BY DEF StoreInv, RestInv, ClearInv, ItemPlaces
<1> QED BY <1>1

LEMMA HeadCells ==
    ASSUME StoreInv, pc \in {"fitHead", "splitHead", "appHead"}, WriteDone
    PROVE  \A c \in Addr : c # off /\ c # off + 1 => eeprom'[c] = eeprom[c]
<1> DEFINE new == eeprom'
<1>1. new = Written(eeprom, off, Header(key, Len(data)), HeadSize)
  BY ItemHead DEF StoreInv, PlainInv
<1>2. /\ eeprom \in Mem /\ off \in Nat /\ key \in Nat /\ Len(data) \in Nat /\ off + HeadSize <= Size
  <2>1. eeprom \in Mem /\ off \in Nat /\ key \in Nat /\ Len(data) \in Nat
    BY Facts, ItemHead DEF StoreInv, PlainInv
  <2>2. off + HeadSize <= Size
    BY Facts, Sizes DEF StoreInv, PlainInv, TypeInv, SizeInv, InRange, ItemPlaces, AddPlaces, DelPlaces
  <2> QED BY <2>1, <2>2
<1> DEFINE n == Len(data)
<1>3. new = Written(eeprom, off, Header(key, n), HeadSize) /\ n \in Nat
  BY <1>1, <1>2
<1> HIDE DEF new, n
<1>4. \A c \in Addr : c # off /\ c # off + 1 => new[c] = eeprom[c]
  <2>1. eeprom \in Mem /\ off \in Nat /\ key \in Nat /\ n \in Nat /\ off + HeadSize <= Size
    BY <1>2, <1>3
  <2>2. new = Written(eeprom, off, Header(key, n), HeadSize)
    BY <1>3
  <2> QED BY ONLY <2>1, <2>2, WrittenHeader
<1> QED BY <1>4 DEF new

LEMMA StoreFitHead ==
    ASSUME Quiet, StoreInv, PlainInv', pc = "fitHead", WriteDone, Return("ok"), UNCHANGED heads
    PROVE  RestInv' /\ KSStep
<1> DEFINE new == eeprom'
<1>1. /\ View = eeprom /\ View' = eeprom' /\ off \in heads /\ heads \cup {off} = heads
  <2>1. off \in heads /\ View = eeprom
    BY InChain, ViewIs DEF StoreInv, PlainInv, Chained, OffInv, EndPlaces
  <2> QED BY <2>1 DEF Return, Enter, View, Unfinished
<1>2. /\ KeyAt(new, off) = key /\ LenAt(new, off) = Len(data) /\ new \in Mem
      /\ \A o \in heads \ {off} : SameItem(eeprom, new, o)
      /\ \A c \in Addr : c \notin {off, off + 1, off, off + 1} => new[c] = eeprom[c]
  BY ItemHead, HeadCells DEF StoreInv, PlainInv
<1>3. IsChain(new, heads) /\ Once(new, heads)
  <2>1. eeprom[0] = Magic /\ 0 \in Addr /\ 0 # off /\ 0 # off + 1
    <3>1. off >= 1 /\ off \in Nat
      BY <1>1, HeadsIn, Facts DEF StoreInv, PlainInv
    <3> QED BY <3>1, MagicThere, Sizes DEF StoreInv, RestInv, Addr
  <2>2. new[0] = Magic
    BY <1>2, <2>1
  <2> QED BY <1>1, <2>2 DEF PlainInv, ChainInv, Chained, Unused, KeyInv
<1> HIDE DEF new
<1>4. /\ eeprom[0] = Magic /\ new[0] = Magic /\ key \in Keys
      /\ Stored(new) = [Stored(eeprom) EXCEPT ![key] = {data}]
  BY <1>1, <1>2, <1>3, ItemStored
<1>5. Stored(View)' = [Stored(View) EXCEPT ![key] = {data}] /\ Stored(eeprom')[key] = {data}
  <2>1. DOMAIN Stored(eeprom) = Keys
    BY DEF Stored
  <2>2. Stored(new)[key] = {data}
    BY <1>4, <2>1
  <2> QED BY <1>1, <1>4, <2>2 DEF new
<1>6. KS!Change
  <2>1. /\ cmd \in {"add", "eepromadd", "clear"} /\ ~ BeforeImage
        /\ cmd = "clear" => key \in {Ethaddr, Prodnum}
        /\ cmd = "clear" => data = kept[key]
    BY DEF StoreInv, PlainInv, TypeInv, CmdInv, ItemPlaces, AddPlaces, DelPlaces, BeforeImage,
           RestInv, ClearInv
  <2> QED BY <1>5, <2>1, PutChange
<1>7. cmd = "clear" =>
         Stored(eeprom') = [k \in Keys |-> IF k \in Back \cup {key} THEN {kept[k]} ELSE {}]
  BY <1>1, <1>5, ClearPut DEF AddPlaces
<1> QED BY <1>4, <1>5, <1>6, <1>7, AddReturn DEF new

LEMMA StoreNewHead ==
    ASSUME Quiet, StoreInv, PlainInv', WriteDone, pc \in {"splitHead", "appHead"},
           UNCHANGED regs, pc' = IF pc = "splitHead" THEN "splitRest" ELSE "appEnd",
           heads' = heads \cup {ItemEnd}
    PROVE  RestInv' /\ KSStep
<1> DEFINE new == View'
           b == ItemEnd
<1>1. /\ View = eeprom /\ off \in heads /\ pc' \in EndPlaces
      /\ UNCHANGED <<cmd, key, data, off, kept, rc, out>>
      /\ off \in Nat /\ off >= 1 /\ eeprom[0] = Magic
      /\ cmd \in {"add", "eepromadd", "clear"} /\ rc = "none" /\ out = {}
  <2>1. off \in heads /\ View = eeprom
    BY InChain, ViewIs DEF StoreInv, PlainInv, Chained, OffInv, EndPlaces
  <2>2. off \in Nat /\ off >= 1 /\ eeprom[0] = Magic
    BY <2>1, HeadsIn, Facts, MagicThere DEF StoreInv, PlainInv, RestInv
  <2>3. cmd \in {"add", "eepromadd", "clear"} /\ rc = "none" /\ out = {}
    BY DEF StoreInv, PlainInv, TypeInv, CmdInv, ItemPlaces, AddPlaces, DelPlaces, RestInv, AnswerInv
  <2> QED BY <2>1, <2>2, <2>3 DEF EndPlaces, regs
<1>2. /\ IsChain(new, heads \cup {b}) /\ new \in Mem
      /\ KeyAt(new, off) = key /\ LenAt(new, off) = Len(data)
      /\ \A o \in heads \ {off} : SameItem(eeprom, new, o)
      /\ KeyAt(new, b) \in {Null, End}
      /\ \A c \in Addr : c \notin {off, off + 1, b, b + 1} => new[c] = eeprom[c]
  BY ViewInsert DEF StoreInv, PlainInv
<1>3. b \notin heads
  <2>1. \A o \in heads : o \in Nat /\ (o + HeadSize <= ItemEnd \/ ItemEnd + HeadSize <= o)
    BY ViewInsert, HeadsIn DEF StoreInv, PlainInv
  <2> QED BY <2>1 DEF HeadSize
<1>4. Once(new, heads \cup {b})
  BY DEF PlainInv, KeyInv
<1>5. KeyAt(new, b) \notin Keys
  BY <1>2, Sizes
<1> HIDE DEF new
<1>6. /\ new[0] = Magic /\ key \in Keys
      /\ Stored(new) = [Stored(eeprom) EXCEPT ![key] = {data}]
  <2>1. b = off \/ (b = ItemEnd /\ b \notin heads)
    BY <1>3
  <2> HIDE DEF b
  <2> QED BY <1>2, <1>4, <1>5, <2>1, ItemStored
<1>7. eeprom'[0] = Magic
  <2>1. 0 \in Addr /\ 0 # off /\ 0 # off + 1
    BY <1>1, Sizes DEF Addr
  <2> QED BY <1>1, <2>1, HeadCells
<1>8. Stored(View)' = [Stored(View) EXCEPT ![key] = {data}]
  BY <1>1, <1>6 DEF new
<1>9. MagicInv'
  <2>1. View'[0] = Magic
    BY <1>6 DEF new
  <2> QED BY <1>1, <1>7, <2>1 DEF MagicInv, EndPlaces
<1>10. DataInv'
  <2>1. Stored(View)'[key] = {data}
    <3>1. DOMAIN Stored(View) = Keys
      BY DEF Stored
    <3> QED BY <1>6, <1>8, <3>1
  <2> QED BY <1>1, <2>1 DEF DataInv, EndPlaces
<1>11. ClearInv'
  <2>1. CASE cmd = "clear"
    <3>1. /\ data = kept[key]
          /\ Stored(View)' = [k \in Keys |-> IF k \in Back \cup {key} THEN {kept[k]} ELSE {}]
      BY <1>8, <2>1, ClearPut DEF AddPlaces, StoreInv, RestInv, ClearInv, ItemPlaces
    <3>2. \A k \in Keys : k \in Back' <=> k \in Back \cup {key}
      <4>1. key \in {Ethaddr, Prodnum}
        BY <2>1 DEF StoreInv, PlainInv, TypeInv, CmdInv
      <4> QED BY <1>1, <4>1 DEF Back, EndPlaces
    <3>3. Stored(View)' = [k \in Keys |-> IF k \in Back' THEN {kept'[k]} ELSE {}]
      BY <1>1, <3>1, <3>2
    <3> QED BY <1>1, <3>1, <3>3 DEF ClearInv, EndPlaces, StartPlaces
  <2>2. CASE cmd # "clear"
    BY <1>1, <2>2 DEF ClearInv, EndPlaces
  <2> QED BY <2>1, <2>2
<1>12. AnswerInv'
  BY <1>1 DEF AnswerInv, NoSpuriousFailure, EndPlaces
<1>13. KS!Change
  <2>1. /\ ~ BeforeImage
        /\ cmd = "clear" => key \in {Ethaddr, Prodnum}
        /\ cmd = "clear" => data = kept[key]
    BY DEF StoreInv, PlainInv, TypeInv, CmdInv, ItemPlaces, AddPlaces, BeforeImage, RestInv, ClearInv
  <2> QED BY <1>1, <1>8, <2>1, PutChange
<1>14. Was' = Was
  BY <1>1 DEF BeforeImage, Was, WasHeld, EndPlaces
<1>15. KSStep
  BY <1>1, <1>13, <1>14, Going DEF KSStep, EndPlaces
<1> QED BY <1>9, <1>10, <1>11, <1>12, <1>15 DEF RestInv

LEMMA StoreSecondHead ==
    ASSUME Quiet, StoreInv, PlainInv', WriteDone, pc \in EndPlaces, Return("ok"),
           UNCHANGED heads
    PROVE  RestInv' /\ KSStep
<1>1. eeprom' = View /\ View' = eeprom'
  BY SecondIsView DEF StoreInv, PlainInv, Return, Enter, View, Unfinished
<1>2. eeprom[0] = Magic /\ View[0] = eeprom[0] /\ Stored(View)[key] = {data}
  BY MagicThere DEF StoreInv, RestInv, MagicInv, DataInv, EndPlaces
<1>3. cmd = "clear" =>
         Stored(View) = [k \in Keys |-> IF k \in Back \cup {key} THEN {kept[k]} ELSE {}]
  <2> SUFFICES ASSUME cmd = "clear"
               PROVE  Stored(View) = [k \in Keys |-> IF k \in Back \cup {key} THEN {kept[k]} ELSE {}]
    OBVIOUS
  <2>1. Stored(View) = [k \in Keys |-> IF k \in Back THEN {kept[k]} ELSE {}]
    BY DEF StoreInv, RestInv, ClearInv, ItemPlaces
  <2>2. \A k \in Keys : k \in Back \cup {key} <=> k \in Back
    <3>1. key \in {Ethaddr, Prodnum}
      BY DEF StoreInv, PlainInv, TypeInv, CmdInv, EndPlaces
    <3> QED BY <3>1 DEF Back
  <2> QED BY <2>1, <2>2
<1> QED BY <1>1, <1>2, <1>3, AddReturn

-----------------------------------------------------------------------------
(* The image of clear_eeprom, and a loss of power.                         *)

LEMMA StoreClearImage ==
    ASSUME Quiet, StoreInv, PlainInv', ClearImage
    PROVE  RestInv' /\ KSStep
<1> DEFINE new == eeprom'
           S == heads'
<1>1. /\ pc = "clrImage" /\ cmd = "clear" /\ UNCHANGED <<cmd, kept, rc, out>> /\ S = {1, 4}
      /\ pc' = "delWalk" /\ key' = Ethaddr /\ data' = kept[Ethaddr]
      /\ new \in Mem /\ new[0] = Magic /\ KeyAt(new, 1) = Null /\ KeyAt(new, 4) = End
      /\ rc = "none" /\ out = {} /\ Ethaddr # Prodnum
  BY Fresh, DbConstants
     DEF Quiet, ClearImage, Enter, StoreInv, PlainInv, TypeInv, CmdInv, RestInv, AnswerInv
<1>2. View = eeprom /\ View' = new
  BY <1>1, ViewIs DEF View, Unfinished, EndPlaces
<1>3. IsChain(new, S) /\ Once(new, S)
  BY <1>1, <1>2 DEF PlainInv, ChainInv, Chained, Unused, KeyInv
<1> HIDE DEF new, S
<1>4. Stored(new) = [k \in Keys |-> {}]
  <2>1. \A k \in Keys : Holds(new, S, k) = {}
    BY <1>1, Sizes DEF Holds
  <2> QED BY <1>1, <1>3, <2>1, StoredHolds
<1>5. Stored(View)' = [k \in Keys |-> {}]
  BY <1>2, <1>4
<1>6. \A k \in {Ethaddr, Prodnum} : Stored(eeprom)[k] = IF kept[k] = <<>> THEN {} ELSE {kept[k]}
  <2> TAKE k \in {Ethaddr, Prodnum}
  <2>1. /\ eeprom[0] = Magic /\ Once(eeprom, heads) /\ k \in Keys
        /\ Stored(eeprom) = [p \in Keys |-> IF eeprom[0] = Magic THEN Holds(eeprom, heads, p) ELSE {}]
    BY <1>1, <1>2, MagicThere, StoreIs, DbConstants DEF StoreInv, PlainInv, KeyInv, RestInv
  <2>2. Before(Size) = heads
    <3>1. \A p \in heads : p < Size
      BY HeadsIn, Sizes DEF StoreInv, PlainInv, Offsets, Addr
    <3> QED BY <3>1 DEF Before
  <2>3. /\ \A p \in heads : KeyAt(eeprom, p) = k => kept[k] = DataAt(eeprom, p) /\ kept[k] # <<>>
        /\ (\A p \in heads : KeyAt(eeprom, p) # k) => kept[k] = <<>>
    BY <1>1, <2>2 DEF StoreInv, RestInv, ClearInv, Copied, Lacks
  <2>4. CASE \A p \in heads : KeyAt(eeprom, p) # k
    <3>1. Holds(eeprom, heads, k) = {}
      BY <2>4 DEF Holds
    <3> QED BY <2>1, <2>3, <2>4, <3>1
  <2>5. ASSUME NEW p \in heads, KeyAt(eeprom, p) = k
        PROVE  Stored(eeprom)[k] = IF kept[k] = <<>> THEN {} ELSE {kept[k]}
    <3>1. Holds(eeprom, heads, k) = {DataAt(eeprom, p)}
      BY <2>1, <2>5, HoldsOne
    <3> QED BY <2>1, <2>3, <2>5, <3>1
  <2> QED BY <2>4, <2>5
<1>7. Was' = Was
  <2>1. Was = [k \in {Ethaddr, Prodnum} |-> Stored(eeprom)[k]]
    BY <1>1 DEF Was, BeforeImage
  <2>2. Was' = WasHeld
    BY <1>1 DEF Was, WasHeld, BeforeImage
  <2> QED BY <1>6, <2>1, <2>2 DEF WasHeld
<1>8. MagicInv'
  BY <1>1, MagicStays DEF new, EndPlaces
<1>9. DataInv' /\ AnswerInv'
  BY <1>1 DEF DataInv, AnswerInv, NoSpuriousFailure, EndPlaces
<1>10. ClearInv'
  <2>1. Back' = {}
    BY <1>1 DEF Back, EndPlaces
  <2> QED BY <1>1, <1>5, <2>1 DEF ClearInv, StartPlaces
<1>11. KSStep
  <2>1. KS!Change
    BY <1>1, <1>5, WipeChange
  <2> QED BY <1>1, <1>7, <2>1, Going DEF KSStep
<1> QED BY <1>8, <1>9, <1>10, <1>11 DEF RestInv

\* The first cell of an exact fit's header stores the item.
LEMMA LostFit ==
    ASSUME StoreInv, PlainInv', pc = "fitHead", pc' = "idle", UNCHANGED heads,
           KeyAt(eeprom', off) = key, \A c \in Addr : c # off => eeprom'[c] = eeprom[c]
    PROVE  /\ eeprom'[0] = Magic
           /\ Stored(eeprom') = [Stored(eeprom) EXCEPT ![key] = {data}]
<1> DEFINE new == eeprom'
<1>1. /\ View' = eeprom' /\ off \in heads /\ IsChain(eeprom, heads) /\ heads \cup {off} = heads
      /\ LenAt(eeprom, off) = Len(data) /\ eeprom \in Mem
  <2>1. Chained /\ View = eeprom /\ eeprom \in Mem
    BY InChain, ViewIs, Facts DEF StoreInv, PlainInv, EndPlaces
  <2>2. off \in heads /\ LenAt(eeprom, off) = Len(data)
    BY <2>1 DEF Chained, OffInv
  <2> QED BY <2>1, <2>2 DEF Chained, View, Unfinished
<1>2. /\ \A o \in heads : o \in Addr /\ o + 1 \in Addr /\ o \in Nat /\ o >= 1
      /\ \A o, p \in heads : o < p => o + HeadSize <= p
  <2>1. \A o \in heads : o >= 1
    BY HeadsIn, Facts DEF StoreInv, PlainInv
  <2> QED BY <1>1, <2>1, ChainFacts
<1>3. new \in Mem
  BY HeadsNext DEF PlainInv
<1>4. /\ LenAt(new, off) = Len(data)
      /\ \A o \in heads \ {off} : SameItem(eeprom, new, o)
      /\ \A c \in Addr : c \notin {off, off + 1, off, off + 1} => new[c] = eeprom[c]
  <2>1. off + 1 # off
    BY <1>1, <1>2
  <2>2. LenAt(new, off) = Len(data)
    BY <1>1, <1>2, <2>1 DEF LenAt
  <2>3. \A o \in heads \ {off} : o # off /\ o + 1 # off
    BY <1>1, <1>2 DEF HeadSize
  <2>4. \A o \in heads \ {off} : SameItem(eeprom, new, o)
    BY <1>2, <2>3 DEF SameItem, KeyAt, LenAt
  <2> QED BY <2>2, <2>4
<1>5. IsChain(new, heads) /\ Once(new, heads)
  <2>1. eeprom[0] = Magic /\ 0 \in Addr /\ 0 # off
    BY <1>1, <1>2, MagicThere, Sizes DEF StoreInv, RestInv, Addr
  <2>2. new[0] = Magic
    BY <2>1
  <2> QED BY <1>1, <2>2 DEF PlainInv, ChainInv, Chained, Unused, KeyInv
<1>6. KeyAt(new, off) = key
  OBVIOUS
<1> HIDE DEF new
<1>7. new[0] = Magic /\ Stored(new) = [Stored(eeprom) EXCEPT ![key] = {data}]
  BY <1>1, <1>3, <1>4, <1>5, <1>6, ItemStored
<1> QED BY <1>7 DEF new

LEMMA StorePowerLoss ==
    ASSUME Quiet, StoreInv, PlainInv', PowerLoss
    PROVE  RestInv' /\ KSStep
<1>1. /\ heads' = heads /\ pc' = "idle" /\ View = eeprom /\ View' = eeprom'
      /\ pc \notin EndPlaces \cup {"idle", "undefined", "initMagic"}
      /\ cmd' = "none" /\ key' = Null /\ data' = <<>> /\ kept' = NoCopy /\ rc' = "none" /\ out' = {}
  BY Lost DEF StoreInv, PlainInv, PowerLoss, Quiet
<1>2. MagicInv' /\ (Stored(View)' = Stored(View) \/ KS!Change)
  <2>1. CASE eeprom' = eeprom
    <3>1. MagicInv'
      BY <1>1, <2>1, StillMagic DEF StoreInv, RestInv, EndPlaces
    <3> QED BY <1>1, <2>1, <3>1
  <2>2. ASSUME pc \in {"addData", "appData"},
               NEW n \in Nat, n <= Len(data), eeprom' = Written(eeprom, off + HeadSize, data, n)
        PROVE  MagicInv' /\ Stored(View)' = Stored(View)
    <3>1. eeprom'[0] = Magic /\ Stored(eeprom') = Stored(eeprom)
      BY <1>1, <2>2, DataStored DEF EndPlaces
    <3> QED BY <1>1, <3>1, MagicStays DEF EndPlaces
  <2>3. CASE /\ pc = "fitHead" /\ KeyAt(eeprom', off) = key
             /\ \A c \in Addr : c # off => eeprom'[c] = eeprom[c]
    <3>1. /\ eeprom'[0] = Magic
          /\ Stored(View)' = [Stored(View) EXCEPT ![key] = {data}]
      BY <1>1, <2>3, LostFit
    <3>2. /\ cmd \in {"add", "eepromadd", "clear"} /\ ~ BeforeImage
          /\ cmd = "clear" => key \in {Ethaddr, Prodnum}
          /\ cmd = "clear" => data = kept[key]
      BY <2>3 DEF StoreInv, PlainInv, TypeInv, CmdInv, ItemPlaces, AddPlaces, DelPlaces, BeforeImage,
                  RestInv, ClearInv
    <3>3. KS!Change
      BY <3>1, <3>2, PutChange
    <3> QED BY <1>1, <3>1, <3>3, MagicStays DEF EndPlaces
  <2> QED BY <2>1, <2>2, <2>3, Lost DEF StoreInv, PlainInv
<1>3. DataInv' /\ ClearInv' /\ AnswerInv'
  BY <1>1 DEF DataInv, ClearInv, AnswerInv, NoSpuriousFailure,
              StartPlaces, ItemPlaces, DelPlaces, AddPlaces, EndPlaces
<1>4. KSStep
  BY <1>1, <1>2, Loses DEF KSStep
<1> QED BY <1>2, <1>3, <1>4 DEF RestInv

-----------------------------------------------------------------------------
(* The whole.                                                              *)

LEMMA RestInit == Init => RestInv /\ KS!Init
<1> SUFFICES ASSUME Init PROVE RestInv /\ KS!Init
  OBVIOUS
<1>1. /\ pc = "idle" /\ cmd = "none" /\ key = Null /\ data = <<>> /\ kept = NoCopy /\ rc = "none"
      /\ out = {} /\ heads = {MagicSize} /\ View = eeprom
  BY DEF Init, View, Unfinished
<1>2. eeprom[0] # Magic /\ KeyAt(eeprom, MagicSize) = Blank /\ LenAt(eeprom, MagicSize) = Blank
  <2>1. 0 \in Addr /\ MagicSize \in Addr /\ MagicSize + 1 \in Addr
    BY Sizes DEF Addr, MagicSize
  <2> QED BY <2>1, DbCells DEF Init, KeyAt, LenAt
<1>3. RestInv
  BY <1>1, <1>2 DEF RestInv, MagicInv, Unused, DataInv, ClearInv, AnswerInv, NoSpuriousFailure,
                    StartPlaces, ItemPlaces, DelPlaces, AddPlaces, EndPlaces
<1>4. KS!Init
  <2>1. Stored(View) = [k \in Keys |-> {}]
    BY <1>1, <1>2, StoredNone
  <2>2. Was = KS!Nothing
    BY <1>1 DEF Was, WasHeld, NoCopy, KS!Nothing
  <2> QED BY <1>1, <2>1, <2>2 DEF KS!Init, Was, WasHeld, Null
<1> QED BY <1>3, <1>4

LEMMA RestStutter ==
    ASSUME RestInv, UNCHANGED vars
    PROVE  RestInv' /\ KSStep
<1>1. View' = View /\ UNCHANGED <<eeprom, heads, pc, cmd, key, data, off, len, prev, kept, rc, out>>
  BY DEF vars, regs, View, Unfinished, Pending, ItemEnd
<1>2. MagicInv' /\ DataInv' /\ AnswerInv'
  BY <1>1 DEF RestInv, MagicInv, Unused, DataInv, AnswerInv, NoSpuriousFailure
<1>3. ClearInv'
  BY <1>1 DEF RestInv, ClearInv, Copied, Before, Lacks, Back
<1>4. KSStep
  BY <1>1, KSVars DEF KSStep, KS!vars, BeforeImage
<1> QED BY <1>2, <1>3, <1>4 DEF RestInv

LEMMA StoreStep ==
    ASSUME Quiet
    PROVE  StoreInv /\ [Next]_vars => StoreInv' /\ KSStep
<1> SUFFICES ASSUME StoreInv, [Next]_vars PROVE StoreInv' /\ KSStep
  OBVIOUS
<1>0. PlainInv'
  BY PlainStep DEF StoreInv
<1> SUFFICES RestInv' /\ KSStep
  BY <1>0 DEF StoreInv
<1>1. CASE \E c \in Commands, k \in Keys, d \in Values \cup {<<>>} : Start(c, k, d)
  BY <1>0, <1>1, StoreStart
<1>2. CASE ReadMagic \/ InitEnd \/ InitMagic
  BY <1>0, <1>2, StoreReadMagic, StoreInitEnd, StoreInitMagic
<1>3. CASE DelWalk \/ DelNext \/ DelSave
  BY <1>0, <1>3, StoreDelWalk, StoreDelNext, StoreDelSave
<1>4. CASE AddSearch \/ AddData \/ AppendData
  BY <1>0, <1>4, StoreAddSearch, StoreData
<1>5. CASE AddHead
  <2>1. CASE pc = "fitHead"
    BY <1>0, <1>5, <2>1, StoreFitHead DEF AddHead, WriteFails, Quiet, Safe
  <2>2. CASE pc = "splitHead"
    BY <1>0, <1>5, <2>2, StoreNewHead DEF AddHead, WriteFails, Quiet, Safe
  <2> QED BY <1>5, <2>1, <2>2 DEF AddHead
<1>6. CASE AppendHead
  BY <1>0, <1>6, StoreNewHead DEF AppendHead, WriteFails, Quiet, Safe
<1>7. CASE AddRest \/ AppendEnd
  BY <1>0, <1>7, StoreSecondHead DEF AddRest, AppendEnd, WriteFails, Quiet, Safe, EndPlaces
<1>8. CASE AppendUndo
  BY <1>8 DEF AppendUndo, ChainInv, PlainInv, StoreInv
<1>9. CASE ClearWalk \/ ClearImage
  BY <1>0, <1>9, StoreClearWalk, StoreClearImage
<1>10. CASE EnvWalk \/ DumpWalk
  BY <1>0, <1>10, StoreEnvWalk, StoreDumpWalk
<1>11. CASE PowerLoss
  BY <1>0, <1>11, StorePowerLoss
<1>12. CASE UNCHANGED vars
  BY <1>12, RestStutter DEF StoreInv
<1> QED
  BY <1>1, <1>2, <1>3, <1>4, <1>5, <1>6, <1>7, <1>8, <1>9, <1>10, <1>11, <1>12
  DEF Next, Step

LEMMA StoreInit == Init => StoreInv
BY TypeInit, ChainInit, PlainInit, RestInit DEF StoreInv, PlainInv

\* On a database with room and while the device works, only deleting a key
\* that is not there fails, and an eeprom_add called by a menu on a device
\* nobody has initialised.
THEOREM FailsForAReason == ASSUME Quiet PROVE Spec => []NoSpuriousFailure
<1>1. StoreInv => NoSpuriousFailure
  BY DEF StoreInv, RestInv, AnswerInv
<1> QED BY <1>1, StoreInit, StoreStep, PTL DEF Spec

\* The database implements KeyStore: whatever add_item, del_item, "edb clear"
\* and "edb toenv" write to the device and return, in whatever order they are
\* called and wherever power is lost outside the windows of Quiet, is what a
\* map from keys to values does and returns.
THEOREM IsKeyStore == ASSUME Quiet PROVE Spec => ImplementsKeyStore
<1>1. Init => KS!Init
  BY RestInit
<1>2. StoreInv /\ [Next]_vars => StoreInv' /\ [KS!Next]_(KS!vars)
  BY StoreStep DEF KSStep
<1> QED BY <1>1, <1>2, StoreInit, PTL DEF Spec, ImplementsKeyStore, KS!Spec
=============================================================================
