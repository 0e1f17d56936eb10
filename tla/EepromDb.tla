------------------------------ MODULE EepromDb ------------------------------
(***************************************************************************)
(* The tagged-item database kept in the I2C EEPROM of the ipbox boards     *)
(* (board/ipbox/common/eeprom_db.c).                                       *)
(*                                                                         *)
(* The EEPROM is an array of cells.  A magic cell is followed by a chain   *)
(* of items, each a header (a key cell and a length cell) and its data;    *)
(* the item whose key is End closes the chain and an item whose key is     *)
(* Null is free space.  Every call of eeprom_read and eeprom_write is one  *)
(* step, so that a device error or a loss of power can come between any    *)
(* two of them, and a write cut short leaves a prefix of its cells.        *)
(*                                                                         *)
(* What a stale cell means when it is read as a header is kept: keys and   *)
(* lengths are small numbers, a cell of a string is a number no key or     *)
(* length reaches (its first byte is never 0), and so is an erased cell.   *)
(***************************************************************************)
EXTENDS Integers, Sequences

CONSTANTS
    Size,          \* cells of the EEPROM (CFG_EEPROM_SIZE)
    ImageSize,     \* cells of the fresh image "edb clear" writes (0x80 bytes)
    CopySize,      \* cells of clear_eeprom's etherdddr and prodNum buffers
    Magic,         \* DB_MAGIC
    Blank,         \* an erased cell
    Keys,          \* keys the callers use (neither Null nor End)
    Ethaddr,       \* db_key_ethaddr
    Prodnum,       \* db_key_prodnum
    Values,        \* strings the callers store
    Commands,      \* operations the callers start
    ReadErrors,    \* TRUE: eeprom_read may fail
    WriteErrors,   \* TRUE: eeprom_write may fail
    PowerLossAt,   \* places where power may be lost
    MindRoom       \* TRUE: callers add only what fits behind the last item

Null == 0
End  == 1
MagicSize == 1     \* DB_MAGIC_SIZE
HeadSize  == 2     \* DB_HEADE_SIZE

Addr    == 0 .. Size - 1
Offsets == { o \in Addr : o >= MagicSize /\ o < Size - HeadSize }

\* "edb clear" writes: magic, a null item of length 1, the end item, zeros.
ImageCell(i) == CASE i = 1 -> Magic [] i = 3 -> 1 [] i = 4 -> Blank
                  [] i = 5 -> End [] OTHER -> 0
Image    == [i \in 1 .. ImageSize |-> ImageCell(i)]
ImageEnd == MagicSize + HeadSize + 1

AllCommands == {"add", "eepromadd", "del", "clear", "toenv", "dump"}

Places == {"idle", "magic", "initEnd", "initMagic", "delWalk", "delNext",
           "delSave", "addSearch", "addData", "fitHead", "splitHead",
           "splitRest", "appData", "appHead", "appEnd", "appUndo",
           "clrWalk", "clrImage", "envWalk", "dumpWalk", "undefined"}

ASSUME DbConstants ==
    /\ Size \in Nat /\ ImageSize \in Nat /\ CopySize \in Nat
    /\ Magic \in Nat /\ Blank \in Nat
    /\ Keys \subseteq Nat \ {Null, End}
    /\ Ethaddr \in Keys /\ Prodnum \in Keys /\ Ethaddr # Prodnum
    /\ Values \subseteq Seq(Nat)
    /\ Commands \subseteq AllCommands
    /\ ReadErrors \in BOOLEAN /\ WriteErrors \in BOOLEAN /\ MindRoom \in BOOLEAN
    /\ PowerLossAt \subseteq Places \ {"idle", "undefined"}

\* A string cell and an erased cell are no key, no length and not the magic.
ASSUME DbCells ==
    /\ Blank >= Size /\ Blank # Magic /\ Blank \notin Keys
    /\ \A v \in Values : \A i \in 1 .. Len(v) : v[i] >= Size /\ v[i] # Magic

\* An empty database holds any value, a cleared one both copied values.
ASSUME DbRoom ==
    /\ \A v \in Values : MagicSize + 2 * HeadSize + Len(v) < Size
    /\ ImageSize > ImageEnd + 1 /\ ImageSize <= Size
    /\ CopySize >= 1
    /\ "clear" \in Commands => ImageEnd + 3 * HeadSize + 2 * (CopySize - 1) < Size

VARIABLES
    eeprom,  \* the device
    heads,   \* history: the offsets of the items the writes have chained
    pc,      \* the call the firmware is about to make
    cmd,     \* the operation started last
    key,     \* add_item / del_item / search_item: the key argument
    data,    \* add_item: the data argument
    off,     \* the walk's offset
    len,     \* the length of the item at off, with what it was merged with
    prev,    \* del_item: last_offset, last_keytmp, last_len
    kept,    \* clear_eeprom: the copies etherdddr and prodNum
    rc,      \* what the operation returned
    out      \* toenv: what it put into the environment

regs == <<cmd, key, data, off, len, prev, kept, rc, out>>
vars == <<eeprom, heads, pc, regs>>

NoPrev == [off |-> 0, key |-> End, len |-> 0]
Garbage == <<0>>   \* the uninitialised buffer of "edb toenv"
NoCopy == [k \in {Ethaddr, Prodnum} |-> <<>>]

KeyAt(mem, o) == mem[o]
LenAt(mem, o) == mem[o + 1]
NextOfWrapped(mem, o) == (o + HeadSize + LenAt(mem, o)) % Size   \* a bug: a narrow offset
NextOf(mem, o) == o + HeadSize + LenAt(mem, o)
DataAt(mem, o) == [i \in 1 .. LenAt(mem, o) |-> mem[(o + HeadSize + i - 1) % Size]]

\* read_item and search_item refuse a header they think is out of range.
InRangeTight(o) == o + HeadSize < Size - HeadSize   \* a bug: one header too early
InRange(o) == o < Size - HeadSize

\* The device after the first n of the cells were written from address a on
\* (a < 2 * Size); the address counter of the device wraps.
Written(mem, a, cells, n) ==
    LET b == IF a < Size THEN a ELSE a - Size
        i(c) == IF c >= b THEN c - b ELSE c + Size - b
    IN  [c \in Addr |-> IF i(c) < n THEN cells[i(c) + 1] ELSE mem[c]]

Header(k, l) == <<k, l>>
ItemEnd == off + HeadSize + Len(data)   \* of add_item's new item

\* A bug: save_item writes the header before the data of an exact fit.
PendingHeadFirst ==
    CASE pc = "initEnd"   -> [at |-> MagicSize, cells |-> Header(End, 0)]
      [] pc = "initMagic" -> [at |-> 0, cells |-> <<Magic>>]
      [] pc = "delSave"   -> [at |-> off, cells |-> Header(Null, len)]
      [] pc = "addData"   -> [at |-> off, cells |-> Header(key, Len(data))]
      [] pc = "fitHead" /\ data # <<>> -> [at |-> off + HeadSize, cells |-> data]
      [] pc = "appData"   -> [at |-> off + HeadSize, cells |-> data]
      [] pc \in {"fitHead", "splitHead", "appHead"}
                          -> [at |-> off, cells |-> Header(key, Len(data))]
      [] pc = "splitRest" -> [at |-> ItemEnd,
                              cells |-> Header(Null, len - Len(data) - HeadSize)]
      [] pc = "appEnd"    -> [at |-> ItemEnd, cells |-> Header(End, 0)]
      [] OTHER            -> [at |-> 0, cells |-> Image]

\* The eeprom_write the firmware is about to make: where, and which cells.
Pending ==
    CASE pc = "initEnd"   -> [at |-> MagicSize, cells |-> Header(End, 0)]
      [] pc = "initMagic" -> [at |-> 0, cells |-> <<Magic>>]
      [] pc = "delSave"   -> [at |-> off, cells |-> Header(Null, len)]
      [] pc \in {"addData", "appData"}
                          -> [at |-> off + HeadSize, cells |-> data]
      [] pc \in {"fitHead", "splitHead", "appHead"}
                          -> [at |-> off, cells |-> Header(key, Len(data))]
      [] pc = "splitRest" -> [at |-> ItemEnd,
                              cells |-> Header(Null, len - Len(data) - HeadSize)]
      [] pc = "appEnd"    -> [at |-> ItemEnd, cells |-> Header(End, 0)]
      [] pc = "appUndo"   -> [at |-> off, cells |-> Header(End, 0)]
      [] pc = "clrImage"  -> [at |-> 0, cells |-> Image]
      [] OTHER            -> [at |-> 0, cells |-> <<>>]

WriteDone == eeprom' = Written(eeprom, Pending.at, Pending.cells, Len(Pending.cells))
WriteCut  == \E n \in 0 .. Len(Pending.cells) - 1 :
                eeprom' = Written(eeprom, Pending.at, Pending.cells, n)
WriteFails == WriteErrors /\ WriteCut

-----------------------------------------------------------------------------
(* The chain of items as a set of header offsets.                          *)

IsChain(mem, S) ==
    /\ MagicSize \in S /\ S \subseteq Offsets
    /\ \A o, p \in S : o < p => NextOf(mem, o) <= p
    /\ \E e \in S :
          /\ KeyAt(mem, e) = End
          /\ \A o \in S \ {e} : o < e /\ KeyAt(mem, o) # End /\ NextOf(mem, o) \in S

\* An item of n cells and a new end item do not fit behind the chain: what
\* the callers of add_item have to mind, which does not.
Crowded(n) == \E e \in heads : e + 2 * HeadSize + n >= Size

-----------------------------------------------------------------------------
Init ==
    /\ eeprom = [a \in Addr |-> Blank] /\ heads = {MagicSize}
    /\ pc = "idle" /\ cmd = "none" /\ key = Null /\ data = <<>>
    /\ off = 0 /\ len = 0 /\ prev = NoPrev /\ kept = NoCopy
    /\ rc = "none" /\ out = {}

\* A bug: add_item does not delete the key first.
EnterNoDelete(k, d) ==
    /\ pc' = "addSearch" /\ key' = k /\ data' = d
    /\ off' = MagicSize /\ len' = 0 /\ prev' = NoPrev

\* The entry of add_item and of del_item: del_item's walk starts.
Enter(k, d) ==
    /\ pc' = "delWalk" /\ key' = k /\ data' = d
    /\ off' = MagicSize /\ len' = 0 /\ prev' = NoPrev

\* What follows a return: clear_eeprom goes on with its second add_item and
\* reports success whatever happened; everything else is over.
BeforeDispatch == pc \in {"magic", "initEnd", "initMagic"}

Return(code) ==
    IF cmd = "clear" /\ key = Ethaddr /\ ~BeforeDispatch /\ pc # "clrWalk"
      THEN /\ Enter(Prodnum, kept[Prodnum])
           /\ UNCHANGED <<cmd, kept, rc, out>>
      ELSE /\ pc' = "idle" /\ off' = 0 /\ len' = 0 /\ prev' = NoPrev
           /\ rc' = IF cmd = "clear" /\ ~BeforeDispatch THEN "ok" ELSE code
           /\ UNCHANGED <<cmd, key, data, kept, out>>

\* An operation of the command line, or eeprom_add called by a menu.
Start(c, k, d) ==
    /\ pc = "idle"
    /\ ~(c \in {"add", "eepromadd"} /\ MindRoom /\ Crowded(Len(d)))
    /\ c \in {"clear", "dump"} => k = Ethaddr
    /\ c \notin {"add", "eepromadd"} => d = <<>>
    /\ cmd' = c /\ rc' = "none" /\ out' = {} /\ kept' = NoCopy
    /\ IF c = "eepromadd"
         THEN Enter(k, d)
         ELSE /\ pc' = "magic" /\ key' = k /\ data' = d
              /\ UNCHANGED <<off, len, prev>>
    /\ UNCHANGED <<eeprom, heads>>

\* do_edb behind the test of the magic.
Dispatch ==
    /\ CASE cmd \in {"add", "del"} -> pc' = "delWalk"
         [] cmd = "clear"          -> pc' = "clrWalk"
         [] cmd = "toenv"          -> pc' = "envWalk"
         [] cmd = "dump"           -> pc' = "dumpWalk"
    /\ off' = MagicSize
    /\ UNCHANGED <<cmd, key, data, len, prev, kept, rc, out>>

ReadMagic ==
    /\ pc = "magic"
    /\ \/ ReadErrors /\ Return("failed")
       \/ eeprom[0] = Magic /\ Dispatch
       \/ eeprom[0] # Magic /\ pc' = "initEnd" /\ UNCHANGED regs
    /\ UNCHANGED <<eeprom, heads>>

InitEnd ==
    /\ pc = "initEnd"
    /\ \/ WriteDone /\ heads' = {MagicSize} /\ pc' = "initMagic" /\ UNCHANGED regs
       \/ WriteFails /\ UNCHANGED heads /\ Return("failed")

InitMagic ==
    /\ pc = "initMagic"
    /\ \/ WriteDone /\ Dispatch
       \/ WriteFails /\ Return("failed")
    /\ UNCHANGED heads

-----------------------------------------------------------------------------
(* del_item                                                                *)

\* add_item does not look at what del_item returned.
DelReturn(code) ==
    IF cmd = "del" THEN Return(code)
    ELSE /\ pc' = "addSearch" /\ off' = MagicSize /\ len' = 0 /\ prev' = NoPrev
         /\ UNCHANGED <<cmd, key, data, kept, rc, out>>

\* One turn of the loop.  It is left through a match or through an error: its
\* condition tests the wanted key, so it runs past the end item.
DelWalk ==
    /\ pc = "delWalk"
    /\ \/ (ReadErrors \/ ~InRange(off)) /\ DelReturn("failed")
       \/ /\ InRange(off) /\ KeyAt(eeprom, off) = key
          /\ pc' = "delNext" /\ len' = LenAt(eeprom, off)
          /\ UNCHANGED <<cmd, key, data, off, prev, kept, rc, out>>
       \/ /\ InRange(off) /\ KeyAt(eeprom, off) # key
          /\ prev' = [off |-> off, key |-> KeyAt(eeprom, off), len |-> LenAt(eeprom, off)]
          /\ off' = NextOf(eeprom, off)
          /\ UNCHANGED <<pc, cmd, key, data, len, kept, rc, out>>
    /\ UNCHANGED <<eeprom, heads>>

\* The item to save: the freed one of length l, merged with the previous one
\* if that is free.  The two before it are bugs.
MergedNoPrev(l)     == [off |-> off, len |-> l]
MergedShort(l)      == IF prev.key = Null THEN [off |-> prev.off, len |-> l + prev.len]
                       ELSE [off |-> off, len |-> l]
MergedWithPrev(l)   == IF prev.key = Null
                         THEN [off |-> prev.off, len |-> l + prev.len + HeadSize]
                         ELSE [off |-> off, len |-> l]

\* The following item, to merge with; an unreadable one is left alone.
DelNext ==
    /\ pc = "delNext" /\ pc' = "delSave"
    /\ LET next == off + HeadSize + len
           Save(l) == off' = MergedWithPrev(l).off /\ len' = MergedWithPrev(l).len
       IN  \/ (ReadErrors \/ ~InRange(next)) /\ Save(len)
           \/ InRange(next) /\ KeyAt(eeprom, next) # Null /\ Save(len)
           \/ /\ InRange(next) /\ KeyAt(eeprom, next) = Null
              /\ Save(len + HeadSize + LenAt(eeprom, next))
    /\ UNCHANGED <<eeprom, heads, cmd, key, data, prev, kept, rc, out>>

DelSave ==
    /\ pc = "delSave"
    /\ \/ /\ WriteDone /\ DelReturn("ok")
          /\ heads' = { o \in heads : o <= off \/ o >= off + HeadSize + len }
       \/ WriteFails /\ UNCHANGED heads /\ DelReturn("failed")

-----------------------------------------------------------------------------
(* add_item behind its del_item; save_item writes the data, then the header. *)

SkipsData == data = <<>>

FitsLoosely(l) == l >= Len(data)   \* a bug: no room for the rest's header
Fits(l) == l = Len(data) \/ l >= Len(data) + HeadSize

\* One turn of search_item's loop for a null item, and of the loop around it.
AddSearch ==
    /\ pc = "addSearch"
    /\ \/ (ReadErrors \/ ~InRange(off)) /\ Return("failed")
       \/ /\ InRange(off) /\ len' = LenAt(eeprom, off)
          /\ LET free == KeyAt(eeprom, off) = Null /\ Fits(LenAt(eeprom, off))
             IN \/ /\ free /\ UNCHANGED off
                   /\ pc' = CASE ~SkipsData                    -> "addData"
                             [] SkipsData /\ LenAt(eeprom, off) = 0 -> "fitHead"
                             [] OTHER                         -> "splitHead"
                \/ /\ KeyAt(eeprom, off) = End /\ UNCHANGED off
                   /\ pc' = IF SkipsData THEN "appHead" ELSE "appData"
                \/ /\ KeyAt(eeprom, off) # End /\ ~free /\ UNCHANGED pc
                   /\ off' = NextOf(eeprom, off)
          /\ UNCHANGED <<cmd, key, data, prev, kept, rc, out>>
    /\ UNCHANGED <<eeprom, heads>>

AddData ==
    /\ pc = "addData"
    /\ \/ /\ WriteDone /\ pc' = IF len = Len(data) THEN "fitHead" ELSE "splitHead"
          /\ UNCHANGED regs
       \/ WriteFails /\ Return("failed")
    /\ UNCHANGED heads

\* The header of the item: over the null item's when it fits exactly, or with
\* a null item for the rest still to be written behind it.
AddHead ==
    \/ /\ pc = "fitHead"
       /\ \/ WriteDone /\ Return("ok")
          \/ WriteFails /\ Return("failed")
       /\ UNCHANGED heads
    \/ /\ pc = "splitHead"
       /\ \/ WriteDone /\ heads' = heads \cup {ItemEnd} /\ pc' = "splitRest" /\ UNCHANGED regs
          \/ WriteFails /\ UNCHANGED heads /\ Return("failed")

AddRest ==
    /\ pc = "splitRest"
    /\ \/ WriteDone /\ Return("ok")
       \/ WriteFails /\ Return("failed")
    /\ UNCHANGED heads

AppendData ==
    /\ pc = "appData"
    /\ \/ WriteDone /\ pc' = "appHead" /\ UNCHANGED regs
       \/ WriteFails /\ pc' = "appUndo" /\ UNCHANGED regs
    /\ UNCHANGED heads

AppendHead ==
    /\ pc = "appHead"
    /\ \/ WriteDone /\ heads' = heads \cup {ItemEnd} /\ pc' = "appEnd" /\ UNCHANGED regs
       \/ WriteFails /\ UNCHANGED heads /\ pc' = "appUndo" /\ UNCHANGED regs

AppendEnd ==
    /\ pc = "appEnd"
    /\ \/ WriteDone /\ Return("ok")
       \/ WriteFails /\ Return("failed")
    /\ UNCHANGED heads

AppendUndo ==
    /\ pc = "appUndo"
    /\ (WriteDone \/ WriteFails) /\ Return("failed")
    /\ UNCHANGED heads

-----------------------------------------------------------------------------
(* clear_eeprom, "edb toenv" and the dump                                  *)

\* An item without data leaves buflen at 255; copying that many cells, or more
\* than the copy holds with its final 0, is undefined.
Copies(l) == 0 < l /\ l < CopySize

ClearWalk ==
    /\ pc = "clrWalk"
    /\ \/ (ReadErrors \/ ~InRange(off)) /\ Return("failed")
       \/ /\ InRange(off)
          /\ LET k == KeyAt(eeprom, off)
                 l == LenAt(eeprom, off)
             IN \/ /\ k \in {Ethaddr, Prodnum} /\ ~Copies(l)
                   /\ pc' = "undefined" /\ UNCHANGED <<off, kept>>
                \/ /\ k \in {Ethaddr, Prodnum} => Copies(l)
                   /\ kept' = IF k \in {Ethaddr, Prodnum}
                                THEN [kept EXCEPT ![k] = DataAt(eeprom, off)] ELSE kept
                   /\ off' = NextOf(eeprom, off)
                   /\ pc' = IF k = End THEN "clrImage" ELSE "clrWalk"
          /\ UNCHANGED <<cmd, key, data, len, prev, rc, out>>
    /\ UNCHANGED <<eeprom, heads>>

\* Whether the image was written is not tested, nor what add_item returns.
ClearImage ==
    /\ pc = "clrImage" /\ (WriteDone \/ WriteFails)
    /\ heads' = {MagicSize, ImageEnd}
    /\ Enter(Ethaddr, kept[Ethaddr])
    /\ UNCHANGED <<cmd, kept, rc, out>>

\* search_item for key; an item without data leaves buf as it was.
EnvWalk ==
    /\ pc = "envWalk"
    /\ \/ (ReadErrors \/ ~InRange(off)) /\ Return("failed")
       \/ /\ InRange(off) /\ KeyAt(eeprom, off) = key
          /\ out' = {IF LenAt(eeprom, off) = 0 THEN Garbage ELSE DataAt(eeprom, off)}
          /\ pc' = "idle" /\ rc' = "ok" /\ off' = 0
          /\ UNCHANGED <<cmd, key, data, len, prev, kept>>
       \/ /\ InRange(off) /\ KeyAt(eeprom, off) = End /\ key # End
          /\ Return("no such key")
       \/ /\ InRange(off) /\ KeyAt(eeprom, off) \notin {key, End}
          /\ off' = NextOf(eeprom, off)
          /\ UNCHANGED <<pc, cmd, key, data, len, prev, kept, rc, out>>
    /\ UNCHANGED <<eeprom, heads>>

DumpWalk ==
    /\ pc = "dumpWalk"
    /\ \/ (ReadErrors \/ ~InRange(off)) /\ Return("failed")
       \/ InRange(off) /\ KeyAt(eeprom, off) = End /\ Return("ok")
       \/ /\ InRange(off) /\ KeyAt(eeprom, off) # End
          /\ off' = NextOf(eeprom, off)
          /\ UNCHANGED <<pc, cmd, key, data, len, prev, kept, rc, out>>
    /\ UNCHANGED <<eeprom, heads>>

-----------------------------------------------------------------------------
\* Power goes: of a write under way any part may be on the device.  The first
\* cell of an end item ends the chain.
PowerLoss ==
    /\ pc \in PowerLossAt
    /\ UNCHANGED eeprom \/ WriteCut
    /\ heads' = IF pc = "initEnd" /\ eeprom' # eeprom THEN {MagicSize} ELSE heads
    /\ pc' = "idle" /\ cmd' = "none" /\ key' = Null /\ data' = <<>>
    /\ off' = 0 /\ len' = 0 /\ prev' = NoPrev /\ kept' = NoCopy
    /\ rc' = "none" /\ out' = {}

Step ==
    \/ ReadMagic \/ InitEnd \/ InitMagic
    \/ DelWalk \/ DelNext \/ DelSave
    \/ AddSearch \/ AddData \/ AddHead \/ AddRest
    \/ AppendData \/ AppendHead \/ AppendEnd \/ AppendUndo
    \/ ClearWalk \/ ClearImage \/ EnvWalk \/ DumpWalk

Next ==
    \/ \E c \in Commands, k \in Keys, d \in Values \cup {<<>>} : Start(c, k, d)
    \/ Step
    \/ PowerLoss

Spec     == Init /\ [][Next]_vars
FairSpec == Spec /\ WF_vars(Step)

-----------------------------------------------------------------------------
(* What the database looks like from outside.                              *)

\* A chain is longer than the header now on the device says while the second
\* header of a split or of an append is still to be written.
Unfinished == pc \in {"splitRest", "appEnd"}
View == IF Unfinished THEN Written(eeprom, Pending.at, Pending.cells, HeadSize)
        ELSE eeprom

\* The offsets a walk over the device comes to, up to the end item.
Walk(mem) ==
    LET reach[o \in 0 .. Size - 1] ==
            IF ~InRange(o) THEN {}
            ELSE {o} \cup (IF KeyAt(mem, o) = End \/ ~InRange(NextOf(mem, o)) THEN {}
                           ELSE reach[NextOf(mem, o)])
    IN  reach[MagicSize]

FirstOf(S) == CHOOSE o \in S : \A p \in S : o <= p

\* What a search in the chain finds for each key: at most one value.
Stored(mem) ==
    [k \in Keys |->
        LET at == { o \in Walk(mem) : KeyAt(mem, o) = k }
        IN  IF mem[0] # Magic \/ at = {} THEN {} ELSE {DataAt(mem, FirstOf(at))}]

-----------------------------------------------------------------------------
TypeOK ==
    /\ eeprom \in [Addr -> Nat]
    /\ pc \in Places
    /\ cmd \in Commands \cup {"none"}
    /\ key \in Keys \cup {Null} /\ data \in Seq(Nat)
    /\ off \in Nat /\ len \in Nat
    /\ prev \in [off : Nat, key : Nat, len : Nat]
    /\ kept \in [{Ethaddr, Prodnum} -> Seq(Nat)]
    /\ rc \in {"none", "ok", "failed", "no such key"}
    /\ out \in SUBSET Seq(Nat)

\* A database with its magic can be read to its end item, whatever was
\* inserted, split, merged, appended or cut off by a loss of power before:
\* the chain save_item leaves behind add_item, del_item and clear_eeprom.
Readable == eeprom[0] = Magic => IsChain(View, heads)

\* add_item deletes the key before it stores it and del_item finds it wherever
\* it is: no key is in the chain twice.
NoDuplicates ==
    eeprom[0] = Magic =>
        \A o, p \in Walk(View) :
            KeyAt(View, o) = KeyAt(View, p) /\ KeyAt(View, o) \in Keys => o = p

\* del_item merges a freed item with the free ones on both sides, so that free
\* space is never cut into neighbouring pieces that are each too small.
Coalesced ==
    eeprom[0] = Magic =>
        \A o \in Walk(View) :
            LET p == NextOf(View, o)
            IN  KeyAt(View, o) = Null /\ p \in Walk(View) => KeyAt(View, p) # Null

\* Without device errors an initialised database with room for the item stores
\* it: add_item does not fail, and only a missing key fails to be deleted.
NoSpuriousFailure ==
    rc = "failed" =>
        \/ cmd = "del" /\ Stored(eeprom)[key] = {}
        \/ cmd = "eepromadd" /\ eeprom[0] # Magic

\* add_item that reports success has stored the item
\* (line 318, "search enough space to store the item").
AddStores ==
    pc = "idle" /\ cmd = "add" /\ rc = "ok" => Stored(eeprom)[key] = {data}

\* Every operation comes to its end: each walk leaves the device at the end
\* item or by its offset, whatever the headers it reads.
Terminates == pc # "idle" ~> pc \in {"idle", "undefined"}

-----------------------------------------------------------------------------
(* The database implements KeyStore.                                       *)

BeforeImage == pc \in {"magic", "initEnd", "initMagic", "clrWalk", "clrImage", "undefined"}

KS == INSTANCE KeyStore WITH
        Protected   <- {Ethaddr, Prodnum},
        AddCommands <- {"add", "eepromadd"},
        store <- Stored(View),
        busy  <- pc # "idle",
        key   <- IF cmd = "clear" THEN Ethaddr ELSE key,
        data  <- IF cmd = "clear" THEN <<>> ELSE data,
        was   <- IF cmd = "clear" /\ BeforeImage
                   THEN [k \in {Ethaddr, Prodnum} |-> Stored(eeprom)[k]]
                   ELSE [k \in {Ethaddr, Prodnum} |->
                            IF kept[k] = <<>> THEN {} ELSE {kept[k]}]

\* Every step of the database is a step of KeyStore or invisible there.
ImplementsKeyStore == KS!Spec

=============================================================================
