---------------------------- MODULE FlashProofs ----------------------------
(***************************************************************************)
(* The drivers for Intel flash and the branches for AMD chips beside them, *)
(* for any chip, width of its bus and number of faults: a call that        *)
(* returns 0 has done what it says.                                        *)
(***************************************************************************)
EXTENDS MCRom, WellFoundedInduction, TLAPS

romVars == <<part, flashVars, initVars, fileVars>>

-----------------------------------------------------------------------------
(* The inductive invariant.                                                *)

CallKinds  == {"none", "erase", "write", "lock", "unlock"}
CallPlaces == {"idle", "run", "relock", "returned"}
CallsWith(d) ==
  [kind : CallKinds, first : Nat, last : Nat, data : {d}, at : Nat, ret : 0..2,
   place : CallPlaces, unseen : BOOLEAN, before : SUBSET Flash!Sects, clean : BOOLEAN]

\* The chip, the table of the driver and the call have their types; what the chip is told to lock
\* is one of its sectors.
FlashTyped ==
  /\ driver \in {"strata", "dbox2", "amd"}
  /\ cells \in [Flash!Bytes -> SUBSET ByteBits]
  /\ locked \subseteq Flash!Sects /\ protect \subseteq Flash!Sects
  /\ faults \in 0..FlashFaults
  /\ op \in CallsWith(op.data)
  /\ wsm.work.kind = "lock" => wsm.work.at \subseteq Flash!Sects
  /\ wsm.status \in BOOLEAN

\* A call is within the chip, and within what it was asked for.
CallInRange ==
  /\ op.place = "idle" => op.kind = "none"
  /\ op.kind = "none" => op.at = 0
  /\ op.place = "relock" => op.kind = "unlock" /\ driver = "strata" /\ op.ret = 0
  /\ op.place = "run" => op.ret = 0 \/ (op.kind = "erase" /\ driver # "amd")
  /\ op.kind = "erase" =>
       /\ op.first <= op.at /\ op.at <= op.last + 1 /\ op.first <= op.last /\ op.last < Sectors
       /\ driver = "amd" => op.at = op.first
  /\ op.kind = "write" =>
       op.first <= op.at /\ op.at <= op.last /\ op.last < Sectors * SectorBytes
  /\ op.kind \in {"lock", "unlock"} =>
       /\ op.first < Sectors /\ op.at <= Sectors
       /\ op.place = "run" => op.at = op.first

\* A call OkIsDone speaks of, if it goes on like this.
Undisturbed == op.place # "idle" /\ op.clean /\ ~op.unseen /\ op.ret = 0

\* The chip is at rest between the commands of such a call, and the table of the driver agrees with
\* it, but while the driver gives the locks back it lost.
ChipFollows ==
  Undisturbed =>
    /\ wsm.work = Flash!NoCommand /\ ~wsm.status
    /\ op.place = "run" => protect = locked /\ op.before = locked
    /\ op.place = "run" /\ op.kind = "write" =>
         \A b \in op.first..op.last : Flash!SectorOf(b) \notin protect
    /\ op.place = "relock" =>
         protect = op.before \ {op.first} /\ locked = {s \in protect : s < op.at}

\* And what lies behind it is done.
DoneSoFar ==
  Undisturbed /\ op.place = "run" =>
    /\ op.kind = "erase" /\ driver # "amd" =>
         \A b \in Flash!Bytes :
           Flash!SectorOf(b) \in (op.first..(op.at - 1)) \ protect => cells[b] = ByteBits
    /\ op.kind = "write" => \A b \in op.first..(op.at - 1) : cells[b] = op.data[b]

FlashInv == FlashTyped /\ CallInRange /\ ChipFollows /\ DoneSoFar /\ Flash!OkIsDone

-----------------------------------------------------------------------------
(* Numbers and records.                                                    *)

LEMMA FlashHasSizes ==
  /\ Sectors \in Nat \ {0} /\ PortWidth \in Nat \ {0} /\ SectorBytes \in Nat \ {0}
  /\ FlashFaults \in Nat /\ Sectors * SectorBytes \in Nat /\ Sectors <= Sectors * SectorBytes
<1>1. /\ Sectors \in Nat \ {0} /\ PortWidth \in Nat \ {0} /\ SectorBytes \in Nat \ {0}
      /\ FlashFaults \in Nat
  BY PartsAssumption DEF Flash!FlashSizes
<1>2. \A m, n \in Nat \ {0} : m * n \in Nat /\ m <= m * n
  OBVIOUS
<1> QED BY <1>1, <1>2

\* A set of numbers has a smallest one.
LEMMA Least ==
  ASSUME NEW S, S \subseteq Nat, S # {} PROVE \E x \in S : \A y \in S : x <= y
<1> DEFINE R == {p \in Nat \X Nat : p[1] < p[2]}
<1>1. IsWellFoundedOn(R, Nat)
  <2>1. R = OpToRel(<, Nat)
    BY DEF OpToRel
  <2> QED BY <2>1, NatLessThanWellFounded, Zenon
<1> HIDE DEF R
<1>2. PICK x \in S : \A y \in S : ~(<<y, x>> \in R)
  BY <1>1, WFMin
<1>3. \A y \in S : y < x => <<y, x>> \in R
  BY DEF R
<1>4. \A y \in S : ~ (y < x)
  BY <1>2, <1>3
<1>5. \A y \in S : x <= y
  BY <1>4
<1> QED BY <1>5

LEMMA SectsAreNumbers == Flash!Sects \subseteq Nat
BY DEF Flash!Sects

LEMMA WordIs ==
  ASSUME NEW b \in Nat
  PROVE  /\ Flash!WordOf(b) \in Nat /\ Flash!WordOf(b) <= b /\ b < Flash!WordOf(b) + PortWidth
<1>1. \A n \in Nat \ {0} : b % n \in 0..(n - 1) /\ b % n <= b
  <2> TAKE n \in Nat \ {0}
  <2>1. b % n \in 0..(n - 1)
    BY SMTT(20)
  <2>2. b % n <= b
    BY SMTT(20)
  <2> QED BY <2>1, <2>2
<1> QED BY <1>1, FlashHasSizes DEF Flash!WordOf

LEMMA CommandIs ==
  ASSUME NEW k, NEW at, NEW d
  PROVE  /\ Flash!Command(k, at, d).kind = k /\ Flash!Command(k, at, d).at = at
         /\ Flash!Command(k, at, d).data = d
BY DEF Flash!Command

LEMMA NoCommandIs == Flash!NoCommand.kind = "none"
BY CommandIs DEF Flash!NoCommand

\* The call after a step of it.
LEMMA PassedIs ==
  ASSUME FlashTyped, NEW r, NEW o, o = Flash!Passed(r)
  PROVE  /\ o \in CallsWith(o.data) /\ (o.unseen <=> op.unseen \/ r # "ok")
         /\ o.kind = op.kind /\ o.first = op.first /\ o.last = op.last /\ o.data = op.data
         /\ o.at = op.at /\ o.ret = op.ret /\ o.place = op.place
         /\ o.before = op.before /\ o.clean = op.clean
<1> DEFINE u == op.unseen \/ r # "ok"
<1>1. op \in CallsWith(op.data) /\ u \in BOOLEAN
  BY DEF FlashTyped
<1>2. o = [op EXCEPT !.unseen = u]
  BY <1>1 DEF Flash!Passed, CallsWith
<1> HIDE DEF u
<1>3. /\ o \in CallsWith(o.data) /\ o.unseen = u
      /\ o.kind = op.kind /\ o.first = op.first /\ o.last = op.last /\ o.data = op.data
      /\ o.at = op.at /\ o.ret = op.ret /\ o.place = op.place
      /\ o.before = op.before /\ o.clean = op.clean
  BY <1>1, <1>2 DEF CallsWith
<1> QED BY <1>3 DEF u

LEMMA GoesOnIs ==
  ASSUME NEW o, o \in CallsWith(o.data), NEW n \in Nat, Flash!GoesOn(o, n)
  PROVE  /\ op' \in CallsWith(op'.data) /\ op'.at = n /\ op'.unseen = o.unseen
         /\ op'.kind = o.kind /\ op'.first = o.first /\ op'.last = o.last /\ op'.data = o.data
         /\ op'.ret = o.ret /\ op'.place = o.place /\ op'.before = o.before /\ op'.clean = o.clean
BY DEF Flash!GoesOn, CallsWith

LEMMA ReturnsIs ==
  ASSUME NEW o, o \in CallsWith(o.data), NEW v \in 0..2, Flash!Returns(o, v)
  PROVE  /\ op' \in CallsWith(op'.data) /\ op'.ret = v /\ op'.place = "returned"
         /\ op'.unseen = o.unseen /\ op'.at = o.at
         /\ op'.kind = o.kind /\ op'.first = o.first /\ op'.last = o.last /\ op'.data = o.data
         /\ op'.before = o.before /\ op'.clean = o.clean
<1> DEFINE s == "returned"
           q == [o EXCEPT !.place = s]
<1>1. op' = [q EXCEPT !.ret = v]
  BY DEF Flash!Returns
<1>2. s \in CallPlaces
  BY DEF CallPlaces
<1> HIDE DEF s
<1>3. /\ q \in CallsWith(q.data) /\ q.place = s
      /\ q.unseen = o.unseen /\ q.at = o.at
      /\ q.kind = o.kind /\ q.first = o.first /\ q.last = o.last /\ q.data = o.data
      /\ q.before = o.before /\ q.clean = o.clean
  BY <1>2 DEF CallsWith
<1> HIDE DEF q
<1>4. /\ op' \in CallsWith(op'.data) /\ op'.ret = v /\ op'.place = q.place
      /\ op'.unseen = q.unseen /\ op'.at = q.at
      /\ op'.kind = q.kind /\ op'.first = q.first /\ op'.last = q.last /\ op'.data = q.data
      /\ op'.before = q.before /\ op'.clean = q.clean
  BY <1>1, <1>3 DEF CallsWith
<1> QED BY <1>3, <1>4 DEF s

-----------------------------------------------------------------------------
(* The commands and the chip.                                              *)

\* A call that is disturbed promises nothing any more.
LEMMA Disturbed ==
  ASSUME ~Undisturbed' PROVE ChipFollows' /\ DoneSoFar' /\ Flash!OkIsDone'
BY DEF Undisturbed, ChipFollows, DoneSoFar, Flash!OkIsDone

LEMMA NextIs ==
  ASSUME FlashTyped, Flash!ToLock # {}
  PROVE  /\ Flash!NextToLock \in Flash!ToLock
         /\ \A t \in Flash!ToLock : Flash!NextToLock <= t
<1>1. Flash!ToLock \subseteq Nat
  BY SectsAreNumbers DEF FlashTyped, Flash!ToLock
<1>2. \E s \in Flash!ToLock : \A t \in Flash!ToLock : s <= t
  BY <1>1, Least
<1> QED BY <1>2 DEF Flash!NextToLock

LEMMA LockGiven ==
  ASSUME FlashTyped, CallInRange
  PROVE  Flash!Given.kind = "lock" => Flash!Given.at \subseteq Flash!Sects
<1>1. Flash!ToLock # {} => Flash!NextToLock \in Flash!Sects
  BY NextIs DEF FlashTyped, Flash!ToLock
<1>2. Flash!Runs("lock") => op.at \in Flash!Sects
  BY FlashHasSizes DEF Flash!Runs, Flash!Sects, CallInRange, FlashTyped, CallsWith
<1>3. op.place = "relock" => ~Flash!Runs("lock") /\ ~Flash!Runs("unlock")
  BY DEF Flash!Runs
<1> DEFINE c1 == Flash!Command("lock", {Flash!NextToLock}, <<>>)
           c2 == Flash!Command("program", {Flash!WordOf(op.at)}, Flash!WordData(Flash!WordOf(op.at)))
           c3 == Flash!Command("erase", Flash!ToErase, <<>>)
           c4 == Flash!Command(op.kind, {op.at}, <<>>)
<1>4. /\ c1.kind = "lock" /\ c1.at = {Flash!NextToLock}
      /\ c2.kind = "program" /\ c3.kind = "erase" /\ c4.kind = op.kind /\ c4.at = {op.at}
  BY CommandIs
<1>5. \/ Flash!ToLock # {} /\ Flash!Given = c1
      \/ Flash!Given = c2 \/ Flash!Given = c3
      \/ (Flash!Runs("lock") \/ Flash!Runs("unlock")) /\ Flash!Given = c4
      \/ Flash!Given = Flash!NoCommand
  <2> HIDE DEF c1, c2, c3, c4
  <2> QED BY DEF Flash!Given, c1, c2, c3, c4
<1> HIDE DEF c1, c2, c3, c4
<1>6. Flash!Runs("unlock") => op.kind = "unlock"
  BY DEF Flash!Runs
<1> QED BY <1>1, <1>2, <1>4, <1>5, <1>6, NoCommandIs

LEMMA LockWorks ==
  ASSUME FlashTyped, CallInRange
  PROVE  Flash!Work.kind = "lock" => Flash!Work.at \subseteq Flash!Sects
BY LockGiven DEF FlashTyped, Flash!Work

LEMMA DoesTyped ==
  ASSUME FlashTyped, NEW x, x.kind = "lock" => x.at \subseteq Flash!Sects
  PROVE  /\ Flash!CellsAfter(x) \in [Flash!Bytes -> SUBSET ByteBits]
         /\ Flash!LockedAfter(x) \subseteq Flash!Sects
<1>1. Flash!CellsAfter(x) \in [Flash!Bytes -> SUBSET ByteBits]
  <2>1. \A b \in Flash!Bytes : cells[b] \subseteq ByteBits
    BY DEF FlashTyped
  <2> QED BY <2>1 DEF Flash!CellsAfter
<1>2. Flash!LockedAfter(x) \subseteq Flash!Sects
  BY DEF FlashTyped, Flash!LockedAfter
<1> QED BY <1>1, <1>2

LEMMA DoesSomeTyped ==
  ASSUME FlashTyped, NEW x, x.kind = "lock" => x.at \subseteq Flash!Sects, Flash!DoesSome(x)
  PROVE  cells' \in [Flash!Bytes -> SUBSET ByteBits] /\ locked' \subseteq Flash!Sects
<1> DEFINE after == Flash!CellsAfter(x)
<1>1. /\ after \in [Flash!Bytes -> SUBSET ByteBits] /\ cells \in [Flash!Bytes -> SUBSET ByteBits]
      /\ Flash!LockedAfter(x) \subseteq Flash!Sects /\ locked \subseteq Flash!Sects
  BY DoesTyped DEF FlashTyped
<1>2. \E S : cells' = [b \in Flash!Bytes |-> IF b \in S THEN after[b] ELSE cells[b]]
  BY DEF Flash!DoesSome
<1>3. locked' \in {locked, Flash!LockedAfter(x)}
  BY DEF Flash!DoesSome
<1> HIDE DEF after
<1> QED BY <1>1, <1>2, <1>3

\* What a poll leaves has its types.
LEMMA PollTyped ==
  ASSUME FlashTyped, CallInRange, NEW r, Flash!Poll(r)
  PROVE  /\ cells' \in [Flash!Bytes -> SUBSET ByteBits] /\ locked' \subseteq Flash!Sects
         /\ faults' \in 0..FlashFaults
         /\ wsm'.work.kind = "lock" => wsm'.work.at \subseteq Flash!Sects
         /\ wsm'.status \in BOOLEAN
<1> DEFINE x == Flash!Work
<1>1. x.kind = "lock" => x.at \subseteq Flash!Sects
  BY LockWorks
<1>2. faults \in 0..FlashFaults /\ FlashFaults \in Nat /\ cells \in [Flash!Bytes -> SUBSET ByteBits]
      /\ locked \subseteq Flash!Sects
  BY FlashHasSizes DEF FlashTyped
<1>3. \/ Flash!Does(x) /\ Flash!AtRest /\ UNCHANGED faults
      \/ /\ Flash!DoesSome(x) /\ Flash!AtRest
         /\ UNCHANGED faults \/ (faults < FlashFaults /\ faults' = faults + 1)
      \/ /\ faults < FlashFaults /\ faults' = faults + 1
         /\ wsm' = [work |-> x, status |-> TRUE] /\ UNCHANGED <<cells, locked>>
  BY DEF Flash!Poll
<1> HIDE DEF x
<1>4. CASE Flash!Does(x) /\ Flash!AtRest /\ UNCHANGED faults
  BY <1>1, <1>2, <1>4, DoesTyped, NoCommandIs DEF Flash!Does, Flash!AtRest
<1>5. CASE /\ Flash!DoesSome(x) /\ Flash!AtRest
           /\ UNCHANGED faults \/ (faults < FlashFaults /\ faults' = faults + 1)
  BY <1>1, <1>2, <1>5, DoesSomeTyped, NoCommandIs DEF Flash!AtRest
<1>6. CASE /\ faults < FlashFaults /\ faults' = faults + 1
           /\ wsm' = [work |-> x, status |-> TRUE] /\ UNCHANGED <<cells, locked>>
  BY <1>1, <1>2, <1>6
<1> QED BY <1>3, <1>4, <1>5, <1>6

\* Of a chip at rest a good poll says that what was given is done.
LEMMA PollOk ==
  ASSUME ChipFollows, Undisturbed, Flash!Poll("ok")
  PROVE  /\ Flash!Does(Flash!Given) /\ Flash!AtRest /\ Flash!Work = Flash!Given
         /\ wsm'.work = Flash!NoCommand /\ ~wsm'.status
<1>1. Flash!Work = Flash!Given
  BY DEF Flash!Work, Flash!Takes, ChipFollows
<1>2. Flash!Does(Flash!Work) /\ Flash!AtRest
  BY DEF Flash!Poll
<1> QED BY <1>1, <1>2 DEF Flash!AtRest

LEMMA RestTyped ==
  ASSUME Flash!AtRest
  PROVE  /\ wsm'.work.kind = "lock" => wsm'.work.at \subseteq Flash!Sects
         /\ wsm'.status \in BOOLEAN /\ wsm'.work = Flash!NoCommand /\ ~wsm'.status
BY NoCommandIs DEF Flash!AtRest

-----------------------------------------------------------------------------
(* A call begins.                                                          *)

LEMMA CallIs ==
  ASSUME FlashTyped, NEW k \in CallKinds, NEW a \in Nat, NEW z \in Nat, NEW d,
         NEW c, c = Flash!Call(k, a, z, d)
  PROVE  /\ c \in CallsWith(c.data)
         /\ c.kind = k /\ c.first = a /\ c.last = z /\ c.data = d /\ c.at = a /\ c.ret = 0
         /\ c.place = "run" /\ c.before = locked /\ ~c.unseen
         /\ c.clean => wsm.work = Flash!NoCommand /\ ~wsm.status /\ protect = locked
<1> DEFINE u == wsm.work = Flash!NoCommand /\ ~wsm.status /\ protect = locked
           r == "run"
           l == locked
<1>1. c = [kind |-> k, first |-> a, last |-> z, data |-> d, at |-> a, ret |-> 0,
           place |-> r, unseen |-> FALSE, before |-> l, clean |-> u]
  BY DEF Flash!Call
<1>2. u \in BOOLEAN
  OBVIOUS
<1>3. r \in CallPlaces /\ l \in SUBSET Flash!Sects
  BY DEF FlashTyped, CallPlaces
<1> HIDE DEF u, r, l
<1>4. /\ c.kind = k /\ c.first = a /\ c.last = z /\ c.data = d /\ c.at = a /\ c.ret = 0
      /\ c.place = r /\ c.before = l /\ c.unseen = FALSE /\ c.clean = u
  BY <1>1
<1>5. c \in CallsWith(d)
  BY <1>1, <1>2, <1>3 DEF CallsWith
<1> QED BY <1>4, <1>5 DEF u, r, l

LEMMA Begins ==
  ASSUME FlashInv, NEW k \in {"erase", "write", "lock", "unlock"}, NEW a \in Nat, NEW z \in Nat,
         NEW d, Flash!Begin(Flash!Call(k, a, z, d)), a <= z,
         k # "write" => z < Sectors,
         k = "write" => /\ z < Sectors * SectorBytes
                        /\ \A b \in a..z : Flash!SectorOf(b) \notin protect
  PROVE  FlashInv'
<1> DEFINE c == Flash!Call(k, a, z, d)
<1>1. /\ op' = c /\ driver' = driver /\ cells' = cells /\ locked' = locked /\ wsm' = wsm
      /\ protect' = protect /\ faults' = faults
  BY DEF Flash!Begin
<1>2. /\ FlashTyped /\ k \in CallKinds /\ k # "none"
  BY DEF FlashInv, CallKinds
<1>3. /\ c \in CallsWith(c.data)
      /\ c.kind = k /\ c.first = a /\ c.last = z /\ c.data = d /\ c.at = a /\ c.ret = 0
      /\ c.place = "run" /\ c.before = locked /\ ~c.unseen
      /\ c.clean => wsm.work = Flash!NoCommand /\ ~wsm.status /\ protect = locked
  BY <1>2, CallIs
<1> HIDE DEF c
<1>4. FlashTyped'
  BY <1>1, <1>2, <1>3 DEF FlashTyped
<1>5. CallInRange'
  BY <1>1, <1>2, <1>3, FlashHasSizes DEF CallInRange
<1>6. ChipFollows'
  BY <1>1, <1>3 DEF ChipFollows, Undisturbed
<1>7. DoneSoFar'
  BY <1>1, <1>3 DEF DoneSoFar
<1>8. Flash!OkIsDone'
  BY <1>1, <1>3 DEF Flash!OkIsDone
<1> QED BY <1>4, <1>5, <1>6, <1>7, <1>8 DEF FlashInv

LEMMA FlashBegins ==
  ASSUME FlashInv, Flash!Erase \/ Flash!Write \/ Flash!Protect \/ Flash!Unprotect
  PROVE  FlashInv'
<1>1. CASE Flash!Erase
  <2>1. PICK s \in Flash!Sects :
          \E t \in s..(Sectors - 1) : Flash!Begin(Flash!Call("erase", s, t, <<>>))
    BY <1>1 DEF Flash!Erase
  <2>2. PICK t \in s..(Sectors - 1) : Flash!Begin(Flash!Call("erase", s, t, <<>>))
    BY <2>1
  <2>3. s \in Nat /\ t \in Nat /\ s <= t /\ t < Sectors
    BY FlashHasSizes DEF Flash!Sects
  <2> QED BY <2>2, <2>3, Begins
<1>2. CASE Flash!Write
  <2>1. PICK a \in Flash!Bytes : \E z \in a..(a + MaxWrite - 1) \cap Flash!Bytes :
          /\ \A b \in a..z : Flash!SectorOf(b) \notin protect
          /\ \E d \in [a..z -> {{}, ByteBits}] : Flash!Begin(Flash!Call("write", a, z, d))
    BY <1>2 DEF Flash!Write
  <2>2. PICK z \in a..(a + MaxWrite - 1) \cap Flash!Bytes :
          /\ \A b \in a..z : Flash!SectorOf(b) \notin protect
          /\ \E d \in [a..z -> {{}, ByteBits}] : Flash!Begin(Flash!Call("write", a, z, d))
    BY <2>1
  <2>3. PICK d : Flash!Begin(Flash!Call("write", a, z, d))
    BY <2>2
  <2>4. a \in Nat /\ z \in Nat /\ a <= z /\ z < Sectors * SectorBytes
    <3> DEFINE all == Sectors * SectorBytes
    <3>1. all \in Nat /\ a \in 0..(all - 1) /\ z \in 0..(all - 1) /\ z \in a..(a + MaxWrite - 1)
      BY FlashHasSizes DEF Flash!Bytes
    <3> HIDE DEF all
    <3>2. a \in Nat /\ z \in Nat /\ a <= z /\ z < all
      BY <3>1
    <3> QED BY <3>2 DEF all
  <2> QED BY <2>2, <2>3, <2>4, Begins
<1>3. CASE Flash!Protect
  <2>1. PICK s \in Flash!Sects : Flash!Begin(Flash!Call("lock", s, s, <<>>))
    BY <1>3 DEF Flash!Protect
  <2>2. s \in Nat /\ s <= s /\ s < Sectors
    BY FlashHasSizes DEF Flash!Sects
  <2> QED BY <2>1, <2>2, Begins
<1>4. CASE Flash!Unprotect
  <2>1. PICK s \in Flash!Sects : Flash!Begin(Flash!Call("unlock", s, s, <<>>))
    BY <1>4 DEF Flash!Unprotect
  <2>2. s \in Nat /\ s <= s /\ s < Sectors
    BY FlashHasSizes DEF Flash!Sects
  <2> QED BY <2>1, <2>2, Begins
<1> QED BY <1>1, <1>2, <1>3, <1>4

\* The call is over, or was cut short: there is none.
LEMMA NoCallIs ==
  /\ Flash!NoCall \in CallsWith(Flash!NoCall.data) /\ Flash!NoCall.kind = "none"
  /\ Flash!NoCall.place = "idle" /\ Flash!NoCall.at = 0 /\ Flash!NoCall.ret = 0
BY DEF Flash!NoCall, CallsWith, CallKinds, CallPlaces

LEMMA Idle ==
  ASSUME op' = Flash!NoCall
  PROVE  CallInRange' /\ ChipFollows' /\ DoneSoFar' /\ Flash!OkIsDone'
<1>1. ~Undisturbed'
  BY NoCallIs DEF Undisturbed
<1>2. CallInRange'
  BY NoCallIs DEF CallInRange
<1> QED BY <1>1, <1>2, Disturbed

LEMMA FlashReturned ==
  ASSUME FlashInv, Flash!Returned PROVE FlashInv'
<1>1. /\ op' = Flash!NoCall /\ UNCHANGED <<driver, cells, locked, wsm, protect, faults>>
  BY DEF Flash!Returned
<1>2. FlashTyped'
  BY <1>1, NoCallIs DEF FlashTyped, FlashInv
<1> QED BY <1>1, <1>2, Idle DEF FlashInv

LEMMA FlashPowerLoss ==
  ASSUME FlashInv, Flash!PowerLoss PROVE FlashInv'
<1> DEFINE x == Flash!Work
<1>1. /\ op' = Flash!NoCall /\ driver' = driver /\ faults < FlashFaults /\ faults' = faults + 1
      /\ Flash!AtRest /\ Flash!DoesSome(x) /\ protect' \in {{}, locked'}
  BY DEF Flash!PowerLoss
<1>2. x.kind = "lock" => x.at \subseteq Flash!Sects
  BY LockWorks DEF FlashInv
<1> HIDE DEF x
<1>3. FlashTyped /\ FlashFaults \in Nat
  BY FlashHasSizes DEF FlashInv
<1>4. cells' \in [Flash!Bytes -> SUBSET ByteBits] /\ locked' \subseteq Flash!Sects
  BY <1>1, <1>2, <1>3, DoesSomeTyped
<1>5. FlashTyped'
  BY <1>1, <1>3, <1>4, NoCallIs, RestTyped DEF FlashTyped
<1> QED BY <1>1, <1>5, Idle DEF FlashInv

\* Nothing is promised by a call that finds the chip at work.
LEMMA FlashWorkEnds ==
  ASSUME FlashInv, Flash!WorkEnds PROVE FlashInv'
<1>1. /\ wsm.work # Flash!NoCommand /\ Flash!Does(wsm.work)
      /\ wsm'.work = Flash!NoCommand
      /\ wsm' = [work |-> Flash!NoCommand, status |-> wsm.status /\ driver # "amd"]
      /\ driver' = driver /\ protect' = protect /\ op' = op /\ faults' = faults
  BY DEF Flash!WorkEnds
<1>2. ~Undisturbed'
  BY <1>1 DEF FlashInv, ChipFollows, Undisturbed
<1>3. FlashTyped'
  <2>1. wsm'.work.kind # "lock" /\ wsm'.status \in BOOLEAN
    <3> DEFINE s == wsm.status /\ driver # "amd"
    <3>1. s \in BOOLEAN /\ wsm' = [work |-> Flash!NoCommand, status |-> s]
      BY <1>1
    <3> HIDE DEF s
    <3> QED BY <3>1, NoCommandIs
  <2>2. cells' \in [Flash!Bytes -> SUBSET ByteBits] /\ locked' \subseteq Flash!Sects
    BY <1>1, DoesTyped DEF FlashInv, FlashTyped, Flash!Does
  <2> QED BY <1>1, <2>1, <2>2 DEF FlashInv, FlashTyped
<1>4. CallInRange'
  BY <1>1 DEF FlashInv, CallInRange
<1> QED BY <1>2, <1>3, <1>4, Disturbed DEF FlashInv

LEMMA ResetTyped ==
  ASSUME FlashTyped, Flash!ResetBank
  PROVE  /\ wsm'.work.kind = "lock" => wsm'.work.at \subseteq Flash!Sects
         /\ wsm'.status \in BOOLEAN
         /\ wsm.work = Flash!NoCommand => wsm'.work = Flash!NoCommand /\ ~wsm'.status
BY RestTyped DEF FlashTyped, Flash!ResetBank

LEMMA FlashReadLocks ==
  ASSUME FlashInv, Flash!ReadLocks PROVE FlashInv'
<1>1. /\ op.place = "idle" /\ Flash!ResetBank /\ protect' \in {locked, {}, protect, Flash!Sects}
      /\ driver' = driver /\ cells' = cells /\ locked' = locked /\ op' = op /\ faults' = faults
  BY DEF Flash!ReadLocks
<1>2. ~Undisturbed'
  BY <1>1 DEF Undisturbed
<1>3. FlashTyped'
  BY <1>1, ResetTyped DEF FlashInv, FlashTyped
<1>4. CallInRange'
  BY <1>1 DEF FlashInv, CallInRange
<1> QED BY <1>2, <1>3, <1>4, Disturbed DEF FlashInv

-----------------------------------------------------------------------------
(* The command a call gives.                                               *)

LEMMA GivenToErase ==
  ASSUME Flash!Runs("erase"), op.at <= op.last, Flash!ToErase # {}
  PROVE  Flash!Given = Flash!Command("erase", Flash!ToErase, <<>>)
<1>1. /\ ~(op.place = "relock") /\ ~Flash!Runs("write") /\ ~Flash!Runs("lock")
      /\ ~Flash!Runs("unlock")
  BY DEF Flash!Runs
<1> QED BY <1>1 DEF Flash!Given

LEMMA GivenToWrite ==
  ASSUME Flash!Runs("write"), Flash!ErasedEnough(Flash!WordOf(op.at))
  PROVE  Flash!Given = Flash!Command("program", {Flash!WordOf(op.at)},
                                     Flash!WordData(Flash!WordOf(op.at)))
<1>1. /\ ~(op.place = "relock") /\ ~Flash!Runs("erase") /\ ~Flash!Runs("lock")
      /\ ~Flash!Runs("unlock")
  BY DEF Flash!Runs
<1> QED BY <1>1 DEF Flash!Given

LEMMA GivenToLock ==
  ASSUME \/ Flash!Runs("lock") /\ driver # "amd"
         \/ Flash!Runs("unlock") /\ driver = "strata"
         \/ Flash!Runs("unlock") /\ driver = "dbox2" /\ op.at \in locked
  PROVE  Flash!Given = Flash!Command(op.kind, {op.at}, <<>>)
<1>1. /\ ~(op.place = "relock") /\ ~Flash!Runs("erase") /\ ~Flash!Runs("write")
  BY DEF Flash!Runs
<1> QED BY <1>1 DEF Flash!Given

LEMMA GivenNothing ==
  ASSUME Flash!Runs("unlock"), driver = "dbox2", op.at \notin locked
  PROVE  Flash!Given = Flash!NoCommand
<1>1. /\ ~(op.place = "relock") /\ ~Flash!Runs("erase") /\ ~Flash!Runs("write")
      /\ ~Flash!Runs("lock")
  BY DEF Flash!Runs
<1> QED BY <1>1 DEF Flash!Given

LEMMA GivenToRelock ==
  ASSUME op.place = "relock", Flash!ToLock # {}
  PROVE  Flash!Given = Flash!Command("lock", {Flash!NextToLock}, <<>>)
<1>1. /\ ~Flash!Runs("erase") /\ ~Flash!Runs("write")
      /\ ~Flash!Runs("lock") /\ ~Flash!Runs("unlock")
  BY DEF Flash!Runs
<1> QED BY <1>1 DEF Flash!Given

\* What the commands do.
LEMMA ErasesWhat ==
  ASSUME NEW S, Flash!Does(Flash!Command("erase", S, <<>>))
  PROVE  /\ locked' = locked
         /\ \A b \in Flash!Bytes : Flash!SectorOf(b) \in S \ locked => cells'[b] = ByteBits
         /\ \A b \in Flash!Bytes : ~(Flash!SectorOf(b) \in S \ locked) => cells'[b] = cells[b]
<1> DEFINE x == Flash!Command("erase", S, <<>>)
<1>1. x.kind = "erase" /\ x.at = S
  BY CommandIs
<1>2. cells' = Flash!CellsAfter(x) /\ locked' = Flash!LockedAfter(x)
  BY DEF Flash!Does
<1> HIDE DEF x
<1>3. \A b \in Flash!Bytes : b \in Flash!Reaches(x) <=> Flash!SectorOf(b) \in S
  BY <1>1 DEF Flash!Reaches
<1>4. locked' = locked
  BY <1>1, <1>2 DEF Flash!LockedAfter
<1>5. ASSUME NEW b \in Flash!Bytes
      PROVE  cells'[b] = IF Flash!SectorOf(b) \in S \ locked THEN ByteBits ELSE cells[b]
  BY <1>1, <1>2, <1>3 DEF Flash!CellsAfter
<1> QED BY <1>4, <1>5

LEMMA ProgramsWhat ==
  ASSUME NEW w, NEW d, Flash!Does(Flash!Command("program", {w}, d))
  PROVE  /\ locked' = locked
         /\ \A b \in Flash!Bytes : b \in Flash!InWord(w) /\ Flash!SectorOf(b) \notin locked
                                     => cells'[b] = cells[b] \cap d[b]
         /\ \A b \in Flash!Bytes : b \notin Flash!InWord(w) => cells'[b] = cells[b]
<1> DEFINE x == Flash!Command("program", {w}, d)
<1>1. x.kind = "program" /\ x.at = {w} /\ x.data = d
  BY CommandIs
<1>2. cells' = Flash!CellsAfter(x) /\ locked' = Flash!LockedAfter(x)
  BY DEF Flash!Does
<1> HIDE DEF x
<1>3. Flash!Reaches(x) = Flash!InWord(w)
  BY <1>1 DEF Flash!Reaches
<1>4. locked' = locked
  BY <1>1, <1>2 DEF Flash!LockedAfter
<1>5. ASSUME NEW b \in Flash!Bytes
      PROVE  cells'[b] = IF b \notin Flash!InWord(w) \/ Flash!SectorOf(b) \in locked THEN cells[b]
                         ELSE cells[b] \cap d[b]
  BY <1>1, <1>2, <1>3 DEF Flash!CellsAfter
<1> QED BY <1>4, <1>5

LEMMA LocksWhat ==
  ASSUME NEW s, NEW k \in {"lock", "unlock"}, Flash!Does(Flash!Command(k, {s}, <<>>))
  PROVE  locked' = IF k = "lock" THEN locked \cup {s} ELSE {}
<1> DEFINE x == Flash!Command(k, {s}, <<>>)
<1>1. x.kind = k /\ x.at = {s}
  BY CommandIs
<1>2. locked' = Flash!LockedAfter(x)
  BY DEF Flash!Does
<1> HIDE DEF x
<1> QED BY <1>1, <1>2 DEF Flash!LockedAfter

-----------------------------------------------------------------------------
(* Erasing, by Intel chips.                                                *)

LEMMA FlashEraseSector ==
  ASSUME FlashInv, Flash!EraseSector PROVE FlashInv'
<1>1. /\ op.place = "run" /\ op.kind = "erase" /\ driver # "amd" /\ op.at <= op.last
      /\ driver' = driver /\ protect' = protect
  BY DEF Flash!EraseSector, Flash!Runs
<1>2. /\ op \in CallsWith(op.data) /\ op.at \in Nat /\ op.first \in Nat /\ op.last \in Nat
      /\ op.first <= op.at /\ op.first <= op.last /\ op.last < Sectors /\ op.ret \in 0..2
      /\ Sectors \in Nat /\ op.unseen \in BOOLEAN
  BY <1>1, FlashHasSizes DEF FlashInv, FlashTyped, CallInRange, CallsWith
<1>3. FlashTyped /\ CallInRange
  BY DEF FlashInv
<1>4. CASE op.at \in protect
  <2>1. /\ Flash!GoesOn(op, op.at + 1) /\ cells' = cells /\ locked' = locked /\ wsm' = wsm
        /\ faults' = faults
    BY <1>4 DEF Flash!EraseSector
  <2>2. /\ op' \in CallsWith(op'.data) /\ op'.at = op.at + 1 /\ op'.unseen = op.unseen
        /\ op'.kind = op.kind /\ op'.first = op.first /\ op'.last = op.last
        /\ op'.ret = op.ret /\ op'.place = op.place /\ op'.before = op.before
        /\ op'.clean = op.clean
    BY <1>2, <2>1, GoesOnIs
  <2>3. FlashTyped'
    BY <1>1, <1>3, <2>1, <2>2 DEF FlashTyped
  <2>4. CallInRange'
    BY <1>1, <1>2, <1>3, <2>1, <2>2 DEF CallInRange
  <2>5. ChipFollows'
    BY <1>1, <2>1, <2>2 DEF FlashInv, ChipFollows, Undisturbed
  <2>6. DoneSoFar'
    <3> SUFFICES ASSUME Undisturbed', NEW b \in Flash!Bytes,
                        Flash!SectorOf(b) \in (op.first..op.at) \ protect
                 PROVE  cells[b] = ByteBits
      BY <1>1, <1>2, <2>1, <2>2 DEF DoneSoFar
    <3>1. Undisturbed
      BY <2>2, <1>1 DEF Undisturbed
    <3>2. Flash!SectorOf(b) \in (op.first..(op.at - 1)) \ protect
      BY <1>2, <1>4
    <3> QED BY <1>1, <3>1, <3>2 DEF FlashInv, DoneSoFar
  <2>7. Flash!OkIsDone'
    BY <1>1, <2>2 DEF Flash!OkIsDone
  <2> QED BY <2>3, <2>4, <2>5, <2>6, <2>7 DEF FlashInv
<1>5. CASE op.at \notin protect
  <2>1. PICK r \in Flash!Results :
          /\ Flash!Poll(r)
          /\ IF Flash!Good(r) THEN Flash!GoesOn(Flash!Passed(r), op.at + 1)
             ELSE IF driver = "strata" THEN Flash!GoesOn([op EXCEPT !.ret = 1], op.at + 1)
             ELSE Flash!Returns(op, 1)
    BY <1>5 DEF Flash!EraseSector
  <2>2. /\ cells' \in [Flash!Bytes -> SUBSET ByteBits] /\ locked' \subseteq Flash!Sects
        /\ faults' \in 0..FlashFaults
        /\ wsm'.work.kind = "lock" => wsm'.work.at \subseteq Flash!Sects
        /\ wsm'.status \in BOOLEAN
    BY <1>3, <2>1, PollTyped
  <2>3. CASE Flash!Good(r)
    <3> DEFINE o == Flash!Passed(r)
    <3>1. /\ o \in CallsWith(o.data) /\ (o.unseen <=> op.unseen \/ r # "ok")
          /\ o.kind = op.kind /\ o.first = op.first /\ o.last = op.last /\ o.data = op.data
          /\ o.at = op.at /\ o.ret = op.ret /\ o.place = op.place
          /\ o.before = op.before /\ o.clean = op.clean
      BY <1>3, PassedIs
    <3>2. Flash!GoesOn(o, op.at + 1)
      BY <2>1, <2>3
    <3> HIDE DEF o
    <3>3. /\ op' \in CallsWith(op'.data) /\ op'.at = op.at + 1 /\ op'.unseen = o.unseen
          /\ op'.kind = op.kind /\ op'.first = op.first /\ op'.last = op.last
          /\ op'.ret = op.ret /\ op'.place = op.place /\ op'.before = op.before
          /\ op'.clean = op.clean
      BY <1>2, <3>1, <3>2, GoesOnIs
    <3>4. FlashTyped'
      BY <1>1, <1>3, <2>2, <3>3 DEF FlashTyped
    <3>5. CallInRange'
      BY <1>1, <1>2, <1>3, <3>3 DEF CallInRange
    <3>6. ASSUME Undisturbed' PROVE ChipFollows' /\ DoneSoFar'
      <4>1. Undisturbed /\ r = "ok"
        BY <1>1, <3>1, <3>3, <3>6 DEF Undisturbed
      <4>2. /\ Flash!Does(Flash!Given) /\ wsm'.work = Flash!NoCommand /\ ~wsm'.status
        BY <2>1, <4>1, PollOk DEF FlashInv
      <4>3. Flash!ToErase = {op.at}
        BY <1>1, <1>5 DEF Flash!ToErase
      <4>4. Flash!Given = Flash!Command("erase", {op.at}, <<>>)
        BY <1>1, <4>3, GivenToErase DEF Flash!Runs
      <4>5. /\ locked' = locked
            /\ \A b \in Flash!Bytes : Flash!SectorOf(b) \in {op.at} \ locked => cells'[b] = ByteBits
            /\ \A b \in Flash!Bytes : ~(Flash!SectorOf(b) \in {op.at} \ locked) => cells'[b] = cells[b]
        BY <4>2, <4>4, ErasesWhat
      <4>6. protect = locked /\ op.before = locked
        BY <1>1, <4>1 DEF FlashInv, ChipFollows
      <4>7. ChipFollows'
        BY <1>1, <3>3, <4>2, <4>5, <4>6 DEF ChipFollows
      <4>8. ASSUME NEW b \in Flash!Bytes, Flash!SectorOf(b) \in (op.first..op.at) \ protect
            PROVE  cells'[b] = ByteBits
        <5>1. CASE Flash!SectorOf(b) = op.at
          BY <1>5, <4>5, <4>6, <5>1
        <5>2. CASE Flash!SectorOf(b) # op.at
          <6>1. Flash!SectorOf(b) \in (op.first..(op.at - 1)) \ protect
            BY <1>2, <4>8, <5>2
          <6>2. cells[b] = ByteBits
            BY <1>1, <4>1, <6>1 DEF FlashInv, DoneSoFar
          <6> QED BY <4>5, <5>2, <6>2
        <5> QED BY <5>1, <5>2
      <4>9. DoneSoFar'
        <5>1. (op.at + 1) - 1 = op.at
          BY <1>2
        <5> QED BY <1>1, <3>3, <4>8, <5>1 DEF DoneSoFar
      <4> QED BY <4>7, <4>9
    <3>7. Flash!OkIsDone'
      BY <1>1, <3>3 DEF Flash!OkIsDone
    <3> QED BY <3>4, <3>5, <3>6, <3>7, Disturbed DEF FlashInv
  <2>4. CASE ~Flash!Good(r)
    <3> DEFINE v == 1
               o == [op EXCEPT !.ret = v]
    <3>1. v \in 0..2
      OBVIOUS
    <3> HIDE DEF v
    <3>2. /\ o \in CallsWith(o.data) /\ o.ret = v
          /\ o.kind = op.kind /\ o.first = op.first /\ o.last = op.last
          /\ o.at = op.at /\ o.place = op.place
      BY <1>2, <3>1 DEF CallsWith
    <3>3. \/ driver = "strata" /\ Flash!GoesOn(o, op.at + 1)
          \/ driver # "strata" /\ Flash!Returns(op, v)
      BY <2>1, <2>4 DEF v
    <3> HIDE DEF o
    <3>4. /\ op' \in CallsWith(op'.data) /\ op'.ret = v /\ op'.kind = op.kind
          /\ op'.first = op.first /\ op'.last = op.last
          /\ \/ op'.place = op.place /\ op'.at = op.at + 1
             \/ op'.place = "returned" /\ op'.at = op.at
      BY <1>2, <3>1, <3>2, <3>3, GoesOnIs, ReturnsIs
    <3>5. ~Undisturbed'
      BY <3>4 DEF Undisturbed, v
    <3>6. FlashTyped'
      BY <1>1, <1>3, <2>2, <3>4 DEF FlashTyped
    <3>7. CallInRange'
      BY <1>1, <1>2, <1>3, <3>4 DEF CallInRange
    <3> QED BY <3>5, <3>6, <3>7, Disturbed DEF FlashInv
  <2> QED BY <2>3, <2>4
<1> QED BY <1>4, <1>5

LEMMA FlashEraseReturns ==
  ASSUME FlashInv, Flash!EraseReturns PROVE FlashInv'
<1>1. /\ op.place = "run" /\ op.kind = "erase" /\ driver # "amd" /\ op.at > op.last
      /\ driver' = driver /\ protect' = protect /\ cells' = cells /\ locked' = locked
      /\ faults' = faults /\ Flash!Returns(op, op.ret) /\ (Flash!ResetBank \/ wsm' = wsm)
  BY DEF Flash!EraseReturns, Flash!Runs
<1>2. /\ op \in CallsWith(op.data) /\ op.at \in Nat /\ op.first \in Nat /\ op.last \in Nat
      /\ op.first <= op.at /\ op.at <= op.last + 1 /\ op.first <= op.last /\ op.last < Sectors
      /\ op.ret \in 0..2 /\ Sectors \in Nat
  BY <1>1, FlashHasSizes DEF FlashInv, FlashTyped, CallInRange, CallsWith
<1>3. /\ op' \in CallsWith(op'.data) /\ op'.ret = op.ret /\ op'.place = "returned"
      /\ op'.unseen = op.unseen /\ op'.at = op.at
      /\ op'.kind = op.kind /\ op'.first = op.first /\ op'.last = op.last
      /\ op'.before = op.before /\ op'.clean = op.clean
  BY <1>1, <1>2, ReturnsIs
<1>4. /\ wsm'.work.kind = "lock" => wsm'.work.at \subseteq Flash!Sects
      /\ wsm'.status \in BOOLEAN
      /\ wsm.work = Flash!NoCommand /\ ~wsm.status => wsm'.work = Flash!NoCommand /\ ~wsm'.status
  BY <1>1, ResetTyped DEF FlashInv, FlashTyped
<1>5. FlashTyped'
  BY <1>1, <1>3, <1>4 DEF FlashInv, FlashTyped
<1>6. CallInRange'
  BY <1>1, <1>2, <1>3 DEF FlashInv, CallInRange
<1>7. ASSUME Undisturbed' PROVE ChipFollows' /\ DoneSoFar' /\ Flash!OkIsDone'
  <2>1. Undisturbed
    BY <1>1, <1>3, <1>7 DEF Undisturbed
  <2>2. ChipFollows' /\ DoneSoFar'
    BY <1>3, <1>4, <2>1 DEF FlashInv, ChipFollows, DoneSoFar
  <2>3. op.at - 1 = op.last
    BY <1>1, <1>2
  <2>4. \A b \in Flash!Bytes : Flash!SectorOf(b) \in (op.first..op.last) \ protect
                                 => cells[b] = ByteBits
    BY <1>1, <2>1, <2>3 DEF FlashInv, DoneSoFar
  <2>5. Flash!OkIsDone'
    BY <1>1, <1>3, <2>4 DEF Flash!OkIsDone
  <2> QED BY <2>2, <2>5
<1> QED BY <1>5, <1>6, <1>7, Disturbed DEF FlashInv

-----------------------------------------------------------------------------
(* Writing.                                                                *)

\* The word at a place of the range, in numbers.
LEMMA WordAt ==
  ASSUME FlashInv, Flash!Runs("write"), NEW w, w = Flash!WordOf(op.at)
  PROVE  /\ op \in CallsWith(op.data) /\ op.place = "run" /\ op.kind = "write" /\ op.ret = 0
         /\ op.at \in Nat /\ op.first \in Nat /\ op.last \in Nat
         /\ op.first <= op.at /\ op.at <= op.last /\ op.last < Sectors * SectorBytes
         /\ w \in Nat /\ w <= op.at /\ op.at < w + PortWidth /\ w + PortWidth \in Nat
         /\ Flash!InWord(w) = w..(w + PortWidth - 1)
<1>1. /\ op.place = "run" /\ op.kind = "write" /\ op \in CallsWith(op.data)
      /\ op.first <= op.at /\ op.at <= op.last /\ op.last < Sectors * SectorBytes
  BY DEF FlashInv, FlashTyped, CallInRange, Flash!Runs
<1>2. op.at \in Nat /\ op.first \in Nat /\ op.last \in Nat
  BY <1>1 DEF CallsWith
<1>3. op.ret = 0
  BY <1>1 DEF FlashInv, CallInRange
<1>4. w \in Nat /\ w <= op.at /\ op.at < w + PortWidth
  BY <1>2, WordIs
<1>5. w + PortWidth \in Nat
  BY <1>4, FlashHasSizes
<1> QED BY <1>1, <1>2, <1>3, <1>4, <1>5 DEF Flash!InWord

\* The bytes of the range up to the end of the word are as asked when the chip did what it was told.
LEMMA WordWritten ==
  ASSUME FlashInv, Flash!Runs("write"), Undisturbed, NEW w, w = Flash!WordOf(op.at),
         Flash!ErasedEnough(w), Flash!Does(Flash!Given)
  PROVE  /\ locked' = locked
         /\ \A b \in op.first..op.last : b < w + PortWidth => cells'[b] = op.data[b]
<1>1. /\ op.place = "run" /\ op.kind = "write"
      /\ op.at \in Nat /\ op.first \in Nat /\ op.last \in Nat
      /\ op.first <= op.at /\ op.at <= op.last /\ op.last < Sectors * SectorBytes
      /\ w \in Nat /\ w <= op.at /\ op.at < w + PortWidth /\ w + PortWidth \in Nat
      /\ Flash!InWord(w) = w..(w + PortWidth - 1)
  BY WordAt
<1> DEFINE d == Flash!WordData(w)
<1>2. /\ locked' = locked
      /\ \A b \in Flash!Bytes : b \in Flash!InWord(w) /\ Flash!SectorOf(b) \notin locked
                                  => cells'[b] = cells[b] \cap d[b]
      /\ \A b \in Flash!Bytes : b \notin Flash!InWord(w) => cells'[b] = cells[b]
  BY GivenToWrite, ProgramsWhat
<1>3. /\ protect = locked /\ ~wsm.status
      /\ \A b \in op.first..op.last : Flash!SectorOf(b) \notin protect
      /\ \A b \in op.first..(op.at - 1) : cells[b] = op.data[b]
  BY <1>1 DEF FlashInv, ChipFollows, DoneSoFar
<1>4. \A b \in op.first..op.last : b \in Flash!Bytes /\ b \in Nat
  <2> DEFINE all == Sectors * SectorBytes
  <2>1. all \in Nat /\ Flash!Bytes = 0..(all - 1) /\ op.last < all
    BY <1>1, FlashHasSizes DEF Flash!Bytes
  <2> HIDE DEF all
  <2> QED BY <1>1, <2>1
<1>5. \A b \in Flash!InWord(w) : d[b] \subseteq cells[b]
  BY <1>3 DEF Flash!ErasedEnough, Flash!Read
<1>6. \A b \in Flash!InWord(w) : b \in op.first..op.last => d[b] = op.data[b]
  BY DEF Flash!WordData
<1> HIDE DEF d
<1>7. ASSUME NEW b \in op.first..op.last, b < w + PortWidth
      PROVE  cells'[b] = op.data[b]
  <2>1. CASE b \in Flash!InWord(w)
    BY <1>2, <1>3, <1>4, <1>5, <1>6, <2>1
  <2>2. CASE b \notin Flash!InWord(w)
    <3> DEFINE n == w + PortWidth
    <3>1. b < n /\ b \notin w..(n - 1) /\ n \in Nat
      <4>1. b < n
        BY <1>7
      <4>2. n \in Nat
        BY <1>1
      <4>3. b \notin w..(n - 1)
        <5>1. w + (PortWidth - 1) = n - 1
          BY <1>1, FlashHasSizes
        <5> QED BY <2>2, <5>1 DEF Flash!InWord
      <4> QED BY <4>1, <4>2, <4>3
    <3>2. /\ b \in Nat /\ op.first <= b /\ w \in Nat /\ w <= op.at
          /\ op.at \in Nat /\ op.first \in Nat
      BY <1>1, <1>4
    <3> HIDE DEF n
    <3>3. b \in op.first..(op.at - 1)
      BY <3>1, <3>2
    <3> QED BY <1>2, <1>3, <1>4, <2>2, <3>3
  <2> QED BY <2>1, <2>2
<1> QED BY <1>2, <1>7

\* The call goes on behind the word, or ends there.
LEMMA WordMoves ==
  ASSUME FlashInv, Flash!Runs("write"), NEW w, w = Flash!WordOf(op.at),
         NEW o, o \in CallsWith(o.data), Flash!NextWord(o, w),
         o.kind = op.kind, o.first = op.first, o.last = op.last, o.data = op.data,
         o.at = op.at, o.ret = op.ret, o.place = op.place, o.before = op.before, o.clean = op.clean
  PROVE  /\ op' \in CallsWith(op'.data) /\ op'.unseen = o.unseen
         /\ op'.kind = "write" /\ op'.first = op.first /\ op'.last = op.last /\ op'.data = op.data
         /\ op'.ret = 0 /\ op'.before = op.before /\ op'.clean = op.clean
         /\ \/ op'.place = "returned" /\ op'.at = op.at /\ op.last < w + PortWidth
            \/ op'.place = "run" /\ op'.at = w + PortWidth /\ w + PortWidth <= op.last
<1>1. /\ op.place = "run" /\ op.kind = "write" /\ op.ret = 0 /\ op.last \in Nat
      /\ w + PortWidth \in Nat
  BY WordAt
<1> DEFINE n == w + PortWidth
           z == 0
<1>2. n \in Nat /\ z \in 0..2
  BY <1>1
<1>3. \/ n > op.last /\ Flash!Returns(o, z)
      \/ ~(n > op.last) /\ Flash!GoesOn(o, n)
  BY DEF Flash!NextWord
<1> HIDE DEF n, z
<1>4. CASE n > op.last /\ Flash!Returns(o, z)
  <2>1. /\ op' \in CallsWith(op'.data) /\ op'.ret = z /\ op'.place = "returned"
        /\ op'.unseen = o.unseen /\ op'.at = o.at
        /\ op'.kind = o.kind /\ op'.first = o.first /\ op'.last = o.last /\ op'.data = o.data
        /\ op'.before = o.before /\ op'.clean = o.clean
    BY <1>2, <1>4, ReturnsIs
  <2>2. op.last < n
    BY <1>1, <1>2, <1>4
  <2> QED BY <1>1, <2>1, <2>2 DEF n, z
<1>5. CASE ~(n > op.last) /\ Flash!GoesOn(o, n)
  <2>1. /\ op' \in CallsWith(op'.data) /\ op'.at = n /\ op'.unseen = o.unseen
        /\ op'.kind = o.kind /\ op'.first = o.first /\ op'.last = o.last /\ op'.data = o.data
        /\ op'.ret = o.ret /\ op'.place = o.place /\ op'.before = o.before /\ op'.clean = o.clean
    BY <1>2, <1>5, GoesOnIs
  <2>2. n <= op.last
    BY <1>1, <1>2, <1>5
  <2> QED BY <1>1, <2>1, <2>2 DEF n
<1> QED BY <1>3, <1>4, <1>5

LEMMA WordKeeps ==
  ASSUME FlashInv, Flash!Runs("write"), NEW w, w = Flash!WordOf(op.at),
         driver' = driver, protect' = protect, locked' = locked,
         op'.kind = "write", op'.first = op.first, op'.last = op.last, op'.data = op.data,
         op'.before = op.before, op'.clean = op.clean, op'.ret = 0,
         Undisturbed, wsm'.work = Flash!NoCommand, ~wsm'.status,
         \A b \in op.first..op.last : b < w + PortWidth => cells'[b] = op.data[b],
         \/ op'.place = "returned" /\ op'.at = op.at /\ op.last < w + PortWidth
         \/ op'.place = "run" /\ op'.at = w + PortWidth /\ w + PortWidth <= op.last
  PROVE  ChipFollows' /\ DoneSoFar' /\ Flash!OkIsDone'
<1>1. /\ op.place = "run" /\ op.kind = "write"
      /\ op.first \in Nat /\ op.last \in Nat /\ w + PortWidth \in Nat
  BY WordAt
<1>2. ChipFollows'
  BY <1>1 DEF FlashInv, ChipFollows, Undisturbed
<1>3. DoneSoFar'
  <2> DEFINE n == w + PortWidth
  <2>1. /\ op'.place = "run" => op'.at = n /\ n <= op.last
        /\ \A b \in op.first..op.last : b < n => cells'[b] = op.data[b]
        /\ n \in Nat /\ op.first \in Nat /\ op.last \in Nat
    BY <1>1
  <2> HIDE DEF n
  <2>2. op'.place = "run" => \A b \in op.first..(n - 1) : cells'[b] = op.data[b]
    BY <2>1
  <2> QED BY <2>1, <2>2 DEF DoneSoFar
<1>4. Flash!OkIsDone'
  <2>1. op'.place = "returned" => \A b \in op.first..op.last : cells'[b] = op.data[b]
    BY <1>1
  <2> QED BY <2>1 DEF Flash!OkIsDone
<1> QED BY <1>2, <1>3, <1>4

LEMMA WordInRange ==
  ASSUME FlashInv, Flash!Runs("write"), NEW w, w = Flash!WordOf(op.at), driver' = driver,
         op'.kind = "write", op'.first = op.first, op'.last = op.last,
         \/ op'.place = "returned" /\ op'.at = op.at
         \/ op'.place = "run" /\ op'.at = w + PortWidth /\ w + PortWidth <= op.last /\ op'.ret = 0
  PROVE  CallInRange'
<1>1. /\ op.place = "run" /\ op.kind = "write"
      /\ op.at \in Nat /\ op.first \in Nat /\ op.last \in Nat
      /\ op.first <= op.at /\ op.at <= op.last /\ op.last < Sectors * SectorBytes
      /\ op.at < w + PortWidth /\ w + PortWidth \in Nat
  BY WordAt
<1>2. op.first <= w + PortWidth
  BY <1>1
<1> QED BY <1>1, <1>2 DEF CallInRange

\* A word that is not written ends the call with what is no 0.
LEMMA WordFails ==
  ASSUME FlashInv, Flash!Runs("write"), driver' = driver, NEW v \in {1, 2}, Flash!Returns(op, v)
  PROVE  /\ op' \in CallsWith(op'.data)
         /\ CallInRange' /\ ChipFollows' /\ DoneSoFar' /\ Flash!OkIsDone'
<1>1. op \in CallsWith(op.data) /\ op.kind = "write"
  BY WordAt
<1>2. v \in 0..2
  OBVIOUS
<1>3. /\ op' \in CallsWith(op'.data) /\ op'.ret = v /\ op'.place = "returned" /\ op'.at = op.at
      /\ op'.kind = op.kind /\ op'.first = op.first /\ op'.last = op.last
  BY <1>1, <1>2, ReturnsIs
<1>4. ~Undisturbed'
  BY <1>3 DEF Undisturbed
<1>5. CallInRange'
  BY <1>1, <1>3, WordInRange
<1> QED BY <1>3, <1>4, <1>5, Disturbed

LEMMA FlashWriteWord ==
  ASSUME FlashInv, Flash!WriteWord PROVE FlashInv'
<1> DEFINE w == Flash!WordOf(op.at)
<1>1. /\ Flash!Runs("write") /\ driver' = driver /\ protect' = protect
      /\ IF ~Flash!ErasedEnough(w)
           THEN Flash!Returns(op, 2) /\ UNCHANGED <<cells, locked, wsm, faults>>
           ELSE \E r \in Flash!Results :
                  /\ Flash!Poll(r)
                  /\ IF Flash!Good(r) THEN Flash!NextWord(Flash!Passed(r), w)
                                      ELSE Flash!Returns(op, 1)
  BY DEF Flash!WriteWord
<1>2. w = Flash!WordOf(op.at) /\ FlashTyped /\ CallInRange
  BY DEF FlashInv
<1> HIDE DEF w
<1>3. CASE ~Flash!ErasedEnough(w)
  <2>1. Flash!Returns(op, 2) /\ UNCHANGED <<cells, locked, wsm, faults>>
    BY <1>1, <1>3
  <2>2. /\ op' \in CallsWith(op'.data)
        /\ CallInRange' /\ ChipFollows' /\ DoneSoFar' /\ Flash!OkIsDone'
    BY <1>1, <2>1, WordFails
  <2>3. FlashTyped'
    BY <1>1, <1>2, <2>1, <2>2 DEF FlashTyped
  <2> QED BY <2>2, <2>3 DEF FlashInv
<1>4. CASE Flash!ErasedEnough(w)
  <2>1. PICK r \in Flash!Results :
          /\ Flash!Poll(r)
          /\ IF Flash!Good(r) THEN Flash!NextWord(Flash!Passed(r), w) ELSE Flash!Returns(op, 1)
    BY <1>1, <1>4
  <2>2. /\ cells' \in [Flash!Bytes -> SUBSET ByteBits] /\ locked' \subseteq Flash!Sects
        /\ faults' \in 0..FlashFaults
        /\ wsm'.work.kind = "lock" => wsm'.work.at \subseteq Flash!Sects
        /\ wsm'.status \in BOOLEAN
    BY <1>2, <2>1, PollTyped
  <2>3. CASE ~Flash!Good(r)
    <3>1. /\ op' \in CallsWith(op'.data)
          /\ CallInRange' /\ ChipFollows' /\ DoneSoFar' /\ Flash!OkIsDone'
      BY <1>1, <2>1, <2>3, WordFails
    <3>2. FlashTyped'
      BY <1>1, <1>2, <2>2, <3>1 DEF FlashTyped
    <3> QED BY <3>1, <3>2 DEF FlashInv
  <2>4. CASE Flash!Good(r)
    <3> DEFINE o == Flash!Passed(r)
    <3>1. /\ o \in CallsWith(o.data) /\ (o.unseen <=> op.unseen \/ r # "ok")
          /\ o.kind = op.kind /\ o.first = op.first /\ o.last = op.last /\ o.data = op.data
          /\ o.at = op.at /\ o.ret = op.ret /\ o.place = op.place
          /\ o.before = op.before /\ o.clean = op.clean
      BY <1>2, PassedIs
    <3>2. Flash!NextWord(o, w)
      BY <2>1, <2>4
    <3> HIDE DEF o
    <3>3. /\ op' \in CallsWith(op'.data) /\ op'.unseen = o.unseen
          /\ op'.kind = "write" /\ op'.first = op.first /\ op'.last = op.last /\ op'.data = op.data
          /\ op'.ret = 0 /\ op'.before = op.before /\ op'.clean = op.clean
          /\ \/ op'.place = "returned" /\ op'.at = op.at /\ op.last < w + PortWidth
             \/ op'.place = "run" /\ op'.at = w + PortWidth /\ w + PortWidth <= op.last
      BY <1>1, <1>2, <3>1, <3>2, WordMoves
    <3>4. FlashTyped'
      BY <1>1, <1>2, <2>2, <3>3 DEF FlashTyped
    <3>5. CallInRange'
      BY <1>1, <1>2, <3>3, WordInRange
    <3>6. ASSUME Undisturbed' PROVE ChipFollows' /\ DoneSoFar' /\ Flash!OkIsDone'
      <4>1. Undisturbed /\ r = "ok"
        <5>1. op.place = "run" /\ op.ret = 0
          BY <1>1, <1>2, WordAt
        <5> QED BY <3>1, <3>3, <3>6, <5>1 DEF Undisturbed
      <4>2. /\ Flash!Does(Flash!Given) /\ wsm'.work = Flash!NoCommand /\ ~wsm'.status
        BY <2>1, <4>1, PollOk DEF FlashInv
      <4>3. /\ locked' = locked
            /\ \A b \in op.first..op.last : b < w + PortWidth => cells'[b] = op.data[b]
        BY <1>1, <1>2, <1>4, <4>1, <4>2, WordWritten
      <4> QED BY <1>1, <1>2, <3>3, <4>1, <4>2, <4>3, WordKeeps
    <3> QED BY <3>4, <3>5, <3>6, Disturbed DEF FlashInv
  <2> QED BY <2>3, <2>4
<1> QED BY <1>3, <1>4

-----------------------------------------------------------------------------
(* Locking and unlocking.                                                  *)

\* A call that gives or takes one lock, in its types.
LEMMA LockAt ==
  ASSUME FlashInv, op.place = "run", op.kind \in {"lock", "unlock"}
  PROVE  /\ op \in CallsWith(op.data) /\ op.ret = 0 /\ op.at = op.first
         /\ op.at \in Flash!Sects /\ op.first \in Nat /\ op.first < Sectors
         /\ op.before \subseteq Flash!Sects
<1>1. /\ op \in CallsWith(op.data) /\ op.ret = 0 /\ op.at = op.first /\ op.first < Sectors
  BY DEF FlashInv, FlashTyped, CallInRange
<1>2. op.first \in Nat /\ op.before \in SUBSET Flash!Sects
  BY <1>1 DEF CallsWith
<1>3. op.first \in Flash!Sects
  BY <1>1, <1>2, FlashHasSizes DEF Flash!Sects
<1> QED BY <1>1, <1>2, <1>3

LEMMA LockReturned ==
  ASSUME FlashInv, op.place = "run", op.kind \in {"lock", "unlock"}, driver' = driver,
         op'.place = "returned", op'.kind = op.kind, op'.at = op.at, op'.first = op.first
  PROVE  CallInRange'
<1>1. op.at = op.first /\ op.first < Sectors /\ op.first \in Nat /\ Sectors \in Nat
  BY LockAt, FlashHasSizes
<1> QED BY <1>1 DEF CallInRange

LEMMA FlashLockSector ==
  ASSUME FlashInv, Flash!LockSector PROVE FlashInv'
<1>1. /\ Flash!Runs("lock") /\ op.place = "run" /\ op.kind = "lock" /\ driver # "amd"
      /\ driver' = driver
  BY DEF Flash!LockSector, Flash!Runs
<1>2. PICK r \in Flash!Results :
        /\ Flash!Poll(r)
        /\ protect' = IF driver = "dbox2" THEN (protect \ {op.at}) \cup (locked' \cap {op.at})
                      ELSE IF r = "ok" THEN protect \cup {op.at} ELSE protect
        /\ Flash!Returns(Flash!Passed(r), IF Flash!Good(r) THEN 0 ELSE 1)
  BY DEF Flash!LockSector
<1>3. /\ op \in CallsWith(op.data) /\ op.ret = 0 /\ op.at = op.first
      /\ op.at \in Flash!Sects /\ op.before \subseteq Flash!Sects
  BY <1>1, LockAt
<1>4. FlashTyped /\ CallInRange
  BY DEF FlashInv
<1>5. /\ cells' \in [Flash!Bytes -> SUBSET ByteBits] /\ locked' \subseteq Flash!Sects
      /\ faults' \in 0..FlashFaults
      /\ wsm'.work.kind = "lock" => wsm'.work.at \subseteq Flash!Sects
      /\ wsm'.status \in BOOLEAN
  BY <1>2, <1>4, PollTyped
<1> DEFINE o == Flash!Passed(r)
           v == IF Flash!Good(r) THEN 0 ELSE 1
<1>6. /\ o \in CallsWith(o.data) /\ (o.unseen <=> op.unseen \/ r # "ok")
      /\ o.kind = op.kind /\ o.first = op.first /\ o.last = op.last /\ o.data = op.data
      /\ o.at = op.at /\ o.ret = op.ret /\ o.place = op.place
      /\ o.before = op.before /\ o.clean = op.clean
  BY <1>4, PassedIs
<1>7. Flash!Returns(o, v) /\ v \in 0..2
  BY <1>2
<1> HIDE DEF o, v
<1>8. /\ op' \in CallsWith(op'.data) /\ op'.ret = v /\ op'.place = "returned"
      /\ op'.unseen = o.unseen /\ op'.at = op.at /\ op'.kind = "lock"
      /\ op'.first = op.first /\ op'.before = op.before /\ op'.clean = op.clean
  BY <1>1, <1>6, <1>7, ReturnsIs
<1>9. FlashTyped'
  <2>1. protect \subseteq Flash!Sects
    BY <1>4 DEF FlashTyped
  <2>2. protect' \subseteq Flash!Sects
    BY <1>2, <1>3, <2>1
  <2> QED BY <1>1, <1>4, <1>5, <1>8, <2>2 DEF FlashTyped
<1>10. CallInRange'
  BY <1>1, <1>8, LockReturned
<1>11. ASSUME Undisturbed' PROVE ChipFollows' /\ DoneSoFar' /\ Flash!OkIsDone'
  <2>1. Undisturbed /\ r = "ok"
    BY <1>1, <1>3, <1>6, <1>8, <1>11 DEF Undisturbed
  <2>2. /\ Flash!Does(Flash!Given) /\ wsm'.work = Flash!NoCommand /\ ~wsm'.status
    BY <1>2, <2>1, PollOk DEF FlashInv
  <2>3. Flash!Given = Flash!Command("lock", {op.at}, <<>>)
    BY <1>1, GivenToLock
  <2>4. locked' = locked \cup {op.at}
    BY <2>2, <2>3, LocksWhat
  <2>5. protect = locked /\ op.before = locked
    BY <1>1, <2>1 DEF FlashInv, ChipFollows
  <2>6. protect' = locked' /\ protect' = op.before \cup {op.first}
    BY <1>2, <1>3, <2>1, <2>4, <2>5
  <2>7. ChipFollows' /\ DoneSoFar'
    BY <1>8, <2>2 DEF ChipFollows, DoneSoFar
  <2>8. Flash!OkIsDone'
    BY <1>8, <2>6 DEF Flash!OkIsDone
  <2> QED BY <2>7, <2>8
<1> QED BY <1>9, <1>10, <1>11, Disturbed DEF FlashInv

\* The call after a lock was taken: the others are to be given back.
LEMMA RelockIs ==
  ASSUME NEW o, o = [op EXCEPT !.place = "relock", !.at = 0], op \in CallsWith(op.data)
  PROVE  /\ o \in CallsWith(o.data) /\ o.place = "relock" /\ o.at = 0
         /\ o.kind = op.kind /\ o.first = op.first /\ o.last = op.last /\ o.data = op.data
         /\ o.ret = op.ret /\ o.unseen = op.unseen /\ o.before = op.before /\ o.clean = op.clean
<1> DEFINE s == "relock"
           n == 0
           q == [op EXCEPT !.place = s]
<1>1. o = [q EXCEPT !.at = n] /\ n \in Nat /\ s \in CallPlaces
  BY DEF CallPlaces
<1> HIDE DEF s, n
<1>2. /\ q \in CallsWith(q.data) /\ q.place = s /\ q.at = op.at
      /\ q.kind = op.kind /\ q.first = op.first /\ q.last = op.last /\ q.data = op.data
      /\ q.ret = op.ret /\ q.unseen = op.unseen /\ q.before = op.before /\ q.clean = op.clean
  BY <1>1 DEF CallsWith
<1> HIDE DEF q
<1>3. /\ o \in CallsWith(o.data) /\ o.place = q.place /\ o.at = n
      /\ o.kind = q.kind /\ o.first = q.first /\ o.last = q.last /\ o.data = q.data
      /\ o.ret = q.ret /\ o.unseen = q.unseen /\ o.before = q.before /\ o.clean = q.clean
  BY <1>1, <1>2 DEF CallsWith
<1> QED BY <1>2, <1>3 DEF s, n

LEMMA FlashUnlockSector ==
  ASSUME FlashInv, Flash!UnlockSector PROVE FlashInv'
<1>1. /\ Flash!Runs("unlock") /\ op.place = "run" /\ op.kind = "unlock" /\ driver = "strata"
      /\ driver' = driver
  BY DEF Flash!UnlockSector, Flash!Runs
<1>2. PICK r \in Flash!Results :
        /\ Flash!Poll(r)
        /\ IF r = "ok"
             THEN /\ protect' = protect \ {op.at}
                  /\ op' = [op EXCEPT !.place = "relock", !.at = 0]
             ELSE Flash!Returns(op, 1) /\ UNCHANGED protect
  BY DEF Flash!UnlockSector
<1>3. /\ op \in CallsWith(op.data) /\ op.ret = 0 /\ op.at = op.first
      /\ op.at \in Flash!Sects /\ op.first < Sectors /\ op.before \subseteq Flash!Sects
  BY <1>1, LockAt
<1>4. FlashTyped /\ CallInRange
  BY DEF FlashInv
<1>5. /\ cells' \in [Flash!Bytes -> SUBSET ByteBits] /\ locked' \subseteq Flash!Sects
      /\ faults' \in 0..FlashFaults
      /\ wsm'.work.kind = "lock" => wsm'.work.at \subseteq Flash!Sects
      /\ wsm'.status \in BOOLEAN
  BY <1>2, <1>4, PollTyped
<1>6. CASE r # "ok"
  <2> DEFINE v == 1
  <2>1. Flash!Returns(op, v) /\ protect' = protect /\ v \in 0..2
    BY <1>2, <1>6
  <2> HIDE DEF v
  <2>2. /\ op' \in CallsWith(op'.data) /\ op'.ret = v /\ op'.place = "returned"
        /\ op'.at = op.at /\ op'.kind = op.kind /\ op'.first = op.first
    BY <1>3, <2>1, ReturnsIs
  <2>3. ~Undisturbed'
    BY <2>2 DEF Undisturbed, v
  <2>4. FlashTyped'
    BY <1>1, <1>4, <1>5, <2>1, <2>2 DEF FlashTyped
  <2>5. CallInRange'
    BY <1>1, <2>2, LockReturned
  <2> QED BY <2>3, <2>4, <2>5, Disturbed DEF FlashInv
<1>7. CASE r = "ok"
  <2>1. protect' = protect \ {op.at} /\ op' = [op EXCEPT !.place = "relock", !.at = 0]
    BY <1>2, <1>7
  <2>2. /\ op' \in CallsWith(op'.data) /\ op'.place = "relock" /\ op'.at = 0
        /\ op'.kind = "unlock" /\ op'.first = op.first /\ op'.ret = 0 /\ op'.unseen = op.unseen
        /\ op'.before = op.before /\ op'.clean = op.clean
    BY <1>1, <1>3, <2>1, RelockIs
  <2>3. FlashTyped'
    BY <1>1, <1>4, <1>5, <2>1, <2>2 DEF FlashTyped
  <2>4. CallInRange'
    <3>1. 0 <= Sectors
      BY FlashHasSizes
    <3> QED BY <1>1, <1>3, <2>2, <3>1 DEF CallInRange
  <2>5. ASSUME Undisturbed' PROVE ChipFollows' /\ DoneSoFar' /\ Flash!OkIsDone'
    <3>1. Undisturbed
      BY <1>1, <1>3, <2>2, <2>5 DEF Undisturbed
    <3>2. /\ Flash!Does(Flash!Given) /\ wsm'.work = Flash!NoCommand /\ ~wsm'.status
      BY <1>2, <1>7, <3>1, PollOk DEF FlashInv
    <3>3. Flash!Given = Flash!Command("unlock", {op.at}, <<>>)
      BY <1>1, GivenToLock
    <3>4. locked' = {}
      BY <3>2, <3>3, LocksWhat
    <3>5. protect = locked /\ op.before = locked
      BY <1>1, <3>1 DEF FlashInv, ChipFollows
    <3>6. protect' = op.before \ {op.first}
      BY <1>3, <2>1, <3>5
    <3>7. \A s \in protect' : ~(s < 0)
      <4>1. protect' \subseteq Flash!Sects
        BY <2>3 DEF FlashTyped
      <4> QED BY <4>1, SectsAreNumbers
    <3>8. ChipFollows'
      BY <2>2, <3>2, <3>4, <3>6, <3>7 DEF ChipFollows
    <3>9. DoneSoFar' /\ Flash!OkIsDone'
      BY <2>2 DEF DoneSoFar, Flash!OkIsDone
    <3> QED BY <3>8, <3>9
  <2> QED BY <2>3, <2>4, <2>5, Disturbed DEF FlashInv
<1> QED BY <1>6, <1>7

LEMMA FlashRelock ==
  ASSUME FlashInv, Flash!Relock PROVE FlashInv'
<1>1. /\ op.place = "relock" /\ Flash!ToLock # {} /\ driver' = driver /\ protect' = protect
  BY DEF Flash!Relock
<1> DEFINE t == Flash!NextToLock
           n == t + 1
<1>2. PICK r \in Flash!Results : Flash!Poll(r) /\ Flash!GoesOn(Flash!Passed(r), n)
  BY DEF Flash!Relock
<1>3. FlashTyped /\ CallInRange
  BY DEF FlashInv
<1>4. /\ op \in CallsWith(op.data) /\ op.kind = "unlock" /\ op.ret = 0 /\ driver = "strata"
      /\ op.first < Sectors /\ op.at \in Nat
  BY <1>1, <1>3 DEF CallInRange, FlashTyped, CallsWith
<1>5. /\ t \in Flash!ToLock /\ \A s \in Flash!ToLock : t <= s
  BY <1>1, <1>3, NextIs
<1> HIDE DEF t
<1>6. t \in protect /\ t \in Flash!Sects /\ t >= op.at
  BY <1>3, <1>5 DEF Flash!ToLock, FlashTyped
<1>7. t \in Nat /\ n \in Nat /\ n <= Sectors /\ Sectors \in Nat
  BY <1>6, FlashHasSizes DEF Flash!Sects
<1>8. n = t + 1
  OBVIOUS
<1> HIDE DEF n
<1>9. /\ cells' \in [Flash!Bytes -> SUBSET ByteBits] /\ locked' \subseteq Flash!Sects
      /\ faults' \in 0..FlashFaults
      /\ wsm'.work.kind = "lock" => wsm'.work.at \subseteq Flash!Sects
      /\ wsm'.status \in BOOLEAN
  BY <1>2, <1>3, PollTyped
<1> DEFINE o == Flash!Passed(r)
<1>10. /\ o \in CallsWith(o.data) /\ (o.unseen <=> op.unseen \/ r # "ok")
       /\ o.kind = op.kind /\ o.first = op.first /\ o.last = op.last /\ o.data = op.data
       /\ o.at = op.at /\ o.ret = op.ret /\ o.place = op.place
       /\ o.before = op.before /\ o.clean = op.clean
  BY <1>3, PassedIs
<1>11. Flash!GoesOn(o, n)
  BY <1>2
<1> HIDE DEF o
<1>12. /\ op' \in CallsWith(op'.data) /\ op'.at = n /\ op'.unseen = o.unseen
       /\ op'.kind = "unlock" /\ op'.first = op.first /\ op'.ret = 0 /\ op'.place = "relock"
       /\ op'.before = op.before /\ op'.clean = op.clean
  BY <1>1, <1>4, <1>7, <1>10, <1>11, GoesOnIs
<1>13. FlashTyped'
  BY <1>1, <1>3, <1>9, <1>12 DEF FlashTyped
<1>14. CallInRange'
  BY <1>1, <1>4, <1>7, <1>12 DEF CallInRange
<1>15. ASSUME Undisturbed' PROVE ChipFollows'
  <2>1. Undisturbed /\ r = "ok"
    BY <1>1, <1>4, <1>10, <1>12, <1>15 DEF Undisturbed
  <2>2. /\ Flash!Does(Flash!Given) /\ wsm'.work = Flash!NoCommand /\ ~wsm'.status
    BY <1>2, <2>1, PollOk DEF FlashInv
  <2>3. Flash!Given = Flash!Command("lock", {t}, <<>>)
    BY <1>1, GivenToRelock DEF t
  <2>4. locked' = locked \cup {t}
    BY <2>2, <2>3, LocksWhat
  <2>5. protect = op.before \ {op.first} /\ locked = {s \in protect : s < op.at}
    BY <1>1, <2>1 DEF FlashInv, ChipFollows
  <2>6. protect \subseteq Nat
    BY <1>3, SectsAreNumbers DEF FlashTyped
  <2>7. \A s \in protect : s < n <=> s < op.at \/ s = t
    <3> TAKE s \in protect
    <3>1. s \in Nat /\ (s >= op.at => t <= s)
      BY <1>5, <2>6 DEF Flash!ToLock
    <3> QED BY <1>4, <1>6, <1>7, <1>8, <3>1
  <2>8. locked' = {s \in protect : s < n}
    BY <1>6, <2>4, <2>5, <2>7
  <2> QED BY <1>1, <1>12, <2>2, <2>5, <2>8 DEF ChipFollows
<1>16. DoneSoFar' /\ Flash!OkIsDone'
  BY <1>12 DEF DoneSoFar, Flash!OkIsDone
<1> QED BY <1>13, <1>14, <1>15, <1>16, Disturbed DEF FlashInv

LEMMA FlashRelockReturns ==
  ASSUME FlashInv, Flash!RelockReturns PROVE FlashInv'
<1>1. /\ op.place = "relock" /\ Flash!ToLock = {} /\ Flash!Returns(op, 0)
      /\ UNCHANGED <<driver, cells, locked, wsm, protect, faults>>
  BY DEF Flash!RelockReturns
<1>2. FlashTyped /\ CallInRange
  BY DEF FlashInv
<1>3. /\ op \in CallsWith(op.data) /\ op.kind = "unlock" /\ op.ret = 0 /\ driver = "strata"
      /\ op.first < Sectors /\ op.at <= Sectors /\ op.at \in Nat
  BY <1>1, <1>2 DEF CallInRange, FlashTyped, CallsWith
<1>4. /\ op' \in CallsWith(op'.data) /\ op'.ret = 0 /\ op'.place = "returned"
      /\ op'.unseen = op.unseen /\ op'.at = op.at /\ op'.kind = "unlock"
      /\ op'.first = op.first /\ op'.before = op.before /\ op'.clean = op.clean
  BY <1>1, <1>3, ReturnsIs
<1>5. FlashTyped'
  BY <1>1, <1>2, <1>4 DEF FlashTyped
<1>6. CallInRange'
  BY <1>1, <1>3, <1>4 DEF CallInRange
<1>7. ASSUME Undisturbed' PROVE ChipFollows' /\ DoneSoFar' /\ Flash!OkIsDone'
  <2>1. Undisturbed
    BY <1>1, <1>3, <1>4, <1>7 DEF Undisturbed
  <2>2. /\ wsm.work = Flash!NoCommand /\ ~wsm.status
        /\ protect = op.before \ {op.first} /\ locked = {s \in protect : s < op.at}
    BY <1>1, <2>1 DEF FlashInv, ChipFollows
  <2>3. \A s \in protect : s < op.at
    <3>1. \A s \in protect : ~(s >= op.at)
      BY <1>1 DEF Flash!ToLock
    <3>2. protect \subseteq Nat
      BY <1>2, SectsAreNumbers DEF FlashTyped
    <3> QED BY <1>3, <3>1, <3>2
  <2>4. protect = locked
    BY <2>2, <2>3
  <2>5. ChipFollows' /\ DoneSoFar'
    BY <1>1, <1>4, <2>2 DEF ChipFollows, DoneSoFar
  <2>6. Flash!OkIsDone'
    BY <1>1, <1>3, <1>4, <2>2, <2>4 DEF Flash!OkIsDone
  <2> QED BY <2>5, <2>6
<1> QED BY <1>5, <1>6, <1>7, Disturbed DEF FlashInv

LEMMA FlashUnlockAll ==
  ASSUME FlashInv, Flash!UnlockAll PROVE FlashInv'
<1>1. /\ Flash!Runs("unlock") /\ op.place = "run" /\ op.kind = "unlock" /\ driver = "dbox2"
      /\ driver' = driver /\ protect' = locked'
  BY DEF Flash!UnlockAll, Flash!Runs
<1>2. /\ op \in CallsWith(op.data) /\ op.ret = 0 /\ op.at = op.first
      /\ op.at \in Flash!Sects /\ op.before \subseteq Flash!Sects
  BY <1>1, LockAt
<1>3. FlashTyped /\ CallInRange
  BY DEF FlashInv
<1> DEFINE v == 0
<1>4. CASE Flash!Work = Flash!NoCommand
  <2>1. /\ Flash!AtRest /\ UNCHANGED <<cells, locked, faults>> /\ Flash!Returns(op, v) /\ v \in 0..2
    BY <1>4 DEF Flash!UnlockAll
  <2> HIDE DEF v
  <2>2. /\ op' \in CallsWith(op'.data) /\ op'.ret = v /\ op'.place = "returned"
        /\ op'.unseen = op.unseen /\ op'.at = op.at /\ op'.kind = op.kind
        /\ op'.first = op.first /\ op'.before = op.before /\ op'.clean = op.clean
    BY <1>2, <2>1, ReturnsIs
  <2>3. FlashTyped'
    BY <1>1, <1>3, <2>1, <2>2, RestTyped DEF FlashTyped
  <2>4. CallInRange'
    BY <1>1, <2>2, LockReturned
  <2>5. ASSUME Undisturbed' PROVE ChipFollows' /\ DoneSoFar' /\ Flash!OkIsDone'
    <3>1. Undisturbed
      BY <1>1, <1>2, <2>2, <2>5 DEF Undisturbed
    <3>2. /\ wsm.work = Flash!NoCommand /\ ~wsm.status /\ protect = locked /\ op.before = locked
      BY <1>1, <3>1 DEF FlashInv, ChipFollows
    <3>3. Flash!Given = Flash!NoCommand
      BY <1>1, <1>4, <3>2 DEF Flash!Work, Flash!Takes
    <3>4. op.at \notin locked
      <4>1. CASE op.at \in locked
        <5>1. Flash!Given = Flash!Command(op.kind, {op.at}, <<>>)
          BY <1>1, <4>1, GivenToLock
        <5> QED BY <1>1, <3>3, <5>1, CommandIs, NoCommandIs
      <4> QED BY <4>1
    <3>5. protect' = locked' /\ locked' = op.before
      BY <1>1, <2>1, <3>2
    <3>6. ChipFollows' /\ DoneSoFar'
      BY <2>1, <2>2, RestTyped DEF ChipFollows, DoneSoFar
    <3>7. protect' = op.before \ {op.first} /\ op.first \notin op.before
      BY <1>2, <3>2, <3>4, <3>5
    <3>8. Flash!OkIsDone'
      BY <1>1, <2>2, <3>5, <3>7 DEF Flash!OkIsDone
    <3> QED BY <3>6, <3>8
  <2> QED BY <2>3, <2>4, <2>5, Disturbed DEF FlashInv
<1>5. CASE Flash!Work # Flash!NoCommand
  <2>1. PICK r \in {"ok", "error"} : Flash!Poll(r) /\ Flash!Returns(Flash!Passed(r), v)
    BY <1>5 DEF Flash!UnlockAll
  <2> DEFINE o == Flash!Passed(r)
  <2>2. /\ o \in CallsWith(o.data) /\ (o.unseen <=> op.unseen \/ r # "ok")
        /\ o.kind = op.kind /\ o.first = op.first /\ o.last = op.last /\ o.data = op.data
        /\ o.at = op.at /\ o.ret = op.ret /\ o.place = op.place
        /\ o.before = op.before /\ o.clean = op.clean
    BY <1>3, PassedIs
  <2>3. Flash!Returns(o, v) /\ v \in 0..2
    BY <2>1
  <2> HIDE DEF o, v
  <2>4. /\ op' \in CallsWith(op'.data) /\ op'.ret = v /\ op'.place = "returned"
        /\ op'.unseen = o.unseen /\ op'.at = op.at /\ op'.kind = op.kind
        /\ op'.first = op.first /\ op'.before = op.before /\ op'.clean = op.clean
    BY <2>2, <2>3, ReturnsIs
  <2>5. /\ cells' \in [Flash!Bytes -> SUBSET ByteBits] /\ locked' \subseteq Flash!Sects
        /\ faults' \in 0..FlashFaults
        /\ wsm'.work.kind = "lock" => wsm'.work.at \subseteq Flash!Sects
        /\ wsm'.status \in BOOLEAN
    BY <1>3, <2>1, PollTyped
  <2>6. FlashTyped'
    BY <1>1, <1>3, <2>4, <2>5 DEF FlashTyped
  <2>7. CallInRange'
    BY <1>1, <2>4, LockReturned
  <2>8. ASSUME Undisturbed' PROVE ChipFollows' /\ DoneSoFar' /\ Flash!OkIsDone'
    <3>1. Undisturbed /\ r = "ok"
      BY <1>1, <1>2, <2>2, <2>4, <2>8 DEF Undisturbed
    <3>2. /\ Flash!Does(Flash!Given) /\ Flash!Work = Flash!Given
          /\ wsm'.work = Flash!NoCommand /\ ~wsm'.status
      BY <2>1, <3>1, PollOk DEF FlashInv
    <3>3. protect = locked /\ op.before = locked
      BY <1>1, <3>1 DEF FlashInv, ChipFollows
    <3>4. op.at \in locked
      BY <1>1, <1>5, <3>2, GivenNothing
    <3>5. Flash!Given = Flash!Command("unlock", {op.at}, <<>>)
      BY <1>1, <3>4, GivenToLock
    <3>6. locked' = {}
      BY <3>2, <3>5, LocksWhat
    <3>7. ChipFollows' /\ DoneSoFar'
      BY <2>4, <3>2 DEF ChipFollows, DoneSoFar
    <3>8. protect' = locked' /\ protect' = {} /\ op.first \in op.before
      BY <1>1, <1>2, <3>3, <3>4, <3>6
    <3>9. Flash!OkIsDone'
      BY <1>1, <2>4, <3>8 DEF Flash!OkIsDone
    <3> QED BY <3>7, <3>9
  <2> QED BY <2>6, <2>7, <2>8, Disturbed DEF FlashInv
<1> QED BY <1>4, <1>5

-----------------------------------------------------------------------------
(* AMD chips.                                                              *)

LEMMA TimedTyped ==
  ASSUME FlashTyped, CallInRange, NEW late \in BOOLEAN, Flash!Timed(late)
  PROVE  /\ cells' \in [Flash!Bytes -> SUBSET ByteBits] /\ locked' \subseteq Flash!Sects
         /\ faults' \in 0..FlashFaults
         /\ wsm'.work.kind = "lock" => wsm'.work.at \subseteq Flash!Sects
         /\ wsm'.status \in BOOLEAN
         /\ ~late => Flash!Does(Flash!Given) /\ wsm'.work = Flash!NoCommand /\ ~wsm'.status
<1> DEFINE x == Flash!Given
<1>1. x.kind = "lock" => x.at \subseteq Flash!Sects
  BY LockGiven
<1>2. faults \in 0..FlashFaults /\ FlashFaults \in Nat /\ cells \in [Flash!Bytes -> SUBSET ByteBits]
      /\ locked \subseteq Flash!Sects
  BY FlashHasSizes DEF FlashTyped
<1>3. \/ ~late /\ Flash!Does(x) /\ Flash!AtRest /\ UNCHANGED faults
      \/ /\ late /\ faults < FlashFaults /\ faults' = faults + 1
         /\ wsm' = [work |-> x, status |-> TRUE] /\ UNCHANGED <<cells, locked>>
      \/ /\ late /\ faults < FlashFaults /\ faults' = faults + 1
         /\ wsm' = [work |-> Flash!NoCommand, status |-> TRUE] /\ Flash!DoesSome(x)
  BY DEF Flash!Timed
<1> HIDE DEF x
<1>4. CASE ~late /\ Flash!Does(x) /\ Flash!AtRest /\ UNCHANGED faults
  <2>1. /\ cells' \in [Flash!Bytes -> SUBSET ByteBits] /\ locked' \subseteq Flash!Sects
    BY <1>1, <1>4, DoesTyped DEF Flash!Does
  <2>2. faults' = faults /\ Flash!Does(x) /\ Flash!AtRest
    BY <1>4
  <2> QED BY <1>2, <2>1, <2>2, RestTyped DEF x
<1>5. CASE /\ late /\ faults < FlashFaults /\ faults' = faults + 1
           /\ wsm' = [work |-> x, status |-> TRUE] /\ UNCHANGED <<cells, locked>>
  BY <1>1, <1>2, <1>5
<1>6. CASE /\ late /\ faults < FlashFaults /\ faults' = faults + 1
           /\ wsm' = [work |-> Flash!NoCommand, status |-> TRUE] /\ Flash!DoesSome(x)
  BY <1>1, <1>2, <1>6, DoesSomeTyped, NoCommandIs
<1> QED BY <1>3, <1>4, <1>5, <1>6

LEMMA FlashEraseAll ==
  ASSUME FlashInv, Flash!EraseAll PROVE FlashInv'
<1>1. /\ Flash!Runs("erase") /\ op.place = "run" /\ op.kind = "erase" /\ driver = "amd"
      /\ driver' = driver /\ protect' = protect
  BY DEF Flash!EraseAll, Flash!Runs
<1>2. FlashTyped /\ CallInRange
  BY DEF FlashInv
<1>3. /\ op \in CallsWith(op.data) /\ op.at = op.first /\ op.at <= op.last /\ op.first <= op.last
      /\ op.last < Sectors /\ op.at <= op.last + 1 /\ op.ret = 0 /\ op.at \in Nat
      /\ op.first <= op.at /\ op.first \in Nat
  BY <1>1, <1>2 DEF FlashTyped, CallInRange, CallsWith
<1>4. Flash!ToErase = (op.first..op.last) \ protect
  BY <1>1 DEF Flash!ToErase
<1>5. PICK v \in {0, 1} :
        /\ Flash!Returns(op, v)
        /\ \/ Flash!ToErase = {} /\ Flash!ResetBank /\ UNCHANGED <<cells, locked, faults>>
           \/ /\ Flash!ToErase # {} /\ Flash!Takes
              /\ \E late \in BOOLEAN : Flash!Timed(late) /\ (v = 0 => ~late)
           \/ /\ ~Flash!Takes /\ (Flash!ResetBank \/ wsm' = wsm)
              /\ UNCHANGED <<cells, locked, faults>>
  <2> DEFINE z == 0
             e == 1
  <2>1. CASE Flash!ToErase = {} /\ Flash!ResetBank /\ Flash!Returns(op, 0)
             /\ UNCHANGED <<cells, locked, faults>>
    BY <2>1
  <2>2. CASE /\ Flash!ToErase # {} /\ Flash!Takes
             /\ \E late \in BOOLEAN :
                  /\ Flash!Timed(late)
                  /\ (Flash!Returns(op, 0) /\ ~late) \/ Flash!Returns(op, 1)
    BY <2>2
  <2>3. CASE /\ Flash!ToErase # {} /\ ~Flash!Takes
             /\ \/ Flash!Returns(op, 0) /\ Flash!ResetBank
                \/ Flash!Returns(op, 1) /\ UNCHANGED wsm
             /\ UNCHANGED <<cells, locked, faults>>
    BY <2>3
  <2> QED BY <2>1, <2>2, <2>3 DEF Flash!EraseAll
<1>6. v \in 0..2
  OBVIOUS
<1>7. /\ op' \in CallsWith(op'.data) /\ op'.ret = v /\ op'.place = "returned"
      /\ op'.unseen = op.unseen /\ op'.at = op.at /\ op'.kind = "erase"
      /\ op'.first = op.first /\ op'.last = op.last
      /\ op'.before = op.before /\ op'.clean = op.clean
  BY <1>1, <1>3, <1>5, <1>6, ReturnsIs
<1>8. FlashTyped'
  <2>1. CASE (Flash!ResetBank \/ wsm' = wsm) /\ UNCHANGED <<cells, locked, faults>>
    BY <1>1, <1>2, <1>7, <2>1, ResetTyped DEF FlashTyped
  <2>2. CASE \E late \in BOOLEAN : Flash!Timed(late)
    <3>1. /\ cells' \in [Flash!Bytes -> SUBSET ByteBits] /\ locked' \subseteq Flash!Sects
          /\ faults' \in 0..FlashFaults
          /\ wsm'.work.kind = "lock" => wsm'.work.at \subseteq Flash!Sects
          /\ wsm'.status \in BOOLEAN
      BY <1>2, <2>2, TimedTyped
    <3> QED BY <1>1, <1>2, <1>7, <3>1 DEF FlashTyped
  <2> QED BY <1>5, <2>1, <2>2
<1>9. CallInRange'
  BY <1>1, <1>3, <1>7 DEF CallInRange
<1>10. ASSUME Undisturbed' PROVE ChipFollows' /\ DoneSoFar' /\ Flash!OkIsDone'
  <2>1. Undisturbed /\ v = 0
    BY <1>1, <1>3, <1>7, <1>10 DEF Undisturbed
  <2>2. /\ wsm.work = Flash!NoCommand /\ ~wsm.status /\ protect = locked
    BY <1>1, <2>1 DEF FlashInv, ChipFollows
  <2>3. Flash!Takes
    BY <2>2 DEF Flash!Takes
  <2>4. /\ wsm'.work = Flash!NoCommand /\ ~wsm'.status
        /\ \A b \in Flash!Bytes : Flash!SectorOf(b) \in Flash!ToErase => cells'[b] = ByteBits
    <3>1. CASE Flash!ToErase = {} /\ Flash!ResetBank /\ UNCHANGED <<cells, locked, faults>>
      BY <1>2, <2>2, <3>1, ResetTyped
    <3>2. CASE Flash!ToErase # {} /\ Flash!Timed(FALSE)
      <4>1. Flash!Does(Flash!Given) /\ wsm'.work = Flash!NoCommand /\ ~wsm'.status
        BY <1>2, <3>2, TimedTyped
      <4>2. Flash!Given = Flash!Command("erase", Flash!ToErase, <<>>)
        BY <1>1, <1>3, <3>2, GivenToErase
      <4>3. \A b \in Flash!Bytes : Flash!SectorOf(b) \in Flash!ToErase \ locked
                                     => cells'[b] = ByteBits
        BY <4>1, <4>2, ErasesWhat
      <4>4. Flash!ToErase \ locked = Flash!ToErase
        BY <1>4, <2>2
      <4> QED BY <4>1, <4>3, <4>4
    <3> QED BY <1>5, <2>1, <2>3, <3>1, <3>2
  <2>5. ChipFollows' /\ DoneSoFar'
    BY <1>7, <2>4 DEF ChipFollows, DoneSoFar
  <2>6. Flash!OkIsDone'
    BY <1>1, <1>4, <1>7, <2>4 DEF Flash!OkIsDone
  <2> QED BY <2>5, <2>6
<1> QED BY <1>8, <1>9, <1>10, Disturbed DEF FlashInv

LEMMA FlashProgramWord ==
  ASSUME FlashInv, Flash!ProgramWord PROVE FlashInv'
<1> DEFINE w == Flash!WordOf(op.at)
<1>1. /\ Flash!Runs("write") /\ driver = "amd" /\ driver' = driver /\ protect' = protect
      /\ \/ /\ Flash!Takes /\ Flash!ErasedEnough(w)
            /\ \E late \in BOOLEAN :
                 /\ Flash!Timed(late)
                 /\ IF ~late /\ Flash!SameD7(w) THEN Flash!NextWord(op, w) ELSE Flash!Returns(op, 1)
         \/ /\ Flash!Takes => ~Flash!ErasedEnough(w)
            /\ \/ Flash!Returns(op, 2)
               \/ ~Flash!Takes /\ (Flash!NextWord(op, w) \/ Flash!Returns(op, 1))
            /\ UNCHANGED <<cells, locked, wsm, faults>>
  BY DEF Flash!ProgramWord
<1>2. w = Flash!WordOf(op.at) /\ FlashTyped /\ CallInRange /\ op \in CallsWith(op.data)
      /\ op.place = "run" /\ op.ret = 0
  BY <1>1, WordAt DEF FlashInv
<1> HIDE DEF w
<1>3. ASSUME NEW v \in {1, 2}, Flash!Returns(op, v), FlashTyped' \/ UNCHANGED <<cells, locked, wsm, faults>>
      PROVE  FlashInv'
  <2>1. /\ op' \in CallsWith(op'.data)
        /\ CallInRange' /\ ChipFollows' /\ DoneSoFar' /\ Flash!OkIsDone'
    BY <1>1, <1>3, WordFails
  <2>2. FlashTyped'
    BY <1>1, <1>2, <1>3, <2>1 DEF FlashTyped
  <2> QED BY <2>1, <2>2 DEF FlashInv
<1>4. ASSUME Flash!NextWord(op, w)
      PROVE  /\ op' \in CallsWith(op'.data) /\ op'.unseen = op.unseen
             /\ op'.kind = "write" /\ op'.first = op.first /\ op'.last = op.last
             /\ op'.data = op.data
             /\ op'.ret = 0 /\ op'.before = op.before /\ op'.clean = op.clean
             /\ \/ op'.place = "returned" /\ op'.at = op.at /\ op.last < w + PortWidth
                \/ op'.place = "run" /\ op'.at = w + PortWidth /\ w + PortWidth <= op.last
             /\ CallInRange'
  <2>1. /\ op' \in CallsWith(op'.data) /\ op'.unseen = op.unseen
        /\ op'.kind = "write" /\ op'.first = op.first /\ op'.last = op.last /\ op'.data = op.data
        /\ op'.ret = 0 /\ op'.before = op.before /\ op'.clean = op.clean
        /\ \/ op'.place = "returned" /\ op'.at = op.at /\ op.last < w + PortWidth
           \/ op'.place = "run" /\ op'.at = w + PortWidth /\ w + PortWidth <= op.last
    BY <1>1, <1>2, <1>4, WordMoves
  <2> QED BY <1>1, <1>2, <2>1, WordInRange
<1>5. CASE /\ Flash!Takes /\ Flash!ErasedEnough(w)
           /\ \E late \in BOOLEAN :
                /\ Flash!Timed(late)
                /\ IF ~late /\ Flash!SameD7(w) THEN Flash!NextWord(op, w) ELSE Flash!Returns(op, 1)
  <2>1. PICK late \in BOOLEAN :
          /\ Flash!Timed(late)
          /\ IF ~late /\ Flash!SameD7(w) THEN Flash!NextWord(op, w) ELSE Flash!Returns(op, 1)
    BY <1>5
  <2>2. /\ cells' \in [Flash!Bytes -> SUBSET ByteBits] /\ locked' \subseteq Flash!Sects
        /\ faults' \in 0..FlashFaults
        /\ wsm'.work.kind = "lock" => wsm'.work.at \subseteq Flash!Sects
        /\ wsm'.status \in BOOLEAN
        /\ ~late => Flash!Does(Flash!Given) /\ wsm'.work = Flash!NoCommand /\ ~wsm'.status
    BY <1>2, <2>1, TimedTyped
  <2>3. op' \in CallsWith(op'.data)
    BY <1>1, <1>4, <2>1, WordFails
  <2>4. FlashTyped'
    BY <1>1, <1>2, <2>2, <2>3 DEF FlashTyped
  <2>5. CASE Flash!Returns(op, 1)
    BY <1>3, <2>4, <2>5
  <2>6. CASE ~late /\ Flash!NextWord(op, w)
    <3>1. ASSUME Undisturbed' PROVE ChipFollows' /\ DoneSoFar' /\ Flash!OkIsDone'
      <4>1. Undisturbed
        BY <1>2, <1>4, <2>6, <3>1 DEF Undisturbed
      <4>2. /\ locked' = locked
            /\ \A b \in op.first..op.last : b < w + PortWidth => cells'[b] = op.data[b]
        BY <1>1, <1>2, <1>5, <2>2, <2>6, <4>1, WordWritten
      <4> QED BY <1>1, <1>2, <1>4, <2>2, <2>6, <4>1, <4>2, WordKeeps
    <3> QED BY <1>4, <2>4, <2>6, <3>1, Disturbed DEF FlashInv
  <2> QED BY <2>1, <2>5, <2>6
<1>6. CASE /\ Flash!Takes => ~Flash!ErasedEnough(w)
           /\ \/ Flash!Returns(op, 2)
              \/ ~Flash!Takes /\ (Flash!NextWord(op, w) \/ Flash!Returns(op, 1))
           /\ UNCHANGED <<cells, locked, wsm, faults>>
  <2>1. CASE Flash!Returns(op, 2) \/ Flash!Returns(op, 1)
    BY <1>3, <1>6, <2>1
  <2>2. CASE ~Flash!Takes /\ Flash!NextWord(op, w)
    <3>1. ~Undisturbed
      BY <2>2 DEF FlashInv, ChipFollows, Flash!Takes
    <3>2. ~Undisturbed'
      BY <1>2, <1>4, <2>2, <3>1 DEF Undisturbed
    <3>3. FlashTyped'
      BY <1>1, <1>2, <1>4, <1>6, <2>2 DEF FlashTyped
    <3> QED BY <1>4, <2>2, <3>2, <3>3, Disturbed DEF FlashInv
  <2> QED BY <1>6, <2>1, <2>2
<1> QED BY <1>1, <1>5, <1>6

LEMMA FlashNoteProtect ==
  ASSUME FlashInv, Flash!NoteProtect PROVE FlashInv'
<1>1. /\ op.place = "run" /\ op.kind \in {"lock", "unlock"} /\ driver = "amd"
      /\ protect' = IF op.kind = "lock" THEN protect \cup {op.at} ELSE protect \ {op.at}
      /\ Flash!Returns(op, 0)
      /\ UNCHANGED <<driver, cells, locked, wsm, faults>>
  BY DEF Flash!NoteProtect
<1>2. /\ op \in CallsWith(op.data) /\ op.ret = 0 /\ op.at = op.first /\ op.at \in Flash!Sects
  BY <1>1, LockAt
<1>3. /\ op' \in CallsWith(op'.data) /\ op'.ret = 0 /\ op'.place = "returned"
      /\ op'.unseen = op.unseen /\ op'.at = op.at /\ op'.kind = op.kind
      /\ op'.first = op.first /\ op'.before = op.before /\ op'.clean = op.clean
  BY <1>1, <1>2, ReturnsIs
<1>4. FlashTyped'
  <2>1. protect' \subseteq Flash!Sects
    BY <1>1, <1>2 DEF FlashInv, FlashTyped
  <2> QED BY <1>1, <1>3, <2>1 DEF FlashInv, FlashTyped
<1>5. CallInRange'
  BY <1>1, <1>3, LockReturned
<1>6. ASSUME Undisturbed' PROVE ChipFollows' /\ DoneSoFar' /\ Flash!OkIsDone'
  <2>1. Undisturbed
    BY <1>1, <1>2, <1>3, <1>6 DEF Undisturbed
  <2>2. /\ wsm.work = Flash!NoCommand /\ ~wsm.status /\ protect = locked /\ op.before = locked
    BY <1>1, <2>1 DEF FlashInv, ChipFollows
  <2>3. ChipFollows' /\ DoneSoFar'
    BY <1>1, <1>3, <2>2 DEF ChipFollows, DoneSoFar
  <2>4. CASE op.kind = "lock"
    <3>1. protect' = op.before \cup {op.first}
      BY <1>1, <1>2, <2>2, <2>4
    <3>2. Flash!OkIsDone'
      BY <1>1, <1>3, <2>4, <3>1 DEF Flash!OkIsDone
    <3> QED BY <2>3, <3>2
  <2>5. CASE op.kind = "unlock"
    <3>1. protect' = op.before \ {op.first}
      BY <1>1, <1>2, <2>2, <2>5
    <3>2. Flash!OkIsDone'
      BY <1>1, <1>3, <2>5, <3>1 DEF Flash!OkIsDone
    <3> QED BY <2>3, <3>2
  <2> QED BY <1>1, <2>4, <2>5
<1> QED BY <1>4, <1>5, <1>6, Disturbed DEF FlashInv

-----------------------------------------------------------------------------
(* The whole.                                                              *)

LEMMA FlashStarts == ASSUME Flash!Init PROVE FlashInv
<1>1. /\ driver \in {"strata", "dbox2", "amd"} /\ cells = [b \in Flash!Bytes |-> ByteBits]
      /\ locked \in (IF driver = "amd" THEN SUBSET Flash!Sects ELSE {{}}) /\ protect = {}
      /\ wsm = [work |-> Flash!NoCommand, status |-> FALSE] /\ op = Flash!NoCall /\ faults = 0
  BY DEF Flash!Init
<1>2. FlashTyped
  <2>1. locked \subseteq Flash!Sects
    BY <1>1
  <2>2. cells \in [Flash!Bytes -> SUBSET ByteBits]
    BY <1>1
  <2>3. wsm.work.kind # "lock" /\ wsm.status \in BOOLEAN
    BY <1>1, NoCommandIs
  <2> QED BY <1>1, <2>1, <2>2, <2>3, NoCallIs, FlashHasSizes DEF FlashTyped
<1>3. CallInRange
  BY <1>1, NoCallIs DEF CallInRange
<1>4. ChipFollows /\ DoneSoFar /\ Flash!OkIsDone
  BY <1>1, NoCallIs DEF ChipFollows, DoneSoFar, Undisturbed, Flash!OkIsDone
<1> QED BY <1>2, <1>3, <1>4 DEF FlashInv

LEMMA FlashNext == ASSUME FlashInv, Flash!Next PROVE FlashInv'
BY FlashBegins, FlashReturned, FlashEraseSector, FlashEraseReturns, FlashWriteWord,
   FlashLockSector, FlashUnlockSector, FlashRelock, FlashRelockReturns, FlashUnlockAll,
   FlashReadLocks, FlashEraseAll, FlashProgramWord, FlashNoteProtect, FlashWorkEnds,
   FlashPowerLoss
   DEF Flash!Next

LEMMA FlashStays == ASSUME FlashInv, UNCHANGED flashVars PROVE FlashInv'
BY DEF FlashInv, FlashTyped, CallInRange, ChipFollows, DoneSoFar, Undisturbed, Flash!OkIsDone,
       flashVars

LEMMA FlashIsTyped == ASSUME FlashInv PROVE Flash!FlashTypeOK
<1>1. op.at \in Nat /\ op.place \in CallPlaces /\ op.ret \in 0..2
  BY DEF FlashInv, FlashTyped, CallsWith
<1> DEFINE all == Sectors * SectorBytes
<1>2. all \in Nat /\ Sectors \in Nat /\ Sectors <= all
  BY FlashHasSizes
<1>3. op.at <= all
  <2>1. op.kind \in CallKinds
    BY DEF FlashInv, FlashTyped, CallsWith
  <2>2. op.last \in Nat
    BY DEF FlashInv, FlashTyped, CallsWith
  <2>3. CASE op.kind = "write"
    <3>1. op.at <= op.last /\ op.last < all
      BY <2>3 DEF FlashInv, CallInRange
    <3> HIDE DEF all
    <3> QED BY <1>1, <1>2, <2>2, <3>1
  <2>4. CASE op.kind # "write"
    <3>1. \/ op.at = 0 \/ op.at <= Sectors
          \/ op.at <= op.last + 1 /\ op.last < Sectors
      BY <2>1, <2>4 DEF FlashInv, CallInRange, CallKinds
    <3> HIDE DEF all
    <3> QED BY <1>1, <1>2, <2>2, <3>1
  <2> QED BY <2>3, <2>4
<1>4. op.at \in 0..all
  <2> HIDE DEF all
  <2> QED BY <1>1, <1>2, <1>3
<1> QED BY <1>1, <1>4 DEF FlashInv, FlashTyped, Flash!FlashTypeOK, CallPlaces

\* flash_erase, write_buff and flash_real_protect of the drivers for Intel chips, and of the
\* branches for AMD ones: a call that found the chip at rest, met no error the driver passes over
\* and returns 0 has done what it says.
THEOREM OkMeansDone == Spec => []OkIsDone
<1> DEFINE Inv == part = "flash" => FlashInv
<1>1. Init => Inv
  BY FlashStarts DEF Init
<1>2. Inv /\ [Next]_romVars => Inv'
  BY FlashNext, FlashStays DEF Next, Runs, romVars
<1>3. Inv => OkIsDone
  BY FlashIsTyped DEF OkIsDone, FlashInv
<1> QED BY <1>1, <1>2, <1>3, PTL DEF Spec, romVars
=============================================================================
