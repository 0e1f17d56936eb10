----------------------------- MODULE DiskProofs -----------------------------
(***************************************************************************)
(* The way from a disk to memory, part by part: the blocks ide_read and    *)
(* ide_write count, the sectors the adapter of the dbox2 reads, and the    *)
(* image diskboot loads, for any disk, sector, number of devices and       *)
(* number of failures.                                                     *)
(***************************************************************************)
EXTENDS MCBox, SequenceTheorems, TLAPS

diskBoxVars == <<part, usbVars, frontVars, ataVars, showVars>>

-----------------------------------------------------------------------------
(* ide_read and ide_write: the inductive invariant.                        *)

DriveCommands == [kind : {"none", "power", "read", "write", "data"},
                  block : Disk!Lba, data : Disk!Lba]
Drives   == [status : {"busy", "drq", "ready", "err"}, cmd : DriveCommands, asleep : BOOLEAN]
IdePlaces == {"idle", "select", "power", "loop", "answer", "returned"}
IdeCalls == [kind : {"none", "read", "write"}, first : Nat, cnt : 0..MaxCount, n : Nat,
             place : IdePlaces, pwrsave : BOOLEAN, lba48 : BOOLEAN, mem : Seq(Int),
             late : BOOLEAN, unseen : BOOLEAN]

\* The drive and the call have their types, and a call stays on the disk and within its count.
IdeTyped ==
  /\ LBA48 \in BOOLEAN /\ drive \in Drives /\ io \in IdeCalls /\ troubles \in Nat
  /\ io.n <= io.cnt /\ io.first + io.cnt <= DiskBlocks
  /\ io.place = "answer" => io.n < io.cnt
  /\ io.place # "idle" => io.kind \in {"read", "write"}
  /\ io.place \in {"select", "power"} => io.kind = "read" /\ io.n = 0

\* The call has found the drive at rest.
IdePrompt == io.place # "idle" /\ ~io.late

\* The block i of the call was sent last, and the drive is still at it.
LastSent(i) ==
  /\ i = io.n - 1 /\ Disk!Busy /\ drive.cmd.kind = "data"
  /\ drive.cmd.block = Disk!Reached(io, io.first + i) /\ drive.cmd.data = io.first + i

\* What the drive is at is what such a call has told it last.
DriveFollows ==
  IdePrompt =>
    /\ io.place = "select" => drive.status \in {"ready", "err"}
    /\ io.place = "power" =>
         drive.status \in {"ready", "err"} \/ (Disk!Busy /\ drive.cmd.kind = "power")
    /\ io.place = "loop" =>
         drive.status \in {"ready", "err"} \/ (io.kind = "write" /\ LastSent(io.n - 1))
    /\ io.place = "answer" =>
         \/ drive.status = "err"
         \/ /\ drive.status \in {"busy", "drq"}
            /\ drive.cmd.kind = io.kind /\ drive.cmd.block = Disk!Block

\* The blocks read lie in memory one behind the other.
ReadInOrder ==
  io.kind = "read" =>
    /\ Len(io.mem) = io.n
    /\ IdePrompt => \A i \in 0..(io.n - 1) : io.mem[i + 1] = Disk!Reached(io, io.first + i)

\* Without trouble no error is seen, and a drive that sleeps is waited for.
ReadToTheEnd ==
  troubles = 0 =>
    /\ drive.status # "err"
    /\ IdePrompt /\ io.kind = "read" =>
         /\ io.place \in {"loop", "answer"} /\ drive.asleep =>
              io.pwrsave /\ drive.status # "drq"
         /\ io.place = "returned" => io.n = io.cnt

\* The blocks sent are on the disk, but for the last one.
WrittenInOrder ==
  IdePrompt /\ io.kind = "write" /\ ~io.unseen =>
    \A i \in 0..(io.n - 1) :
      <<Disk!Reached(io, io.first + i), io.first + i>> \in written \/ LastSent(i)

IdeInv == IdeTyped /\ DriveFollows /\ ReadInOrder /\ ReadToTheEnd /\ WrittenInOrder

-----------------------------------------------------------------------------
(* The records of the drive and of the call after a step.                  *)

LEMMA IdeHasSizes ==
  /\ DiskBlocks \in Nat \ {0} /\ Reach \in Nat \ {0} /\ MaxCount \in Nat
  /\ Lba48Builds \subseteq BOOLEAN /\ DiskFaults \in Nat
BY PartsAssumption DEF Disk!IdeSizes

\* The drive with another status and command.
DriveWith(s, c) == [drive EXCEPT !.status = s, !.cmd = c]

LEMMA DriveGets ==
  ASSUME drive \in Drives, NEW s \in {"busy", "drq", "ready", "err"}, NEW c \in DriveCommands,
         NEW d, d = DriveWith(s, c)
  PROVE  d \in Drives /\ d.status = s /\ d.cmd = c /\ d.asleep = drive.asleep
<1> DEFINE q == [drive EXCEPT !.status = s]
<1>1. d = [q EXCEPT !.cmd = c]
  BY DEF DriveWith
<1>2. q \in Drives /\ q.status = s /\ q.asleep = drive.asleep
  BY DEF Drives
<1> HIDE DEF q
<1>3. d \in Drives /\ d.status = q.status /\ d.cmd = c /\ d.asleep = q.asleep
  BY <1>1, <1>2 DEF Drives
<1> QED BY <1>2, <1>3

LEMMA DriveWakes ==
  ASSUME drive \in Drives, NEW d, d = [drive EXCEPT !.status = "drq", !.asleep = FALSE]
  PROVE  d \in Drives /\ d.status = "drq" /\ d.cmd = drive.cmd /\ ~d.asleep
<1> DEFINE q == [drive EXCEPT !.status = "drq"]
<1>1. d = [q EXCEPT !.asleep = FALSE]
  OBVIOUS
<1>2. q \in Drives /\ q.status = "drq" /\ q.cmd = drive.cmd
  BY DEF Drives
<1> HIDE DEF q
<1>3. d \in Drives /\ d.status = q.status /\ d.cmd = q.cmd /\ d.asleep = FALSE
  BY <1>1, <1>2 DEF Drives
<1> QED BY <1>2, <1>3

LEMMA CommandTyped ==
  ASSUME NEW k \in {"none", "power", "read", "write", "data"}, NEW b \in Disk!Lba,
         NEW c, c = Disk!Command(k, b)
  PROVE  c \in DriveCommands /\ c.kind = k /\ c.block = b
BY DEF Disk!Command, DriveCommands

LEMMA NoDriveCommand ==
  /\ Disk!NoCommand \in DriveCommands /\ Disk!NoCommand.kind = "none" /\ 0 \in Disk!Lba
<1>1. 0 \in Disk!Lba
  BY IdeHasSizes DEF Disk!Lba
<1> QED BY <1>1, CommandTyped DEF Disk!NoCommand

\* The drive with the data of block x.
DriveWritingOf(x) == [drive EXCEPT !.status = "busy", !.cmd.kind = "data", !.cmd.data = x]

LEMMA DriveSends ==
  ASSUME drive \in Drives, NEW x \in Disk!Lba, NEW d, d = DriveWritingOf(x)
  PROVE  /\ d \in Drives /\ d.status = "busy" /\ d.asleep = drive.asleep
         /\ d.cmd.kind = "data" /\ d.cmd.block = drive.cmd.block /\ d.cmd.data = x
<1> DEFINE s == "busy"
           k == "data"
           c0 == drive.cmd
           c1 == [c0 EXCEPT !.kind = k]
           c2 == [c1 EXCEPT !.data = x]
           q == [drive EXCEPT !.status = s]
<1>1. d = [q EXCEPT !.cmd = c2]
  BY DEF DriveWritingOf
<1>2. q \in Drives /\ q.status = s /\ q.asleep = drive.asleep
  BY DEF Drives
<1>3. c0 \in DriveCommands /\ k \in {"none", "power", "read", "write", "data"}
  BY DEF Drives
<1> HIDE DEF q, s, k, c0
<1>4. c1 \in DriveCommands /\ c1.kind = k /\ c1.block = c0.block
  BY <1>3 DEF DriveCommands
<1> HIDE DEF c1
<1>5. c2 \in DriveCommands /\ c2.kind = c1.kind /\ c2.block = c1.block /\ c2.data = x
  BY <1>4 DEF DriveCommands
<1> HIDE DEF c2
<1>6. d \in Drives /\ d.status = q.status /\ d.cmd = c2 /\ d.asleep = q.asleep
  BY <1>1, <1>2, <1>5 DEF Drives
<1> QED BY <1>2, <1>4, <1>5, <1>6 DEF s, k, c0

LEMMA CallGoes ==
  ASSUME io \in IdeCalls, NEW p \in IdePlaces, Disk!Goes(p)
  PROVE  /\ io' \in IdeCalls /\ io'.place = p /\ io'.kind = io.kind /\ io'.first = io.first
         /\ io'.cnt = io.cnt /\ io'.n = io.n /\ io'.pwrsave = io.pwrsave
         /\ io'.lba48 = io.lba48 /\ io'.mem = io.mem /\ io'.late = io.late
         /\ io'.unseen = io.unseen
BY DEF Disk!Goes, IdeCalls

\* What a step does not change of a call.
SameArguments ==
  /\ io'.kind = io.kind /\ io'.first = io.first /\ io'.cnt = io.cnt
  /\ io'.lba48 = io.lba48 /\ io'.late = io.late

LEMMA SameReached ==
  ASSUME io'.lba48 = io.lba48
  PROVE  \A b : Disk!Reached(io', b) = Disk!Reached(io, b)
BY DEF Disk!Reached

LEMMA ReachedIsBlock ==
  ASSUME IdeTyped, io.n < io.cnt
  PROVE  /\ Disk!Block \in Disk!Lba /\ io.first + io.n \in Disk!Lba
         /\ Disk!Block = Disk!Reached(io, io.first + io.n)
<1> DEFINE b == io.first + io.n
<1>1. b \in Nat /\ b < DiskBlocks /\ DiskBlocks \in Nat
  BY IdeHasSizes DEF IdeTyped, IdeCalls
<1> HIDE DEF b
<1>2. b % Reach \in 0..b
  <2>1. \A r \in Nat \ {0} : b % r \in 0..b
    BY <1>1, SMTT(20)
  <2> QED BY <2>1, IdeHasSizes
<1>3. Disk!Reached(io, b) \in Disk!Lba /\ b \in Disk!Lba
  BY <1>1, <1>2 DEF Disk!Reached, Disk!Lba
<1> QED BY <1>3 DEF b, Disk!Block

-----------------------------------------------------------------------------
(* A call begins and ends.                                                 *)

LEMMA NoIdeCall ==
  /\ Disk!NoCall \in IdeCalls /\ Disk!NoCall.kind = "none" /\ Disk!NoCall.place = "idle"
  /\ Disk!NoCall.n = 0 /\ Disk!NoCall.cnt = 0 /\ Disk!NoCall.first = 0
  /\ Disk!NoCall.mem = <<>> /\ ~Disk!NoCall.unseen /\ ~Disk!NoCall.pwrsave
<1>1. 0 \in 0..MaxCount /\ <<>> \in Seq(Int)
  BY IdeHasSizes
<1> QED BY <1>1 DEF Disk!NoCall, IdeCalls, IdePlaces

NewCall(k, b, z, l, a, p) ==
  [Disk!NoCall EXCEPT !.kind = k, !.first = b, !.cnt = z, !.lba48 = l, !.late = a, !.place = p]

LEMMA NewIdeCall ==
  ASSUME NEW k \in {"read", "write"}, NEW b \in Nat, NEW z \in 0..MaxCount, NEW l \in BOOLEAN,
         NEW a \in BOOLEAN, NEW p \in IdePlaces,
         NEW c, c = NewCall(k, b, z, l, a, p)
  PROVE  /\ c \in IdeCalls /\ c.kind = k /\ c.first = b /\ c.cnt = z /\ c.late = a
         /\ c.place = p /\ c.n = 0 /\ c.mem = <<>>
<1> DEFINE q1 == [Disk!NoCall EXCEPT !.kind = k]
           q2 == [q1 EXCEPT !.first = b]
           q3 == [q2 EXCEPT !.cnt = z]
           q4 == [q3 EXCEPT !.lba48 = l]
           q5 == [q4 EXCEPT !.late = a]
<1>0. c = [q5 EXCEPT !.place = p]
  BY DEF NewCall
<1>1. q1 \in IdeCalls /\ q1.kind = k /\ q1.n = 0 /\ q1.mem = <<>>
  BY NoIdeCall DEF IdeCalls
<1> HIDE DEF q1
<1>2. q2 \in IdeCalls /\ q2.kind = k /\ q2.n = 0 /\ q2.mem = <<>> /\ q2.first = b
  BY <1>1 DEF IdeCalls
<1> HIDE DEF q2
<1>3. q3 \in IdeCalls /\ q3.kind = k /\ q3.n = 0 /\ q3.mem = <<>> /\ q3.first = b /\ q3.cnt = z
  BY <1>2 DEF IdeCalls
<1> HIDE DEF q3
<1>4. q4 \in IdeCalls /\ q4.kind = k /\ q4.n = 0 /\ q4.mem = <<>> /\ q4.first = b /\ q4.cnt = z
  BY <1>3 DEF IdeCalls
<1> HIDE DEF q4
<1>5. /\ q5 \in IdeCalls /\ q5.kind = k /\ q5.n = 0 /\ q5.mem = <<>> /\ q5.first = b /\ q5.cnt = z
      /\ q5.late = a
  BY <1>4 DEF IdeCalls
<1> HIDE DEF q5
<1> QED BY <1>0, <1>5 DEF IdeCalls

LEMMA IdeCalled ==
  ASSUME IdeInv, NEW k \in {"read", "write"}, NEW b \in Disk!Lba, NEW z \in 0..MaxCount,
         b + z <= DiskBlocks, Disk!Call(k, b, z)
  PROVE  IdeInv'
<1> DEFINE l == LBA48 /\ b >= Reach
           a == Disk!Busy \/ drive.status = "drq"
           p == IF k = "read" THEN "select" ELSE "loop"
<1>1. /\ io' = NewCall(k, b, z, l, a, p)
      /\ written' = {} /\ LBA48' = LBA48 /\ drive' = drive /\ troubles' = troubles
  BY DEF Disk!Call, NewCall
<1>2. /\ l \in BOOLEAN /\ a \in BOOLEAN /\ p \in IdePlaces /\ b \in Nat
      /\ p \in {"select", "loop"} /\ (p = "select" <=> k = "read")
      /\ (a <=> drive.status \in {"busy", "drq"})
  BY DEF IdePlaces, Disk!Lba, Disk!Busy
<1> HIDE DEF l, a, p
<1>3. /\ io' \in IdeCalls /\ io'.kind = k /\ io'.first = b /\ io'.cnt = z /\ io'.late = a
      /\ io'.place = p /\ io'.n = 0 /\ io'.mem = <<>>
  BY <1>1, <1>2, NewIdeCall
<1>4. IdeTyped
  BY DEF IdeInv
<1>5. IdeTyped'
  BY <1>1, <1>2, <1>3, <1>4 DEF IdeTyped
<1>6. DriveFollows'
  BY <1>1, <1>2, <1>3, <1>4 DEF DriveFollows, IdePrompt, IdeTyped, Drives
<1>7. ReadInOrder'
  BY <1>3 DEF ReadInOrder
<1>8. ReadToTheEnd'
  BY <1>1, <1>2, <1>3, <1>4 DEF ReadToTheEnd, IdePrompt, IdeInv
<1>9. WrittenInOrder'
  BY <1>3 DEF WrittenInOrder
<1> QED BY <1>5, <1>6, <1>7, <1>8, <1>9 DEF IdeInv

LEMMA IdeReturned ==
  ASSUME IdeInv, Disk!Returned PROVE IdeInv'
<1>1. /\ io' = Disk!NoCall /\ UNCHANGED <<LBA48, written, drive, troubles>>
  BY DEF Disk!Returned
<1>2. IdeTyped'
  BY <1>1, NoIdeCall, IdeHasSizes DEF IdeInv, IdeTyped
<1>3. DriveFollows' /\ ReadInOrder' /\ ReadToTheEnd' /\ WrittenInOrder'
  BY <1>1, NoIdeCall
     DEF IdeInv, DriveFollows, ReadInOrder, ReadToTheEnd, WrittenInOrder, IdePrompt
<1> QED BY <1>2, <1>3 DEF IdeInv

\* The call goes to another place, or ends; the drive and what it has done stay.
LEMMA IdeMoves ==
  ASSUME IdeInv, NEW p \in {"returned"}, Disk!Goes(p), io.place # "idle",
         UNCHANGED <<LBA48, written, drive>>,
         troubles' \in {troubles, troubles + 1},
         IdePrompt /\ io.kind = "read" /\ troubles' = 0 => io.n = io.cnt
  PROVE  IdeInv'
<1>1. /\ io' \in IdeCalls /\ io'.place = p /\ io'.kind = io.kind /\ io'.first = io.first
      /\ io'.cnt = io.cnt /\ io'.n = io.n /\ io'.pwrsave = io.pwrsave
      /\ io'.lba48 = io.lba48 /\ io'.mem = io.mem /\ io'.late = io.late
      /\ io'.unseen = io.unseen
  BY CallGoes DEF IdeInv, IdeTyped, IdePlaces
<1>2. IdeTyped'
  BY <1>1 DEF IdeInv, IdeTyped
<1>3. IdePrompt' => IdePrompt
  BY <1>1 DEF IdePrompt
<1>4. DriveFollows'
  BY <1>1 DEF DriveFollows
<1>5. ReadInOrder'
  BY <1>1, <1>3, SameReached DEF IdeInv, ReadInOrder
<1>6. ReadToTheEnd'
  <2>1. troubles' = 0 => troubles = 0
    BY DEF IdeInv, IdeTyped
  <2> QED BY <1>1, <1>3, <2>1 DEF IdeInv, ReadToTheEnd
<1>7. WrittenInOrder'
  BY <1>1, <1>3, SameReached DEF IdeInv, WrittenInOrder, LastSent, Disk!Busy
<1> QED BY <1>2, <1>4, <1>5, <1>6, <1>7 DEF IdeInv

\* A call that gives up before its time has an excuse.
LEMMA IdeGivesUp ==
  ASSUME IdeInv, Disk!GivesUp PROVE IdeInv'
<1>1. /\ io.place \in {"select", "power", "loop", "answer"}
      /\ Disk!TimeOver(io.place = "answer" /\ io.pwrsave)
      /\ Disk!Goes("returned") /\ UNCHANGED <<LBA48, written, drive>>
  BY DEF Disk!GivesUp
<1>2. drive.status = "busy" /\ troubles \in Nat
  BY <1>1 DEF Disk!TimeOver, Disk!Busy, IdeInv, IdeTyped
<1>3. \/ /\ troubles' = troubles
         /\ drive.asleep /\ drive.cmd.kind \in {"read", "write"}
         /\ ~(io.place = "answer" /\ io.pwrsave)
      \/ troubles' = troubles + 1
  BY <1>1 DEF Disk!TimeOver, Disk!Trouble
<1>4. ASSUME IdePrompt, io.kind = "read", troubles' = 0 PROVE FALSE
  <2>1. /\ troubles = 0 /\ drive.asleep /\ drive.cmd.kind \in {"read", "write"}
        /\ ~(io.place = "answer" /\ io.pwrsave)
    BY <1>2, <1>3, <1>4
  <2>2. io.place = "answer"
    BY <1>1, <1>2, <1>4, <2>1 DEF IdeInv, DriveFollows
  <2> QED BY <1>4, <2>1, <2>2 DEF IdeInv, ReadToTheEnd
<1>5. troubles' \in {troubles, troubles + 1}
  BY <1>3
<1> QED BY <1>1, <1>4, <1>5, IdeMoves

LEMMA IdeAllDone ==
  ASSUME IdeInv, Disk!AllDone PROVE IdeInv'
<1>1. /\ io.place = "loop" /\ io.n = io.cnt /\ Disk!Goes("returned")
      /\ UNCHANGED <<LBA48, written, drive, troubles>>
  BY DEF Disk!AllDone
<1> QED BY <1>1, IdeMoves

-----------------------------------------------------------------------------
(* The call asks the drive for what it is to do.                           *)

LEMMA IdeAsksPower ==
  ASSUME IdeInv, Disk!AsksPower PROVE IdeInv'
<1>1. /\ io.place = "select" /\ Disk!Give("power", 0) /\ Disk!Goes("power")
      /\ drive.status # "busy"
      /\ UNCHANGED <<LBA48, written, troubles>>
  BY DEF Disk!AsksPower, Disk!Waited, Disk!Busy
<1>2. /\ IdeTyped /\ drive \in Drives /\ io.kind = "read" /\ io.n = 0
  BY <1>1 DEF IdeInv, IdeTyped
<1>3. /\ io' \in IdeCalls /\ io'.place = "power" /\ io'.kind = io.kind /\ io'.first = io.first
      /\ io'.cnt = io.cnt /\ io'.n = io.n /\ io'.pwrsave = io.pwrsave
      /\ io'.lba48 = io.lba48 /\ io'.mem = io.mem /\ io'.late = io.late
      /\ io'.unseen = io.unseen
  BY <1>1, <1>2, CallGoes DEF IdeTyped, IdePlaces
<1>4. /\ drive' \in Drives /\ drive'.asleep = drive.asleep
      /\ \/ drive'.status = "busy" /\ drive'.cmd.kind = "power"
         \/ drive.status = "drq" /\ drive' = drive
  <2>1. CASE drive' = [drive EXCEPT !.status = "busy", !.cmd = Disk!Command("power", 0)]
    <3> DEFINE c == Disk!Command("power", 0)
    <3>1. c \in DriveCommands /\ c.kind = "power"
      BY NoDriveCommand, CommandTyped
    <3>2. drive' = DriveWith("busy", c)
      BY <2>1 DEF DriveWith
    <3> HIDE DEF c
    <3>3. /\ drive' \in Drives /\ drive'.status = "busy" /\ drive'.cmd = c
          /\ drive'.asleep = drive.asleep
      BY <1>2, <3>1, <3>2, DriveGets
    <3> QED BY <3>1, <3>3
  <2>2. CASE drive.status = "drq" /\ drive' = drive
    BY <1>2, <2>2
  <2> QED BY <1>1, <2>1, <2>2 DEF Disk!Give
<1>5. IdePrompt' => IdePrompt /\ drive'.status = "busy" /\ drive'.cmd.kind = "power"
  BY <1>1, <1>3, <1>4 DEF IdePrompt, IdeInv, DriveFollows
<1>6. IdeTyped'
  BY <1>1, <1>2, <1>3, <1>4 DEF IdeTyped
<1>7. DriveFollows'
  BY <1>3, <1>5 DEF DriveFollows, Disk!Busy
<1>8. ReadInOrder'
  BY <1>2, <1>3, <1>5, SameReached DEF IdeInv, ReadInOrder
<1>9. ReadToTheEnd'
  BY <1>1, <1>3, <1>4, <1>5 DEF IdeInv, ReadToTheEnd
<1>10. WrittenInOrder'
  BY <1>2, <1>3 DEF WrittenInOrder
<1> QED BY <1>6, <1>7, <1>8, <1>9, <1>10 DEF IdeInv

LEMMA IdeHearsPower ==
  ASSUME IdeInv, Disk!HearsPower PROVE IdeInv'
<1> DEFINE s == drive.status # "err" /\ drive.asleep
           p == "loop"
           q == [io EXCEPT !.place = p]
<1>1. /\ io.place = "power" /\ io' = [q EXCEPT !.pwrsave = s]
      /\ drive.status # "busy"
      /\ UNCHANGED <<LBA48, written, drive, troubles>>
  BY DEF Disk!HearsPower, Disk!PowerSave, Disk!Waited, Disk!Busy
<1>2. /\ IdeTyped /\ io \in IdeCalls /\ io.kind = "read" /\ io.n = 0
  BY <1>1 DEF IdeInv, IdeTyped
<1>3. s \in BOOLEAN /\ (s <=> drive.status # "err" /\ drive.asleep) /\ p \in IdePlaces /\ p = "loop"
  BY DEF IdePlaces
<1> HIDE DEF s, p
<1>4. /\ q \in IdeCalls /\ q.place = p /\ q.kind = io.kind /\ q.first = io.first
      /\ q.cnt = io.cnt /\ q.n = io.n
      /\ q.lba48 = io.lba48 /\ q.mem = io.mem /\ q.late = io.late /\ q.unseen = io.unseen
  BY <1>2, <1>3 DEF IdeCalls
<1> HIDE DEF q
<1>5. /\ io' \in IdeCalls /\ io'.place = p /\ io'.kind = io.kind /\ io'.first = io.first
      /\ io'.cnt = io.cnt /\ io'.n = io.n /\ io'.pwrsave = s
      /\ io'.lba48 = io.lba48 /\ io'.mem = io.mem /\ io'.late = io.late /\ io'.unseen = io.unseen
  BY <1>1, <1>3, <1>4 DEF IdeCalls
<1>6. IdePrompt' => IdePrompt /\ drive.status \in {"ready", "err"}
  BY <1>1, <1>5 DEF IdePrompt, IdeInv, DriveFollows, Disk!Busy
<1>7. IdeTyped'
  BY <1>1, <1>2, <1>3, <1>5 DEF IdeTyped
<1>8. DriveFollows'
  BY <1>1, <1>3, <1>5, <1>6 DEF DriveFollows
<1>9. ReadInOrder'
  BY <1>2, <1>5, <1>6, SameReached DEF IdeInv, ReadInOrder
<1>10. ReadToTheEnd'
  BY <1>1, <1>3, <1>5, <1>6 DEF IdeInv, ReadToTheEnd
<1>11. WrittenInOrder'
  BY <1>2, <1>5 DEF WrittenInOrder
<1> QED BY <1>7, <1>8, <1>9, <1>10, <1>11 DEF IdeInv

LEMMA IdeNextBlock ==
  ASSUME IdeInv, Disk!NextBlock PROVE IdeInv'
<1>1. /\ io.place = "loop" /\ io.n < io.cnt /\ Disk!Give(io.kind, Disk!Block)
      /\ Disk!Goes("answer") /\ drive.status # "busy"
      /\ UNCHANGED <<LBA48, written, troubles>>
  BY DEF Disk!NextBlock, Disk!Waited, Disk!Busy
<1>2. /\ IdeTyped /\ drive \in Drives /\ io.kind \in {"read", "write"}
  BY <1>1 DEF IdeInv, IdeTyped
<1>3. /\ io' \in IdeCalls /\ io'.place = "answer" /\ io'.kind = io.kind /\ io'.first = io.first
      /\ io'.cnt = io.cnt /\ io'.n = io.n /\ io'.pwrsave = io.pwrsave
      /\ io'.lba48 = io.lba48 /\ io'.mem = io.mem /\ io'.late = io.late
      /\ io'.unseen = io.unseen
  BY <1>1, <1>2, CallGoes DEF IdeTyped, IdePlaces
<1> DEFINE b == Disk!Block
           c == Disk!Command(io.kind, b)
<1>4. /\ b \in Disk!Lba /\ b = Disk!Reached(io, io.first + io.n)
  BY <1>1, <1>2, ReachedIsBlock
<1>5. \/ drive' = DriveWith("busy", c)
      \/ drive.status = "drq" /\ drive' = drive
  BY <1>1 DEF Disk!Give, DriveWith
<1> HIDE DEF b
<1>6. c \in DriveCommands /\ c.kind = io.kind /\ c.block = b
  BY <1>2, <1>4, CommandTyped
<1> HIDE DEF c
<1>7. /\ drive' \in Drives /\ drive'.asleep = drive.asleep
      /\ \/ drive'.status = "busy" /\ drive'.cmd = c
         \/ drive.status = "drq" /\ drive' = drive
  BY <1>2, <1>5, <1>6, DriveGets
<1>8. IdePrompt' => /\ IdePrompt /\ drive'.status = "busy" /\ drive'.cmd.kind = io.kind
                    /\ drive'.cmd.block = b
  BY <1>1, <1>3, <1>6, <1>7 DEF IdePrompt, IdeInv, DriveFollows, LastSent, Disk!Busy
<1>9. Disk!Block' = b
  BY <1>3, <1>4 DEF Disk!Block, Disk!Reached
<1>10. IdeTyped'
  BY <1>1, <1>2, <1>3, <1>7 DEF IdeTyped
<1>11. DriveFollows'
  BY <1>3, <1>8, <1>9 DEF DriveFollows
<1>12. ReadInOrder'
  BY <1>3, <1>8, SameReached DEF IdeInv, ReadInOrder
<1>13. ReadToTheEnd'
  BY <1>1, <1>3, <1>7, <1>8 DEF IdeInv, ReadToTheEnd
<1>14. WrittenInOrder'
  BY <1>1, <1>3, <1>8, SameReached DEF IdeInv, WrittenInOrder, LastSent, Disk!Busy
<1> QED BY <1>10, <1>11, <1>12, <1>13, <1>14 DEF IdeInv

-----------------------------------------------------------------------------
(* The data of a block is fetched or sent.                                 *)

OneMore(m) == [io EXCEPT !.place = "loop", !.n = @ + 1, !.pwrsave = FALSE, !.mem = m]

LEMMA OneMoreIs ==
  ASSUME io \in IdeCalls, NEW m \in Seq(Int), NEW c, c = OneMore(m)
  PROVE  /\ c \in IdeCalls /\ c.place = "loop" /\ c.n = io.n + 1 /\ c.mem = m
         /\ c.kind = io.kind /\ c.first = io.first /\ c.cnt = io.cnt /\ c.lba48 = io.lba48
         /\ c.late = io.late /\ c.unseen = io.unseen
<1> DEFINE p == "loop"
           k == io.n + 1
           f == FALSE
           q1 == [io EXCEPT !.place = p]
           q2 == [q1 EXCEPT !.n = k]
           q3 == [q2 EXCEPT !.pwrsave = f]
<1>1. c = [q3 EXCEPT !.mem = m] /\ p \in IdePlaces /\ k \in Nat /\ f \in BOOLEAN
  BY DEF OneMore, IdePlaces, IdeCalls
<1> HIDE DEF p, k, f
<1>2. /\ q1 \in IdeCalls /\ q1.place = p
      /\ q1.kind = io.kind /\ q1.first = io.first /\ q1.cnt = io.cnt /\ q1.lba48 = io.lba48
      /\ q1.late = io.late /\ q1.unseen = io.unseen
  BY <1>1 DEF IdeCalls
<1> HIDE DEF q1
<1>3. /\ q2 \in IdeCalls /\ q2.place = p /\ q2.n = k
      /\ q2.kind = io.kind /\ q2.first = io.first /\ q2.cnt = io.cnt /\ q2.lba48 = io.lba48
      /\ q2.late = io.late /\ q2.unseen = io.unseen
  BY <1>1, <1>2 DEF IdeCalls
<1> HIDE DEF q2
<1>4. /\ q3 \in IdeCalls /\ q3.place = p /\ q3.n = k
      /\ q3.kind = io.kind /\ q3.first = io.first /\ q3.cnt = io.cnt /\ q3.lba48 = io.lba48
      /\ q3.late = io.late /\ q3.unseen = io.unseen
  BY <1>1, <1>3 DEF IdeCalls
<1> HIDE DEF q3
<1>5. /\ c \in IdeCalls /\ c.place = p /\ c.n = k /\ c.mem = m
      /\ c.kind = io.kind /\ c.first = io.first /\ c.cnt = io.cnt /\ c.lba48 = io.lba48
      /\ c.late = io.late /\ c.unseen = io.unseen
  BY <1>1, <1>4 DEF IdeCalls
<1> QED BY <1>5 DEF p, k

LEMMA IdeAnswered ==
  ASSUME IdeInv, Disk!Answered PROVE IdeInv'
<1>1. /\ io.place = "answer" /\ drive.status # "busy"
      /\ UNCHANGED <<LBA48, written, troubles>>
  BY DEF Disk!Answered, Disk!Waited, Disk!Busy
<1>2. /\ IdeTyped /\ drive \in Drives /\ io \in IdeCalls /\ io.kind \in {"read", "write"}
      /\ io.n < io.cnt /\ io.n \in Nat /\ io.cnt \in Nat /\ io.first \in Nat
      /\ io.mem \in Seq(Int) /\ drive.cmd \in DriveCommands
  BY <1>1, IdeHasSizes DEF IdeInv, IdeTyped, IdeCalls, Drives
<1>3. CASE drive.status # "drq"
  <2>1. Disk!Goes("returned") /\ drive' = drive
    BY <1>3 DEF Disk!Answered
  <2>2. ~(IdePrompt /\ io.kind = "read" /\ troubles' = 0)
    BY <1>1, <1>3 DEF IdeInv, DriveFollows, ReadToTheEnd
  <2> QED BY <1>1, <2>1, <2>2, IdeMoves
<1>4. CASE drive.status = "drq"
  <2> DEFINE m == IF io.kind = "read" THEN Append(io.mem, Disk!Fetched) ELSE io.mem
             x == io.first + io.n
             sends == io.kind = "write" /\ drive.cmd.kind = "write"
  <2>1. /\ io' = OneMore(m)
        /\ sends => drive' = DriveWritingOf(x)
        /\ ~sends => drive' = DriveWith("ready", Disk!NoCommand)
    BY <1>4 DEF Disk!Answered, OneMore, DriveWith, DriveWritingOf
  <2>2. /\ x \in Disk!Lba /\ Disk!Block = Disk!Reached(io, io.first + io.n)
        /\ x = io.first + io.n
    BY <1>2, ReachedIsBlock
  <2> HIDE DEF x
  <2>3. Disk!Fetched \in Int
    BY <1>2 DEF Disk!Fetched, DriveCommands, Disk!Lba
  <2>4. m \in Seq(Int)
    BY <1>2, <2>3
  <2> HIDE DEF m
  <2>5. /\ io' \in IdeCalls /\ io'.place = "loop" /\ io'.n = io.n + 1 /\ io'.mem = m
        /\ io'.kind = io.kind /\ io'.first = io.first /\ io'.cnt = io.cnt /\ io'.lba48 = io.lba48
        /\ io'.late = io.late /\ io'.unseen = io.unseen
    BY <1>2, <2>1, <2>4, OneMoreIs
  <2> HIDE DEF sends
  <2>6. /\ drive' \in Drives /\ drive'.asleep = drive.asleep
        /\ sends => /\ drive'.status = "busy" /\ drive'.cmd.kind = "data"
                   /\ drive'.cmd.block = drive.cmd.block /\ drive'.cmd.data = x
        /\ ~sends => drive'.status = "ready"
    <3>1. CASE sends
      BY <1>2, <2>1, <2>2, <3>1, DriveSends
    <3>2. CASE ~sends
      BY <1>2, <2>1, <3>2, DriveGets, NoDriveCommand
    <3> QED BY <3>1, <3>2
  <2>7. IdePrompt' => IdePrompt /\ drive.cmd.kind = io.kind /\ drive.cmd.block = Disk!Block
    BY <1>1, <1>4, <2>5 DEF IdePrompt, IdeInv, DriveFollows
  <2>8. IdePrompt' => (sends <=> io.kind = "write")
    BY <2>7 DEF sends
  <2>9. io'.n - 1 = io.n /\ io'.n \in Nat
    BY <1>2, <2>5
  <2>10. ASSUME IdePrompt', io.kind = "write", NEW i, i = io.n
         PROVE  LastSent(i)'
    BY <2>2, <2>5, <2>6, <2>7, <2>8, <2>9, <2>10, SameReached DEF LastSent, Disk!Busy
  <2>11. IdeTyped'
    <3>1. io'.n <= io'.cnt
      BY <1>2, <2>5
    <3> QED BY <1>1, <1>2, <2>5, <2>6, <3>1 DEF IdeTyped
  <2>12. DriveFollows'
    <3>1. IdePrompt' /\ io.kind = "write" => LastSent(io.n - 1)'
      BY <2>9, <2>10 DEF LastSent
    <3> QED BY <1>2, <2>5, <2>6, <2>8, <3>1 DEF DriveFollows
  <2>13. ReadInOrder'
    <3> SUFFICES ASSUME io.kind = "read"
                 PROVE  /\ Len(m) = io.n + 1
                        /\ IdePrompt' => \A i \in 0..io.n : m[i + 1] = Disk!Reached(io, io.first + i)
      BY <2>5, <2>9, SameReached DEF ReadInOrder
    <3>1. m = Append(io.mem, Disk!Fetched) /\ Len(io.mem) = io.n
      BY DEF m, IdeInv, ReadInOrder
    <3>2. Len(m) = io.n + 1
      BY <1>2, <2>3, <3>1
    <3>3. ASSUME IdePrompt', NEW i \in 0..io.n
          PROVE  m[i + 1] = Disk!Reached(io, io.first + i)
      <4>1. CASE i = io.n
        <5>1. Disk!Fetched = Disk!Block
          BY <2>7, <3>3 DEF Disk!Fetched
        <5>2. m[i + 1] = Disk!Fetched
          BY <1>2, <2>3, <3>1, <4>1
        <5> QED BY <2>2, <4>1, <5>1, <5>2
      <4>2. CASE i # io.n
        <5>1. i \in 0..(io.n - 1) /\ i + 1 \in 1..Len(io.mem)
          BY <1>2, <3>1, <4>2
        <5>2. io.mem[i + 1] = Disk!Reached(io, io.first + i)
          BY <2>7, <3>3, <5>1 DEF IdeInv, ReadInOrder
        <5>3. m[i + 1] = io.mem[i + 1]
          BY <1>2, <2>3, <3>1, <5>1
        <5> QED BY <5>2, <5>3
      <4> QED BY <4>1, <4>2
    <3> QED BY <3>2, <3>3
  <2>14. ReadToTheEnd'
    <3>1. IdePrompt' /\ io.kind = "read" /\ troubles = 0 => ~drive.asleep
      BY <1>1, <1>4, <2>7 DEF IdeInv, ReadToTheEnd
    <3>2. drive'.status # "err"
      BY <2>6
    <3> QED BY <1>1, <2>5, <2>6, <3>1, <3>2 DEF ReadToTheEnd
  <2>15. WrittenInOrder'
    <3> SUFFICES ASSUME IdePrompt', io.kind = "write", ~io.unseen, NEW i \in 0..io.n
                 PROVE  <<Disk!Reached(io, io.first + i), io.first + i>> \in written \/ LastSent(i)'
      BY <1>1, <2>5, <2>9, SameReached DEF WrittenInOrder
    <3>1. CASE i = io.n
      BY <2>10, <3>1
    <3>2. CASE i # io.n
      <4>1. i \in 0..(io.n - 1)
        BY <1>2, <3>2
      <4> QED BY <1>1, <2>7, <4>1 DEF IdeInv, WrittenInOrder, LastSent, Disk!Busy
    <3> QED BY <3>1, <3>2
  <2> QED BY <2>11, <2>12, <2>13, <2>14, <2>15 DEF IdeInv
<1> QED BY <1>3, <1>4

-----------------------------------------------------------------------------
(* The drive goes on by itself.                                            *)

LEMMA IdeFinish ==
  ASSUME IdeInv, Disk!Finish PROVE IdeInv'
<1>1. /\ drive.status = "busy" /\ UNCHANGED <<LBA48, io, troubles>>
      /\ written' = IF drive.cmd.kind = "data"
                      THEN written \cup {<<drive.cmd.block, drive.cmd.data>>} ELSE written
  BY DEF Disk!Finish, Disk!Busy
<1>2. IdeTyped /\ drive \in Drives
  BY DEF IdeInv, IdeTyped
<1>3. /\ drive' \in Drives /\ drive'.status # "err"
      /\ drive'.asleep => drive.asleep /\ drive'.status # "drq"
      /\ IF drive.cmd.kind \in {"read", "write"}
           THEN drive'.status = "drq" /\ drive'.cmd = drive.cmd
           ELSE drive'.status = "ready"
  <2>1. CASE drive.cmd.kind \in {"read", "write"}
    <3>1. drive' = [drive EXCEPT !.status = "drq", !.asleep = FALSE]
      BY <2>1 DEF Disk!Finish
    <3>2. /\ drive' \in Drives /\ drive'.status = "drq" /\ drive'.cmd = drive.cmd /\ ~drive'.asleep
      BY <1>2, <3>1, DriveWakes
    <3> QED BY <2>1, <3>2
  <2>2. CASE drive.cmd.kind \notin {"read", "write"}
    <3>1. drive' = DriveWith("ready", Disk!NoCommand)
      BY <2>2 DEF Disk!Finish, DriveWith
    <3>2. drive' \in Drives /\ drive'.status = "ready" /\ drive'.asleep = drive.asleep
      BY <1>2, <3>1, DriveGets, NoDriveCommand
    <3> QED BY <2>2, <3>2
  <2> QED BY <2>1, <2>2
<1>4. IdeTyped'
  BY <1>1, <1>2, <1>3 DEF IdeTyped
<1>5. DriveFollows'
  BY <1>1, <1>2, <1>3
     DEF IdeInv, DriveFollows, IdePrompt, LastSent, Disk!Busy, Disk!Block, IdeTyped
<1>6. ReadInOrder'
  BY <1>1 DEF IdeInv, ReadInOrder, IdePrompt, Disk!Reached
<1>7. ReadToTheEnd'
  BY <1>1, <1>3 DEF IdeInv, ReadToTheEnd, IdePrompt
<1>8. WrittenInOrder'
  <2> SUFFICES ASSUME IdePrompt, io.kind = "write", ~io.unseen, NEW i \in 0..(io.n - 1)
               PROVE  <<Disk!Reached(io, io.first + i), io.first + i>> \in written'
    BY <1>1, SameReached DEF WrittenInOrder, IdePrompt
  <2>1. <<Disk!Reached(io, io.first + i), io.first + i>> \in written \/ LastSent(i)
    BY DEF IdeInv, WrittenInOrder
  <2> QED BY <1>1, <2>1 DEF LastSent
<1> QED BY <1>4, <1>5, <1>6, <1>7, <1>8 DEF IdeInv

LEMMA IdeFail ==
  ASSUME IdeInv, Disk!Fail PROVE IdeInv'
<1> DEFINE u == io.unseen \/ drive.cmd.kind = "data"
<1>1. /\ drive.status = "busy" /\ troubles' = troubles + 1
      /\ drive' = DriveWith("err", Disk!NoCommand) /\ io' = [io EXCEPT !.unseen = u]
      /\ UNCHANGED <<LBA48, written>>
  BY DEF Disk!Fail, Disk!Busy, Disk!Trouble, DriveWith
<1>2. IdeTyped /\ drive \in Drives /\ io \in IdeCalls /\ troubles \in Nat
  BY DEF IdeInv, IdeTyped
<1>3. drive' \in Drives /\ drive'.status = "err"
  BY <1>1, <1>2, DriveGets, NoDriveCommand
<1>4. u \in BOOLEAN /\ (~u => ~io.unseen /\ drive.cmd.kind # "data")
  BY <1>2 DEF IdeCalls
<1> HIDE DEF u
<1>5. /\ io' \in IdeCalls /\ io'.place = io.place /\ io'.kind = io.kind /\ io'.first = io.first
      /\ io'.cnt = io.cnt /\ io'.n = io.n /\ io'.pwrsave = io.pwrsave
      /\ io'.lba48 = io.lba48 /\ io'.mem = io.mem /\ io'.late = io.late
      /\ io'.unseen = u
  BY <1>1, <1>2, <1>4 DEF IdeCalls
<1>6. IdePrompt' <=> IdePrompt
  BY <1>5 DEF IdePrompt
<1>7. IdeTyped'
  BY <1>1, <1>2, <1>3, <1>5 DEF IdeTyped
<1>8. DriveFollows'
  BY <1>3 DEF DriveFollows
<1>9. ReadInOrder'
  BY <1>5, <1>6, SameReached DEF IdeInv, ReadInOrder
<1>10. ReadToTheEnd'
  BY <1>1, <1>2 DEF ReadToTheEnd
<1>11. WrittenInOrder'
  BY <1>1, <1>4, <1>5, <1>6, SameReached DEF IdeInv, WrittenInOrder, LastSent
<1> QED BY <1>7, <1>8, <1>9, <1>10, <1>11 DEF IdeInv

LEMMA IdeFallsAsleep ==
  ASSUME IdeInv, Disk!FallsAsleep PROVE IdeInv'
<1>1. /\ io.place = "idle" /\ drive.status # "busy" /\ drive' = [drive EXCEPT !.asleep = TRUE]
      /\ UNCHANGED <<LBA48, written, io, troubles>>
  BY DEF Disk!FallsAsleep
<1>2. IdeTyped /\ drive \in Drives
  BY DEF IdeInv, IdeTyped
<1>3. drive' \in Drives /\ drive'.status = drive.status
  BY <1>1, <1>2 DEF Drives
<1>4. ~IdePrompt'
  BY <1>1 DEF IdePrompt
<1>5. IdeTyped'
  BY <1>1, <1>2, <1>3 DEF IdeTyped
<1>6. DriveFollows' /\ WrittenInOrder'
  BY <1>4 DEF DriveFollows, WrittenInOrder
<1>7. ReadInOrder'
  BY <1>1, <1>4 DEF IdeInv, ReadInOrder
<1>8. ReadToTheEnd'
  BY <1>1, <1>3, <1>4 DEF IdeInv, ReadToTheEnd
<1> QED BY <1>5, <1>6, <1>7, <1>8 DEF IdeInv

LEMMA IdeStarts == ASSUME Disk!Init PROVE IdeInv
<1>1. /\ LBA48 \in Lba48Builds /\ io = Disk!NoCall /\ troubles = 0
      /\ drive = [status |-> "ready", cmd |-> Disk!NoCommand, asleep |-> FALSE]
  BY DEF Disk!Init
<1>2. drive \in Drives /\ drive.status = "ready"
  BY <1>1, NoDriveCommand DEF Drives
<1>3. IdeTyped
  BY <1>1, <1>2, NoIdeCall, IdeHasSizes DEF IdeTyped
<1>4. DriveFollows /\ ReadInOrder /\ ReadToTheEnd /\ WrittenInOrder
  BY <1>1, <1>2, NoIdeCall
     DEF DriveFollows, ReadInOrder, ReadToTheEnd, WrittenInOrder, IdePrompt
<1> QED BY <1>3, <1>4 DEF IdeInv

LEMMA IdeNexts == ASSUME IdeInv, Disk!Next PROVE IdeInv'
<1>1. CASE \E k \in {"read", "write"}, b \in Disk!Lba, c \in 0..MaxCount :
             b + c <= DiskBlocks /\ Disk!Call(k, b, c)
  BY <1>1, IdeCalled
<1> QED BY <1>1, IdeGivesUp, IdeAsksPower, IdeHearsPower, IdeNextBlock, IdeAnswered, IdeAllDone,
           IdeReturned, IdeFinish, IdeFail, IdeFallsAsleep DEF Disk!Next

LEMMA IdeStays == ASSUME IdeInv, UNCHANGED <<LBA48, drive, io, written, troubles>> PROVE IdeInv'
BY DEF IdeInv, IdeTyped, DriveFollows, ReadInOrder, ReadToTheEnd, WrittenInOrder, IdePrompt,
       LastSent, Disk!Busy, Disk!Block, Disk!Reached

LEMMA IdeCounts == ASSUME IdeInv PROVE Disk!CountedIsDone
<1> SUFFICES ASSUME io.place = "returned", ~io.late
             PROVE  /\ io.kind = "read" =>
                         /\ \A i \in 0..(io.n - 1) : Disk!Meant(i) => io.mem[i + 1] = io.first + i
                         /\ troubles = 0 => io.n = io.cnt
                    /\ io.kind = "write" /\ ~io.unseen =>
                         \A i \in 0..(io.n - 1) : \/ ~Disk!Meant(i)
                                                  \/ <<io.first + i, io.first + i>> \in written
                                                  \/ i = io.n - 1 /\ Disk!Busy
  BY DEF Disk!CountedIsDone
<1>1. IdePrompt
  BY DEF IdePrompt
<1>2. io.kind = "read" => /\ \A i \in 0..(io.n - 1) : Disk!Meant(i) => io.mem[i + 1] = io.first + i
                          /\ troubles = 0 => io.n = io.cnt
  BY <1>1 DEF IdeInv, ReadInOrder, ReadToTheEnd, Disk!Meant
<1>3. ASSUME io.kind = "write", ~io.unseen, NEW i \in 0..(io.n - 1), Disk!Meant(i)
      PROVE  <<io.first + i, io.first + i>> \in written \/ (i = io.n - 1 /\ Disk!Busy)
  BY <1>1, <1>3 DEF IdeInv, WrittenInOrder, Disk!Meant, LastSent
<1> QED BY <1>2, <1>3

LEMMA IdeRuns == [Next]_diskBoxVars => Disk!Next \/ UNCHANGED diskVars
BY DEF Next, Runs, diskBoxVars, ataVars

\* ide_read and ide_write: the blocks a call counts are done, and a drive without trouble is read to
\* the end though it sleeps, for any disk, any reach of 28 bits and any number of failures; the
\* exceptions are those CountedIsDone names.
THEOREM CountsWhatIsDone == Spec => []CountedIsDone
<1>1. Init => IdeInv
  BY IdeStarts DEF Init
<1>2. IdeInv /\ [Next]_diskBoxVars => IdeInv'
  <2>1. UNCHANGED diskVars => UNCHANGED <<LBA48, drive, io, written, troubles>>
    BY DEF diskVars
  <2> QED BY <2>1, IdeRuns, IdeNexts, IdeStays
<1>3. IdeInv => CountedIsDone
  BY IdeCounts DEF CountedIsDone
<1> QED BY <1>1, <1>2, <1>3, PTL DEF Spec, diskBoxVars

-----------------------------------------------------------------------------
(* The adapter of the dbox2: the inductive invariant, of accesses none of  *)
(* which has timed out.                                                    *)

Doors     == Registers \cup {"data"}
Tokens    == {"byte", "value", "word"} \X (Doors \cup Nat)
CtrlWords == [on : BOOLEAN, repeat : BOOLEAN, writing : BOOLEAN, port : Doors]
CpldCalls == [op : {"none", "preinit", "outb", "inb", "input", "output"}, port : Doors,
              place : {"wait", "fill", "second", "last", "end", "done"}, count : Int]
SectorWords == 2 * SectorLongs

\* The control word, the FIFO and the call have their types.
CpldTyped ==
  /\ ctrl \in CtrlWords /\ fifo \in Seq(Tokens) /\ words \in Seq(Tokens)
  /\ ata \in [given : Nat, written : Doors \cup {"none"}]
  /\ call \in CpldCalls

\* Between two calls the FIFO is empty, nothing more is read into it, and the last access was the
\* one asked for.
AccessIsDone ==
  call.place = "done" =>
    /\ fifo = <<>> /\ (ctrl.on => ctrl.writing)
    /\ call.op = "inb" => words = << <<"value", call.port>> >>
    /\ call.op = "outb" => ata.written = call.port
    /\ call.op = "input" => Len(words) = SectorWords

\* The access to a register that is waited for is under way or in the FIFO.
AccessIsUnderWay ==
  call.place = "wait" =>
    /\ call.op \in {"outb", "inb"} /\ call.port \in Registers
    /\ ctrl.port = call.port /\ ~ctrl.repeat
    /\ call.op = "outb" => /\ ctrl.on /\ ctrl.writing /\ Len(fifo) <= 1
                           /\ fifo = <<>> => ata.written = call.port
    /\ call.op = "inb" => /\ ~ctrl.writing
                          /\ fifo = IF ctrl.on THEN <<>> ELSE << <<"value", call.port>> >>

Fours(n) == \E k \in Nat : n = 4 * k

\* While a sector is read the words taken, those in the FIFO and the count left add up to it.
SectorIsUnderWay ==
  /\ call.place \in {"fill", "second", "last", "end"} => call.op = "input" /\ Len(fifo) <= 4
  /\ call.place \in {"fill", "second"} =>
       ctrl.on /\ ctrl.repeat /\ ~ctrl.writing /\ ctrl.port = "data" /\ Fours(call.count)
  /\ call.place \in {"last", "end"} => ~ctrl.on
  /\ call.place = "fill" => call.count > 0 /\ Len(words) + call.count = SectorWords
  /\ call.place = "second" =>
       call.count > 4 /\ Len(words) + call.count = SectorWords + 2 /\ Len(fifo) >= 2
  /\ call.place = "last" => Len(words) + 4 = SectorWords /\ Len(fifo) = 4
  /\ call.place = "end"  => Len(words) + 2 = SectorWords /\ Len(fifo) = 2

\* The words of the sector follow each other, from memory into the FIFO.
WordsInOrder ==
  call.op = "input" =>
    /\ ata.given = Len(words) + Len(fifo)
    /\ \A i \in 1..Len(words) : words[i] = <<"word", i>>
    /\ \A i \in 1..Len(fifo) : fifo[i] = <<"word", Len(words) + i>>

CpldGood == CpldTyped /\ AccessIsDone /\ AccessIsUnderWay /\ SectorIsUnderWay /\ WordsInOrder
CpldInv  == slow \in Nat /\ (slow = 0 => CpldGood)

LEMMA CpldHasSizes ==
  /\ SectorLongs \in Nat /\ SectorLongs > 2 /\ SectorLongs % 2 = 0 /\ MaxSlow \in Nat
  /\ "data" \notin Registers
  /\ SectorWords \in Nat /\ SectorWords > 4
BY PartsAssumption DEF Cpld!CpldSizes, SectorWords

LEMMA SectorIsFours == Fours(SectorWords)
<1>1. SectorLongs \in Nat /\ SectorLongs % 2 = 0
  BY CpldHasSizes
<1>2. SectorLongs \div 2 \in Nat /\ SectorLongs = 2 * (SectorLongs \div 2)
  BY <1>1, SMTT(20)
<1>3. SectorWords = 4 * (SectorLongs \div 2)
  BY <1>2 DEF SectorWords
<1> QED BY <1>2, <1>3 DEF Fours

LEMMA TokensAre ==
  /\ \A port \in Doors : Cpld!Byte(port) \in Tokens /\ Cpld!Value(port) \in Tokens
  /\ \A n \in Nat : Cpld!Word(n) \in Tokens
BY DEF Tokens, Doors, Cpld!Byte, Cpld!Value, Cpld!Word

LEMMA DoorsAre == "data" \in Doors /\ Registers \subseteq Doors
BY DEF Doors

LEMMA CtrlIs ==
  ASSUME NEW port \in Doors, NEW repeat \in BOOLEAN, NEW writing \in BOOLEAN, NEW c,
         c = Cpld!Access(port, repeat, writing)
  PROVE  /\ c \in CtrlWords /\ c.on = TRUE /\ c.repeat = repeat
         /\ c.writing = writing /\ c.port = port
BY DEF Cpld!Access, CtrlWords

LEMMA CtrlIsIdle ==
  /\ Cpld!Idle \in CtrlWords /\ Cpld!Idle.on = FALSE
BY DoorsAre DEF Cpld!Idle, CtrlWords, Cpld!Data

LEMMA CallIs ==
  ASSUME NEW op \in {"none", "preinit", "outb", "inb", "input", "output"}, NEW port \in Doors,
         NEW place \in {"wait", "fill", "second", "last", "end", "done"}, NEW count \in Int,
         NEW c, c = Cpld!Call(op, port, place, count)
  PROVE  /\ c \in CpldCalls /\ c.op = op /\ c.port = port /\ c.place = place /\ c.count = count
BY DEF Cpld!Call, CpldCalls

LEMMA CallGoesTo ==
  ASSUME NEW c \in CpldCalls,
         NEW place \in {"wait", "fill", "second", "last", "end", "done"},
         NEW d, d = [c EXCEPT !.place = place]
  PROVE  /\ d \in CpldCalls /\ d.op = c.op /\ d.port = c.port
         /\ d.place = place /\ d.count = c.count
BY DEF CpldCalls

\* A read with two words or more in the FIFO takes the first two.
LEMMA TwoAreTaken ==
  ASSUME fifo \in Seq(Tokens), Len(fifo) >= 2
  PROVE  /\ Cpld!Taken \in Seq(Tokens) /\ Len(Cpld!Taken) = 2
         /\ \A i \in 1..2 : Cpld!Taken[i] = fifo[i]
         /\ Cpld!Left \in Seq(Tokens) /\ Len(Cpld!Left) = Len(fifo) - 2
         /\ \A i \in 1..(Len(fifo) - 2) : Cpld!Left[i] = fifo[i + 2]
<1> DEFINE n == Len(fifo)
<1>1. n \in Nat /\ n >= 2 /\ \A i \in 1..n : fifo[i] \in Tokens
  BY LenProperties
<1>2. Cpld!Taken = SubSeq(fifo, 1, 2)
  BY <1>1 DEF Cpld!Taken
<1>3. \A i \in 1..2 : fifo[i] \in Tokens
  BY <1>1
<1>4. /\ Cpld!Taken \in Seq(Tokens) /\ Len(Cpld!Taken) = 2
      /\ \A i \in 1..2 : Cpld!Taken[i] = fifo[i]
  BY <1>2, <1>3, SubSeqProperties
<1>5. Cpld!Left = SubSeq(fifo, 3, n)
  BY <1>4 DEF Cpld!Left
<1>6. \A i \in 3..n : fifo[i] \in Tokens
  BY <1>1
<1> HIDE DEF n
<1>7. /\ Cpld!Left \in Seq(Tokens) /\ Len(Cpld!Left) = n - 2
      /\ \A i \in 1..(n - 2) : Cpld!Left[i] = fifo[i + 2]
  <2>1. /\ SubSeq(fifo, 3, n) \in Seq(Tokens)
        /\ Len(SubSeq(fifo, 3, n)) = IF 3 <= n THEN n - 3 + 1 ELSE 0
        /\ \A i \in 1..n - 3 + 1 : SubSeq(fifo, 3, n)[i] = fifo[3 + i - 1]
    BY <1>1, <1>6, SubSeqProperties
  <2> QED BY <1>1, <1>5, <2>1
<1> QED BY <1>4, <1>7 DEF n

LEMMA OneIsTaken ==
  ASSUME NEW t \in Tokens, fifo = <<t>>
  PROVE  Head(fifo) = t /\ Cpld!Left = <<>>
<1>1. Len(fifo) = 1 /\ Head(fifo) = t /\ fifo \in Seq(Tokens) /\ fifo[1] = t
  OBVIOUS
<1>2. Cpld!Taken = SubSeq(fifo, 1, 1)
  BY <1>1 DEF Cpld!Taken
<1>3. Len(Cpld!Taken) = 1
  <2>1. \A i \in 1..1 : fifo[i] \in Tokens
    BY <1>1
  <2> QED BY <1>2, <2>1, SubSeqProperties
<1>4. Cpld!Left = SubSeq(fifo, 2, 1)
  BY <1>1, <1>3 DEF Cpld!Left
<1>5. Cpld!Left \in Seq(Tokens) /\ Len(Cpld!Left) = 0
  <2>1. \A i \in 2..1 : fifo[i] \in Tokens
    OBVIOUS
  <2> QED BY <1>4, <2>1, SubSeqProperties
<1> QED BY <1>1, <1>5, EmptySeq

\* The two words taken from the FIFO are the next two of the sector.
LEMMA Joined ==
  ASSUME NEW s \in Seq(Tokens), NEW t \in Seq(Tokens), Len(t) = 2
  PROVE  /\ s \o t \in Seq(Tokens) /\ Len(s \o t) = Len(s) + 2
         /\ \A i \in 1..(Len(s) + 2) : (s \o t)[i] = IF i <= Len(s) THEN s[i] ELSE t[i - Len(s)]
<1>1. /\ s \o t \in Seq(Tokens)
      /\ Len(s \o t) = Len(s) + Len(t)
      /\ \A i \in 1..Len(s) + Len(t) :
           (s \o t)[i] = IF i <= Len(s) THEN s[i] ELSE t[i - Len(s)]
  BY ConcatProperties, Zenon
<1> QED BY <1>1, Zenon

LEMMA WordsAreTaken ==
  ASSUME CpldTyped, WordsInOrder, call.op = "input", Len(fifo) >= 2,
         words' = words \o Cpld!Taken, fifo' = Cpld!Left, ata' = ata
  PROVE  /\ words' \in Seq(Tokens) /\ fifo' \in Seq(Tokens)
         /\ Len(words') = Len(words) + 2 /\ Len(fifo') = Len(fifo) - 2
         /\ WordsInOrder'
<1> DEFINE n == Len(words)
           m == Len(fifo)
           taken == Cpld!Taken
<1>1. /\ words \in Seq(Tokens) /\ fifo \in Seq(Tokens) /\ n \in Nat /\ m \in Nat /\ m >= 2
  BY LenProperties DEF CpldTyped
<1>2. /\ ata.given = n + m
      /\ \A i \in 1..n : words[i] = <<"word", i>>
      /\ \A i \in 1..m : fifo[i] = <<"word", n + i>>
  BY DEF WordsInOrder
<1>3. /\ taken \in Seq(Tokens) /\ Len(taken) = 2 /\ \A i \in 1..2 : taken[i] = fifo[i]
      /\ fifo' \in Seq(Tokens) /\ Len(fifo') = m - 2
      /\ \A i \in 1..(m - 2) : fifo'[i] = fifo[i + 2]
  BY <1>1, TwoAreTaken
<1>4. /\ words' \in Seq(Tokens) /\ Len(words') = n + 2
      /\ \A i \in 1..(n + 2) : words'[i] = IF i <= n THEN words[i] ELSE taken[i - n]
  <2>1. /\ words \o taken \in Seq(Tokens) /\ Len(words \o taken) = n + 2
        /\ \A i \in 1..(n + 2) :
             (words \o taken)[i] = IF i <= n THEN words[i] ELSE taken[i - n]
    <3> HIDE DEF taken
    <3> QED BY <1>1, <1>3, Joined
  <2> QED BY <2>1
<1> HIDE DEF n, m, taken
<1>5. ASSUME NEW i \in 1..(n + 2) PROVE words'[i] = <<"word", i>>
  <2>1. CASE i <= n
    BY <1>1, <1>2, <1>4, <2>1
  <2>2. CASE ~(i <= n)
    <3>1. i - n \in 1..2 /\ i - n \in 1..m /\ n + (i - n) = i
      BY <1>1, <2>2
    <3>2. words'[i] = taken[i - n] /\ taken[i - n] = fifo[i - n]
      BY <1>3, <1>4, <2>2, <3>1
    <3>3. fifo[i - n] = <<"word", n + (i - n)>>
      BY <1>2, <3>1
    <3> QED BY <3>1, <3>2, <3>3
  <2> QED BY <2>1, <2>2
<1>6. ASSUME NEW i \in 1..(m - 2) PROVE fifo'[i] = <<"word", (n + 2) + i>>
  <2>1. i + 2 \in 1..m /\ n + (i + 2) = (n + 2) + i
    BY <1>1
  <2> QED BY <1>2, <1>3, <2>1
<1>7. ata'.given = (n + 2) + (m - 2)
  BY <1>1, <1>2
<1> QED BY <1>3, <1>4, <1>5, <1>6, <1>7 DEF WordsInOrder, n, m

\* What every step relies on.
LEMMA CpldKnown ==
  ASSUME CpldTyped
  PROVE  /\ fifo \in Seq(Tokens) /\ words \in Seq(Tokens)
         /\ Len(fifo) \in Nat /\ Len(words) \in Nat /\ (Len(fifo) = 0 <=> fifo = <<>>)
         /\ call.count \in Int /\ call.port \in Doors /\ ctrl.port \in Doors
         /\ ata.given \in Nat
         /\ ctrl.on \in BOOLEAN /\ ctrl.repeat \in BOOLEAN /\ ctrl.writing \in BOOLEAN
BY LenProperties, EmptySeq DEF CpldTyped, CtrlWords, CpldCalls

LEMMA CpldFills ==
  ASSUME CpldGood, Cpld!CpldReads, call.place \in {"fill", "second"}
  PROVE  CpldGood'
<1> DEFINE g  == ata.given + 1
           f2 == Append(fifo, Cpld!Word(g))
<1>1. CpldTyped /\ SectorIsUnderWay /\ WordsInOrder
  BY DEF CpldGood
<1>2. /\ call.op = "input" /\ ctrl.on /\ ctrl.repeat /\ ~ctrl.writing /\ ctrl.port = "data"
      /\ Fours(call.count)
  BY <1>1 DEF SectorIsUnderWay
<1>3. g \in Nat /\ Cpld!Word(g) \in Tokens /\ Cpld!Word(g) = <<"word", g>>
  BY <1>1, CpldKnown, TokensAre DEF Cpld!Word
<1>4. Len(fifo) < 4 /\ fifo' = f2 /\ ata' = [ata EXCEPT !.given = g]
      /\ ctrl' = [ctrl EXCEPT !.on = ctrl.repeat] /\ call' = call /\ words' = words
  BY <1>2 DEF Cpld!CpldReads, Cpld!Data, Cpld!Depth
<1>5. /\ fifo' \in Seq(Tokens) /\ Len(fifo') = Len(fifo) + 1
      /\ \A i \in 1..Len(fifo) : fifo'[i] = fifo[i]
      /\ fifo'[Len(fifo) + 1] = <<"word", g>>
  <2> HIDE DEF g
  <2> QED BY <1>1, <1>3, <1>4, CpldKnown
<1>6. ata' \in [given : Nat, written : Doors \cup {"none"}] /\ ata'.given = g
  <2> HIDE DEF g
  <2> QED BY <1>1, <1>3, <1>4 DEF CpldTyped
<1>7. ctrl' \in CtrlWords /\ ctrl'.on /\ ctrl'.repeat /\ ~ctrl'.writing /\ ctrl'.port = "data"
  BY <1>1, <1>2, <1>4, Zenon DEF CpldTyped, CtrlWords
<1>8. CpldTyped'
  BY <1>1, <1>4, <1>5, <1>6, <1>7 DEF CpldTyped
<1>9. AccessIsDone' /\ AccessIsUnderWay'
  BY <1>4 DEF AccessIsDone, AccessIsUnderWay
<1>10. SectorIsUnderWay'
  BY <1>1, <1>2, <1>4, <1>5, <1>7, CpldKnown DEF SectorIsUnderWay
<1>11. WordsInOrder'
  <2>1. g = Len(words) + Len(fifo) + 1
    BY <1>1, <1>2, CpldKnown DEF WordsInOrder
  <2>2. g = Len(words) + Len(fifo')
    BY <1>1, <1>5, <2>1, CpldKnown
  <2>3. \A i \in 1..Len(fifo') : fifo'[i] = <<"word", Len(words) + i>>
    <3> SUFFICES ASSUME NEW i \in 1..Len(fifo') PROVE fifo'[i] = <<"word", Len(words) + i>>
      OBVIOUS
    <3> DEFINE m == Len(fifo)
    <3>1. m \in Nat /\ i \in 1..(m + 1)
      BY <1>1, <1>5, CpldKnown
    <3>2. CASE i \in 1..m
      BY <1>1, <1>2, <1>5, <3>2 DEF WordsInOrder
    <3>3. CASE i \notin 1..m
      <4>1. i = m + 1
        <5> HIDE DEF m
        <5> QED BY <3>1, <3>3
      <4>2. g = Len(words) + i
        BY <1>1, <2>1, <4>1, CpldKnown
      <4>3. fifo'[i] = <<"word", g>>
        <5> HIDE DEF g
        <5> QED BY <1>5, <4>1
      <4> HIDE DEF g
      <4> QED BY <4>2, <4>3
    <3> QED BY <3>2, <3>3
  <2> HIDE DEF g
  <2> QED BY <1>1, <1>2, <1>4, <1>6, <2>2, <2>3 DEF WordsInOrder
<1> QED BY <1>8, <1>9, <1>10, <1>11 DEF CpldGood

LEMMA CpldGivesValue ==
  ASSUME CpldGood, Cpld!CpldReads, call.place = "wait"
  PROVE  CpldGood'
<1>1. CpldTyped /\ AccessIsUnderWay
  BY DEF CpldGood
<1>2. ctrl.on /\ ~ctrl.writing
  BY DEF Cpld!CpldReads
<1>3. /\ call.op = "inb" /\ call.port \in Registers /\ ctrl.port = call.port /\ ~ctrl.repeat
      /\ fifo = <<>>
  BY <1>1, <1>2 DEF AccessIsUnderWay
<1>4. ctrl.port # "data"
  BY <1>3, CpldHasSizes
<1>5. /\ fifo' = Append(fifo, <<"value", call.port>>) /\ ata' = ata
      /\ ctrl' = [ctrl EXCEPT !.on = ctrl.repeat] /\ call' = call /\ words' = words
  BY <1>3, <1>4 DEF Cpld!CpldReads, Cpld!Data, Cpld!Value
<1>6. fifo' = << <<"value", call.port>> >>
  BY <1>3, <1>5
<1>7. <<"value", call.port>> \in Tokens
  BY <1>1, CpldKnown, TokensAre DEF Cpld!Value
<1>8. fifo' \in Seq(Tokens)
  BY <1>6, <1>7
<1>9. ctrl' \in CtrlWords /\ ~ctrl'.on /\ ~ctrl'.repeat /\ ~ctrl'.writing /\ ctrl'.port = ctrl.port
  BY <1>1, <1>2, <1>3, <1>5, Zenon DEF CpldTyped, CtrlWords
<1>10. CpldTyped'
  BY <1>1, <1>5, <1>8, <1>9 DEF CpldTyped
<1>11. AccessIsUnderWay'
  BY <1>3, <1>5, <1>6, <1>9 DEF AccessIsUnderWay
<1>12. AccessIsDone' /\ SectorIsUnderWay' /\ WordsInOrder'
  BY <1>3, <1>5 DEF AccessIsDone, SectorIsUnderWay, WordsInOrder
<1> QED BY <1>10, <1>11, <1>12 DEF CpldGood

LEMMA CpldKeepsReading ==
  ASSUME CpldGood, Cpld!CpldReads PROVE CpldGood'
<1>1. call.place \in {"wait", "fill", "second", "last", "end", "done"}
  BY DEF CpldGood, CpldTyped, CpldCalls
<1>2. call.place \notin {"last", "end", "done"}
  BY DEF CpldGood, AccessIsDone, SectorIsUnderWay, Cpld!CpldReads
<1> QED BY <1>1, <1>2, CpldFills, CpldGivesValue

LEMMA CpldTakesByte ==
  ASSUME CpldGood, Cpld!CpldWrites PROVE CpldGood'
<1>1. CpldTyped /\ AccessIsUnderWay
  BY DEF CpldGood
<1>2. /\ ctrl.on /\ ctrl.writing /\ fifo # <<>>
      /\ ata' = [ata EXCEPT !.written = ctrl.port]
      /\ fifo' = Tail(fifo)
      /\ ctrl' = ctrl /\ call' = call /\ words' = words
  BY DEF Cpld!CpldWrites
<1>3. call.place = "wait"
  <2>1. call.place \in {"wait", "fill", "second", "last", "end", "done"}
    BY <1>1 DEF CpldTyped, CpldCalls
  <2> QED BY <1>2, <2>1 DEF CpldGood, AccessIsDone, SectorIsUnderWay
<1>4. call.op = "outb" /\ ctrl.port = call.port /\ Len(fifo) <= 1
  BY <1>1, <1>2, <1>3 DEF AccessIsUnderWay
<1>5. fifo' \in Seq(Tokens) /\ Len(fifo') = Len(fifo) - 1
  BY <1>1, <1>2, CpldKnown, HeadTailProperties
<1>6. ctrl.port \in Doors \cup {"none"}
  BY <1>1, CpldKnown
<1>7. ata' \in [given : Nat, written : Doors \cup {"none"}] /\ ata'.written = ctrl.port
  BY <1>1, <1>2, <1>6 DEF CpldTyped
<1>8. CpldTyped'
  BY <1>1, <1>2, <1>5, <1>7 DEF CpldTyped
<1>9. AccessIsUnderWay'
  BY <1>1, <1>2, <1>3, <1>4, <1>5, <1>7, CpldKnown DEF AccessIsUnderWay
<1>10. AccessIsDone' /\ SectorIsUnderWay' /\ WordsInOrder'
  BY <1>2, <1>3, <1>4 DEF AccessIsDone, SectorIsUnderWay, WordsInOrder
<1> QED BY <1>8, <1>9, <1>10 DEF CpldGood

\* A call begins with nothing in the FIFO and no access under way but a write.
LEMMA CpldRests ==
  ASSUME CpldGood, Cpld!AtRest
  PROVE  /\ CpldTyped /\ call.place = "done" /\ fifo = <<>> /\ (ctrl.on => ctrl.writing)
         /\ fifo \in Seq(Tokens) /\ words \in Seq(Tokens)
         /\ ata \in [given : Nat, written : Doors \cup {"none"}]
BY DEF CpldGood, CpldTyped, AccessIsDone, Cpld!AtRest

LEMMA CpldBegins ==
  ASSUME CpldGood, Cpld!Preinit \/ Cpld!Output PROVE CpldGood'
<1>1. Cpld!AtRest
  BY DEF Cpld!Preinit, Cpld!Output
<1>2. /\ CpldTyped /\ fifo = <<>> /\ (ctrl.on => ctrl.writing)
      /\ ata \in [given : Nat, written : Doors \cup {"none"}] /\ ctrl \in CtrlWords
  BY <1>1, CpldRests DEF CpldTyped
<1>3. /\ call' \in CpldCalls /\ call'.op \in {"preinit", "output"} /\ call'.place = "done"
  <2>1. \E op \in {"preinit", "output"} : call' = Cpld!Call(op, "data", "done", 0)
    BY DEF Cpld!Preinit, Cpld!Output, Cpld!Data
  <2>2. PICK op \in {"preinit", "output"} : call' = Cpld!Call(op, "data", "done", 0)
    BY <2>1
  <2> QED BY <2>2, DoorsAre, CallIs
<1>4. /\ fifo' = <<>> /\ words' = <<>> /\ ata' = ata
      /\ (ctrl'.on => ctrl'.writing) /\ ctrl' \in CtrlWords
  BY <1>2, CtrlIsIdle DEF Cpld!Preinit, Cpld!Output, Cpld!PreinitFails, Cpld!Detected
<1>5. CpldTyped'
  BY <1>2, <1>3, <1>4 DEF CpldTyped
<1>6. AccessIsDone'
  BY <1>3, <1>4 DEF AccessIsDone
<1>7. AccessIsUnderWay' /\ SectorIsUnderWay' /\ WordsInOrder'
  BY <1>3 DEF AccessIsUnderWay, SectorIsUnderWay, WordsInOrder
<1> QED BY <1>5, <1>6, <1>7 DEF CpldGood

LEMMA CpldOutb ==
  ASSUME CpldGood, NEW port \in Registers, Cpld!Outb(port) PROVE CpldGood'
<1>1. /\ CpldTyped /\ fifo = <<>> /\ ata \in [given : Nat, written : Doors \cup {"none"}]
  BY CpldRests DEF Cpld!Outb
<1>2. /\ ctrl' = Cpld!Access(port, FALSE, TRUE) /\ fifo' = Append(fifo, Cpld!Byte(port))
      /\ ata' = [ata EXCEPT !.written = "none"]
      /\ call' = Cpld!Call("outb", port, "wait", 0) /\ words' = <<>>
  BY DEF Cpld!Outb
<1>3. port \in Doors /\ Cpld!Byte(port) \in Tokens
  BY DoorsAre, TokensAre
<1>4. ctrl' \in CtrlWords /\ ctrl'.on /\ ~ctrl'.repeat /\ ctrl'.writing /\ ctrl'.port = port
  BY <1>2, <1>3, CtrlIs
<1>5. /\ call' \in CpldCalls /\ call'.op = "outb" /\ call'.port = port /\ call'.place = "wait"
  BY <1>2, <1>3, CallIs
<1>6. fifo' \in Seq(Tokens) /\ Len(fifo') = 1 /\ fifo' # <<>>
  <2> DEFINE b == Cpld!Byte(port)
  <2> HIDE DEF b
  <2>1. fifo' = <<b>> /\ b \in Tokens
    BY <1>1, <1>2, <1>3 DEF b
  <2> QED BY <2>1
<1>7. ata' \in [given : Nat, written : Doors \cup {"none"}]
  BY <1>1, <1>2
<1>8. CpldTyped'
  <2>1. words' \in Seq(Tokens)
    BY <1>2
  <2> QED BY <1>4, <1>5, <1>6, <1>7, <2>1 DEF CpldTyped
<1>9. AccessIsUnderWay'
  BY <1>4, <1>5, <1>6 DEF AccessIsUnderWay
<1>10. AccessIsDone' /\ SectorIsUnderWay' /\ WordsInOrder'
  BY <1>5 DEF AccessIsDone, SectorIsUnderWay, WordsInOrder
<1> QED BY <1>8, <1>9, <1>10 DEF CpldGood

LEMMA CpldInb ==
  ASSUME CpldGood, NEW port \in Registers, Cpld!Inb(port) PROVE CpldGood'
<1>1. /\ CpldTyped /\ fifo = <<>> /\ ata \in [given : Nat, written : Doors \cup {"none"}]
      /\ fifo \in Seq(Tokens)
  BY CpldRests DEF Cpld!Inb
<1>2. /\ ctrl' = Cpld!Access(port, FALSE, FALSE) /\ fifo' = fifo /\ ata' = ata
      /\ call' = Cpld!Call("inb", port, "wait", 0) /\ words' = <<>>
  BY DEF Cpld!Inb
<1>3. port \in Doors
  BY DoorsAre
<1>4. ctrl' \in CtrlWords /\ ctrl'.on = TRUE /\ ~ctrl'.repeat /\ ~ctrl'.writing /\ ctrl'.port = port
  BY <1>2, <1>3, CtrlIs
<1>5. /\ call' \in CpldCalls /\ call'.op = "inb" /\ call'.port = port /\ call'.place = "wait"
  BY <1>2, <1>3, CallIs
<1>6. CpldTyped'
  BY <1>1, <1>2, <1>4, <1>5 DEF CpldTyped
<1>7. AccessIsUnderWay'
  BY <1>1, <1>2, <1>4, <1>5 DEF AccessIsUnderWay
<1>8. AccessIsDone' /\ SectorIsUnderWay' /\ WordsInOrder'
  BY <1>5 DEF AccessIsDone, SectorIsUnderWay, WordsInOrder
<1> QED BY <1>6, <1>7, <1>8 DEF CpldGood

LEMMA CpldInput ==
  ASSUME CpldGood, Cpld!Input PROVE CpldGood'
<1>1. /\ CpldTyped /\ fifo = <<>> /\ ata \in [given : Nat, written : Doors \cup {"none"}]
      /\ fifo \in Seq(Tokens)
  BY CpldRests DEF Cpld!Input
<1>2. /\ ctrl' = Cpld!Access("data", TRUE, FALSE) /\ fifo' = fifo
      /\ ata' = [ata EXCEPT !.given = 0]
      /\ call' = Cpld!Call("input", "data", "fill", SectorWords) /\ words' = <<>>
  BY DEF Cpld!Input, Cpld!Data, SectorWords
<1>3. "data" \in Doors /\ SectorWords \in Int /\ SectorWords > 4 /\ Fours(SectorWords)
  BY DoorsAre, CpldHasSizes, SectorIsFours
<1>4. /\ ctrl' \in CtrlWords /\ ctrl'.on = TRUE /\ ctrl'.repeat = TRUE /\ ~ctrl'.writing
      /\ ctrl'.port = "data"
  BY <1>2, <1>3, CtrlIs
<1>5. /\ call' \in CpldCalls /\ call'.op = "input" /\ call'.port = "data" /\ call'.place = "fill"
      /\ call'.count = SectorWords
  BY <1>2, <1>3, CallIs
<1>6. ata' \in [given : Nat, written : Doors \cup {"none"}] /\ ata'.given = 0
  BY <1>1, <1>2
<1>7. CpldTyped'
  BY <1>1, <1>2, <1>4, <1>5, <1>6 DEF CpldTyped
<1>8. SectorIsUnderWay'
  <2>1. Len(words') = 0 /\ Len(fifo') = 0
    BY <1>1, <1>2
  <2>2. Len(words') + SectorWords = SectorWords
    BY <1>3, <2>1
  <2> HIDE DEF SectorWords
  <2> QED BY <1>3, <1>4, <1>5, <2>1, <2>2 DEF SectorIsUnderWay
<1>9. WordsInOrder'
  BY <1>1, <1>2, <1>6 DEF WordsInOrder
<1>10. AccessIsDone' /\ AccessIsUnderWay'
  BY <1>5 DEF AccessIsDone, AccessIsUnderWay
<1> QED BY <1>7, <1>8, <1>9, <1>10 DEF CpldGood

LEMMA CpldFifoEmpty ==
  ASSUME CpldGood, Cpld!FifoEmpty PROVE CpldGood'
<1>1. CpldTyped /\ AccessIsUnderWay
  BY DEF CpldGood
<1>2. /\ call.op = "outb" /\ call.place = "wait" /\ fifo = <<>>
      /\ call' = [call EXCEPT !.place = "done"]
      /\ ctrl' = ctrl /\ fifo' = fifo /\ ata' = ata /\ words' = words
  BY DEF Cpld!FifoEmpty, Cpld!Returns
<1>3. ctrl.writing /\ ata.written = call.port
  BY <1>1, <1>2 DEF AccessIsUnderWay
<1>4. call' \in CpldCalls /\ call'.op = "outb" /\ call'.port = call.port /\ call'.place = "done"
  BY <1>1, <1>2, CallGoesTo DEF CpldTyped
<1>5. CpldTyped'
  BY <1>1, <1>2, <1>4 DEF CpldTyped
<1>6. AccessIsDone'
  BY <1>2, <1>3, <1>4 DEF AccessIsDone
<1>7. AccessIsUnderWay' /\ SectorIsUnderWay' /\ WordsInOrder'
  BY <1>4 DEF AccessIsUnderWay, SectorIsUnderWay, WordsInOrder
<1> QED BY <1>5, <1>6, <1>7 DEF CpldGood

LEMMA CpldInbReads ==
  ASSUME CpldGood, Cpld!InbReads PROVE CpldGood'
<1>1. CpldTyped /\ AccessIsUnderWay
  BY DEF CpldGood
<1>2. /\ call.op = "inb" /\ call.place = "wait" /\ fifo # <<>>
      /\ call' = [call EXCEPT !.place = "done"]
      /\ words' = <<Head(fifo)>> /\ fifo' = Cpld!Left
      /\ ctrl' = ctrl /\ ata' = ata
  BY DEF Cpld!InbReads, Cpld!Returns
<1>3. ~ctrl.on /\ fifo = << <<"value", call.port>> >>
  BY <1>1, <1>2 DEF AccessIsUnderWay
<1>4. <<"value", call.port>> \in Tokens
  BY <1>1, CpldKnown, TokensAre DEF Cpld!Value
<1>5. Head(fifo) = <<"value", call.port>> /\ fifo' = <<>>
  BY <1>2, <1>3, <1>4, OneIsTaken
<1>6. call' \in CpldCalls /\ call'.op = "inb" /\ call'.port = call.port /\ call'.place = "done"
  BY <1>1, <1>2, CallGoesTo DEF CpldTyped
<1>7. words' = << <<"value", call.port>> >> /\ words' \in Seq(Tokens)
  BY <1>2, <1>4, <1>5
<1>8. CpldTyped'
  BY <1>1, <1>2, <1>5, <1>6, <1>7 DEF CpldTyped
<1>9. AccessIsDone'
  BY <1>2, <1>3, <1>5, <1>6, <1>7 DEF AccessIsDone
<1>10. AccessIsUnderWay' /\ SectorIsUnderWay' /\ WordsInOrder'
  BY <1>6 DEF AccessIsUnderWay, SectorIsUnderWay, WordsInOrder
<1> QED BY <1>8, <1>9, <1>10 DEF CpldGood

LEMMA FoursGoOn ==
  ASSUME NEW n \in Int, Fours(n)
  PROVE  /\ n > 4 => Fours(n - 4) /\ n - 4 > 0
         /\ n > 0 /\ n <= 4 => n = 4
<1>1. PICK k \in Nat : n = 4 * k
  BY DEF Fours
<1>2. n > 4 => k - 1 \in Nat /\ n - 4 = 4 * (k - 1) /\ n - 4 > 0
  BY <1>1
<1> QED BY <1>1, <1>2 DEF Fours

\* The sums of SectorIsUnderWay when two words go from the FIFO to memory.
LEMMA HalvesAddUp ==
  ASSUME NEW n \in Nat, NEW m \in Nat, NEW c \in Int, NEW s \in Nat
  PROVE  /\ n + c = s /\ m = 4 => (n + 2) + c = s + 2 /\ m - 2 = 2
         /\ n + c = s + 2 /\ m <= 4 => (n + 2) + (c - 4) = s /\ m - 2 <= 4
         /\ n + 4 = s /\ m = 4 => (n + 2) + 2 = s /\ m - 2 = 2
         /\ n + 2 = s /\ m = 2 => n + 2 = s /\ m - 2 = 0
OBVIOUS

LEMMA CpldTakesFirst ==
  ASSUME CpldGood, Cpld!TakeFirst PROVE CpldGood'
<1>1. CpldTyped /\ SectorIsUnderWay /\ WordsInOrder
  BY DEF CpldGood
<1>2. /\ call.place = "fill" /\ call.count > 4 /\ Len(fifo) = 4
      /\ words' = words \o Cpld!Taken /\ fifo' = Cpld!Left
      /\ call' = [call EXCEPT !.place = "second"]
      /\ ctrl' = ctrl /\ ata' = ata
  BY DEF Cpld!TakeFirst, Cpld!Take, Cpld!Full, Cpld!Depth
<1>3. /\ call.op = "input" /\ Fours(call.count) /\ Len(words) + call.count = SectorWords
      /\ ctrl.on /\ ctrl.repeat /\ ~ctrl.writing /\ ctrl.port = "data"
  BY <1>1, <1>2 DEF SectorIsUnderWay
<1>4. /\ words' \in Seq(Tokens) /\ fifo' \in Seq(Tokens)
      /\ Len(words') = Len(words) + 2 /\ Len(fifo') = Len(fifo) - 2
      /\ WordsInOrder'
  BY <1>1, <1>2, <1>3, WordsAreTaken
<1>5. /\ call' \in CpldCalls /\ call'.op = "input" /\ call'.place = "second"
      /\ call'.count = call.count
  BY <1>1, <1>2, <1>3, CallGoesTo DEF CpldTyped
<1>6. CpldTyped'
  BY <1>1, <1>2, <1>4, <1>5 DEF CpldTyped
<1>7. SectorIsUnderWay'
  <2>1. Len(words') + call'.count = SectorWords + 2 /\ Len(fifo') = 2
    <3>1. /\ Len(words) \in Nat /\ call.count \in Int /\ SectorWords \in Nat
          /\ Len(fifo) \in Nat
      BY <1>1, CpldHasSizes, CpldKnown
    <3> QED BY <1>2, <1>3, <1>4, <1>5, <3>1, HalvesAddUp
  <2> QED BY <1>2, <1>3, <1>5, <2>1 DEF SectorIsUnderWay
<1>8. AccessIsDone' /\ AccessIsUnderWay'
  BY <1>5 DEF AccessIsDone, AccessIsUnderWay
<1> QED BY <1>4, <1>6, <1>7, <1>8 DEF CpldGood

LEMMA CpldTakesSecond ==
  ASSUME CpldGood, Cpld!TakeSecond PROVE CpldGood'
<1>1. CpldTyped /\ SectorIsUnderWay /\ WordsInOrder
  BY DEF CpldGood
<1>2. /\ call.place = "second"
      /\ words' = words \o Cpld!Taken /\ fifo' = Cpld!Left
      /\ call' = [call EXCEPT !.place = "fill", !.count = call.count - 4]
      /\ ctrl' = ctrl /\ ata' = ata
  BY DEF Cpld!TakeSecond, Cpld!Depth
<1>3. /\ call.op = "input" /\ Fours(call.count) /\ Len(words) + call.count = SectorWords + 2
      /\ call.count > 4 /\ Len(fifo) >= 2 /\ Len(fifo) <= 4
      /\ ctrl.on /\ ctrl.repeat /\ ~ctrl.writing /\ ctrl.port = "data"
  BY <1>1, <1>2 DEF SectorIsUnderWay
<1>4. /\ words' \in Seq(Tokens) /\ fifo' \in Seq(Tokens)
      /\ Len(words') = Len(words) + 2 /\ Len(fifo') = Len(fifo) - 2
      /\ WordsInOrder'
  BY <1>1, <1>2, <1>3, WordsAreTaken
<1>5. /\ call' \in CpldCalls /\ call'.op = "input" /\ call'.place = "fill"
      /\ call'.count = call.count - 4
  <2> DEFINE c == call.count - 4
  <2>1. c \in Int
    BY <1>1, CpldKnown
  <2>2. call \in CpldCalls /\ call' = [call EXCEPT !.place = "fill", !.count = c]
    BY <1>1, <1>2 DEF CpldTyped
  <2> HIDE DEF c
  <2>3. /\ call' \in CpldCalls /\ call'.op = call.op /\ call'.place = "fill"
        /\ call'.count = c
    BY <2>1, <2>2 DEF CpldCalls
  <2> QED BY <1>3, <2>3 DEF c
<1>6. CpldTyped'
  BY <1>1, <1>2, <1>4, <1>5 DEF CpldTyped
<1>7. SectorIsUnderWay'
  <2>1. Len(words') + call'.count = SectorWords /\ Len(fifo') <= 4
    <3>1. /\ Len(words) \in Nat /\ call.count \in Int /\ SectorWords \in Nat
          /\ Len(fifo) \in Nat
      BY <1>1, CpldHasSizes, CpldKnown
    <3> QED BY <1>3, <1>4, <1>5, <3>1, HalvesAddUp
  <2>2. Fours(call'.count) /\ call'.count > 0
    BY <1>1, <1>3, <1>5, CpldKnown, FoursGoOn
  <2> QED BY <1>2, <1>3, <1>5, <2>1, <2>2 DEF SectorIsUnderWay
<1>8. AccessIsDone' /\ AccessIsUnderWay'
  BY <1>5 DEF AccessIsDone, AccessIsUnderWay
<1> QED BY <1>4, <1>6, <1>7, <1>8 DEF CpldGood

LEMMA CpldStops ==
  ASSUME CpldGood, Cpld!Stop PROVE CpldGood'
<1>1. CpldTyped /\ SectorIsUnderWay /\ WordsInOrder
  BY DEF CpldGood
<1>2. /\ call.place = "fill" /\ call.count <= 4 /\ Len(fifo) = 4
      /\ ctrl' = Cpld!Idle
      /\ call' = [call EXCEPT !.place = "last"]
      /\ words' = words /\ fifo' = fifo /\ ata' = ata
  BY DEF Cpld!Stop, Cpld!Full, Cpld!Depth
<1>3. /\ call.op = "input" /\ Fours(call.count) /\ call.count > 0
      /\ Len(words) + call.count = SectorWords
  BY <1>1, <1>2 DEF SectorIsUnderWay
<1>4. Len(words) + 4 = SectorWords
  BY <1>1, <1>2, <1>3, CpldKnown, FoursGoOn
<1>5. call' \in CpldCalls /\ call'.op = "input" /\ call'.place = "last"
  BY <1>1, <1>2, <1>3, CallGoesTo DEF CpldTyped
<1>6. CpldTyped'
  BY <1>1, <1>2, <1>5, CtrlIsIdle DEF CpldTyped
<1>7. SectorIsUnderWay'
  <2>1. Len(words') + 4 = SectorWords /\ Len(fifo') = 4 /\ ~ctrl'.on
    BY <1>2, <1>4, CtrlIsIdle
  <2> QED BY <1>5, <2>1 DEF SectorIsUnderWay
<1>8. AccessIsDone' /\ AccessIsUnderWay'
  BY <1>5 DEF AccessIsDone, AccessIsUnderWay
<1>9. WordsInOrder'
  BY <1>1, <1>2, <1>3 DEF WordsInOrder
<1> QED BY <1>6, <1>7, <1>8, <1>9 DEF CpldGood

LEMMA CpldTakesLast ==
  ASSUME CpldGood, Cpld!TakeLast PROVE CpldGood'
<1> DEFINE p == IF call.place = "last" THEN "end" ELSE "done"
<1>1. CpldTyped /\ SectorIsUnderWay /\ WordsInOrder
  BY DEF CpldGood
<1>2. /\ call.place \in {"last", "end"} /\ p \in {"end", "done"}
      /\ words' = words \o Cpld!Taken /\ fifo' = Cpld!Left
      /\ call' = [call EXCEPT !.place = p]
      /\ ctrl' = ctrl /\ ata' = ata
  BY DEF Cpld!TakeLast, Cpld!Take
<1>3. /\ call.op = "input" /\ ~ctrl.on
      /\ call.place = "last" => Len(words) + 4 = SectorWords /\ Len(fifo) = 4
      /\ call.place = "end"  => Len(words) + 2 = SectorWords /\ Len(fifo) = 2
  BY <1>1, <1>2 DEF SectorIsUnderWay
<1>4. /\ words' \in Seq(Tokens) /\ fifo' \in Seq(Tokens)
      /\ Len(words') = Len(words) + 2 /\ Len(fifo') = Len(fifo) - 2
      /\ WordsInOrder'
  <2>1. Len(fifo) = 4 \/ Len(fifo) = 2
    BY <1>2, <1>3, Zenon
  <2>2. Len(fifo) >= 2
    BY <2>1
  <2> HIDE DEF p
  <2> QED BY <1>1, <1>2, <1>3, <2>2, WordsAreTaken
<1>5. call' \in CpldCalls /\ call'.op = "input" /\ call'.place = p
  <2> HIDE DEF p
  <2> QED BY <1>1, <1>2, <1>3, CallGoesTo DEF CpldTyped
<1>6. CpldTyped'
  BY <1>1, <1>2, <1>4, <1>5 DEF CpldTyped
<1>7. /\ call'.place = "end"  => Len(words') + 2 = SectorWords /\ Len(fifo') = 2
      /\ call'.place = "done" => Len(words') = SectorWords /\ Len(fifo') = 0
  <2>1. /\ Len(words) \in Nat /\ Len(fifo) \in Nat /\ SectorWords \in Nat /\ 0 \in Int
    BY <1>1, CpldHasSizes, CpldKnown
  <2>2. \/ call.place = "last" /\ call'.place = "end"
        \/ call.place = "end" /\ call'.place = "done"
    BY <1>2, <1>5
  <2> QED BY <1>3, <1>4, <2>1, <2>2, HalvesAddUp
<1>8. SectorIsUnderWay'
  <2>1. call'.place \in {"end", "done"} /\ ~ctrl'.on
    BY <1>2, <1>3, <1>5
  <2>2. ASSUME call'.place = "end" PROVE Len(fifo') <= 4 /\ Len(fifo') = 2
    <3>1. Len(fifo') = 2
      BY <1>7, <2>2, Zenon
    <3> QED BY <3>1
  <2> QED BY <1>5, <1>7, <2>1, <2>2 DEF SectorIsUnderWay
<1>9. AccessIsDone'
  BY <1>2, <1>3, <1>4, <1>5, <1>7, EmptySeq DEF AccessIsDone
<1>10. AccessIsUnderWay'
  BY <1>2, <1>5 DEF AccessIsUnderWay
<1> QED BY <1>4, <1>6, <1>8, <1>9, <1>10 DEF CpldGood

LEMMA CpldStarts == ASSUME Cpld!Init PROVE CpldInv
<1>1. /\ ctrl = Cpld!Idle /\ fifo = <<>> /\ words = <<>> /\ slow = 0
      /\ ata = [given |-> 0, written |-> "none"]
      /\ call = Cpld!Call("none", "data", "done", 0)
  BY DEF Cpld!Init, Cpld!Data
<1>2. ctrl \in CtrlWords /\ ~ctrl.on
  BY <1>1, CtrlIsIdle
<1>3. call \in CpldCalls /\ call.op = "none" /\ call.place = "done"
  BY <1>1, DoorsAre, CallIs
<1>4. ata \in [given : Nat, written : Doors \cup {"none"}]
  BY <1>1
<1>5. CpldTyped
  BY <1>1, <1>2, <1>3, <1>4 DEF CpldTyped
<1>6. AccessIsDone /\ AccessIsUnderWay /\ SectorIsUnderWay /\ WordsInOrder
  BY <1>1, <1>2, <1>3 DEF AccessIsDone, AccessIsUnderWay, SectorIsUnderWay, WordsInOrder
<1> QED BY <1>1, <1>5, <1>6 DEF CpldInv, CpldGood

LEMMA CpldNexts == ASSUME CpldInv, Cpld!Next PROVE CpldInv'
<1>1. CASE Cpld!FifoTimeout
  <2>1. slow' \in Nat /\ slow' # 0
    BY <1>1 DEF CpldInv, Cpld!FifoTimeout
  <2> QED BY <2>1 DEF CpldInv
<1>2. CASE ~Cpld!FifoTimeout
  <2>1. slow' = slow
    BY <1>2 DEF Cpld!Next, Cpld!CpldReads, Cpld!CpldWrites, Cpld!Preinit, Cpld!Outb, Cpld!Inb,
                Cpld!FifoEmpty, Cpld!InbReads, Cpld!Input, Cpld!TakeFirst, Cpld!TakeSecond,
                Cpld!Stop, Cpld!TakeLast, Cpld!Output
  <2>2. ASSUME CpldGood PROVE CpldGood'
    <3>1. CASE \E port \in Registers : Cpld!Outb(port) \/ Cpld!Inb(port)
      BY <2>2, <3>1, CpldOutb, CpldInb
    <3> QED BY <1>2, <2>2, <3>1, CpldKeepsReading, CpldTakesByte, CpldBegins, CpldFifoEmpty,
               CpldInbReads, CpldInput, CpldTakesFirst, CpldTakesSecond, CpldStops,
               CpldTakesLast DEF Cpld!Next
  <2> QED BY <2>1, <2>2 DEF CpldInv
<1> QED BY <1>1, <1>2

LEMMA CpldStays == ASSUME CpldInv, UNCHANGED <<ctrl, fifo, ata, call, words, slow>> PROVE CpldInv'
BY DEF CpldInv, CpldGood, CpldTyped, AccessIsDone, AccessIsUnderWay, SectorIsUnderWay,
       WordsInOrder

LEMMA CpldReadsWhole == ASSUME CpldInv PROVE Cpld!SectorWhole
<1> SUFFICES ASSUME call.place = "done", slow = 0
             PROVE  /\ fifo = <<>>
                    /\ call.op = "inb"  => words = << <<"value", call.port>> >>
                    /\ call.op = "outb" => ata.written = call.port
                    /\ call.op = "input" =>
                         /\ words = [i \in 1..SectorWords |-> <<"word", i>>]
                         /\ ata.given = SectorWords
  BY DEF Cpld!SectorWhole, Cpld!AtRest, Cpld!Value, Cpld!Word, SectorWords
<1>1. CpldTyped /\ AccessIsDone /\ WordsInOrder
  BY DEF CpldInv, CpldGood
<1>2. /\ fifo = <<>> /\ Len(fifo) = 0
      /\ call.op = "inb" => words = << <<"value", call.port>> >>
      /\ call.op = "outb" => ata.written = call.port
      /\ call.op = "input" => Len(words) = SectorWords
  BY <1>1, EmptySeq DEF AccessIsDone
<1>3. ASSUME call.op = "input"
      PROVE  /\ words = [i \in 1..SectorWords |-> <<"word", i>>]
             /\ ata.given = SectorWords
  <2>1. /\ words \in Seq(Tokens) /\ Len(words) = SectorWords
        /\ \A i \in 1..SectorWords : words[i] = <<"word", i>>
        /\ ata.given = SectorWords + 0
    BY <1>1, <1>2, <1>3 DEF CpldTyped, WordsInOrder
  <2>2. words = [i \in 1..SectorWords |-> words[i]]
    BY <2>1, LenProperties
  <2>3. SectorWords + 0 = SectorWords
    BY CpldHasSizes
  <2> QED BY <2>1, <2>2, <2>3, Zenon
<1> QED BY <1>2, <1>3

LEMMA CpldRuns == [Next]_diskBoxVars => Cpld!Next \/ UNCHANGED cpldVars
BY DEF Next, Runs, diskBoxVars, ataVars

\* ide_inb, ide_outb and input_data: each call returns with its own access done, the words of one
\* sector in their order and none read ahead and lost, for a sector of any size and any registers,
\* though the CPLD goes on by itself; the exceptions are those SectorWhole names.
THEOREM ReadsSectorsWhole == Spec => []SectorWhole
<1>1. Init => CpldInv
  BY CpldStarts DEF Init
<1>2. CpldInv /\ [Next]_diskBoxVars => CpldInv'
  <2>1. UNCHANGED cpldVars => UNCHANGED <<ctrl, fifo, ata, call, words, slow>>
    BY DEF cpldVars
  <2> QED BY <2>1, CpldRuns, CpldNexts, CpldStays
<1>3. CpldInv => SectorWhole
  BY CpldReadsWhole DEF SectorWhole
<1> QED BY <1>1, <1>2, <1>3, PTL DEF Spec, diskBoxVars

-----------------------------------------------------------------------------
(* The disks behind one bus: the inductive invariant.                      *)

NoDisk    == Disks!None
DevKinds  == {NoDisk, "reset", "device", "read", "write", "boot"}
DevPlaces == {NoDisk, "bus", "ident", "move", "table", "header", "image", "done", "undefined"}
Cmds      == [kind : DevKinds, dev : Int, part : Disks!Partitions \cup {0}, at : DevPlaces,
              bus : BOOLEAN, i : Disks!Dev, start : Nat, cnt : Nat, ret : {0, 1}]

\* The places, what is known of their disks and the command have their types; a command is at the
\* places of its kind.
DevTyped ==
  /\ slot \in [Disks!Dev -> DOMAIN DiskTable \cup {NoDisk}]
  /\ ide_dev_desc \in [Disks!Dev -> [type : {"unknown", "disk"}, parts : BOOLEAN]]
  /\ curr_device \in Disks!Dev \cup {-1}
  /\ cmd \in Cmds
  /\ cmd.at \in {"bus", "ident"} => cmd.kind = "reset"
  /\ cmd.at = "move" => cmd.kind \in {"read", "write"} /\ cmd.dev \in Disks!Dev
  /\ cmd.at \in {"table", "header", "image"} => cmd.kind = "boot" /\ cmd.dev \in Disks!Dev

\* Where no device is current none is known, also while the places are looked at one by one.
CurrentIsOne ==
  /\ curr_device = -1 => \A d \in Disks!Dev : ide_dev_desc[d].type = "unknown"
  /\ cmd.at = "bus" => curr_device = -1 /\ cmd.i = 0
  /\ cmd.at = "ident" => \A d \in Disks!Dev : d >= cmd.i => ide_dev_desc[d].type = "unknown"

\* A command is undefined where a number is no device or there is none.
NoDevice ==
  cmd.at = "undefined" =>
    IF cmd.kind \in {"read", "write"}
      THEN \A d \in Disks!Dev : ide_dev_desc[d].type = "unknown"
      ELSE cmd.dev \notin Disks!Dev

\* Memory holds n blocks from the one the partition begins in on, of the disk in the place named,
\* and an image begins there that has `cnt' blocks behind its first.
Loads(n) ==
  /\ slot[cmd.dev] # NoDisk /\ loaded = Disks!Blocks(cmd.dev, cmd.start, n)
  /\ \E i \in Disks!ImagesAt(slot[cmd.dev], cmd.start) : cmd.cnt = Disks!BlocksBehind(i.size)

\* A boot that has gone on, or has succeeded, uses the first device's partition, and memory holds
\* what was read so far.
BootFollows ==
  /\ cmd.at \in {"header", "image"} \/ (cmd.at = "done" /\ cmd.ret = 0 /\ cmd.kind = "boot") =>
       /\ cmd.dev \in Disks!Dev /\ Disks!HasPart(slot[0], cmd.part)
       /\ cmd.start = DiskTable[slot[0]].parts[cmd.part].start
  /\ cmd.at = "image" => Loads(1)
  /\ cmd.at = "done" /\ cmd.ret = 0 /\ cmd.kind = "boot" =>
       /\ Loads(cmd.cnt + 1)
       /\ cmd.cnt = 0 \/ cmd.start + 1 + cmd.cnt <= DiskTable[slot[cmd.dev]].blocks

DevInv == DevTyped /\ CurrentIsOne /\ NoDevice /\ BootFollows

LEMMA DevHasSizes ==
  /\ Devices \in Nat \ {0} /\ DiskBlockSize \in Nat \ {0} /\ HeaderBytes \in 1..DiskBlockSize
  /\ Ulong \in Nat /\ 2 < Ulong /\ DiskBlockSize < Ulong
  /\ NoDisk \notin DOMAIN DiskTable
  /\ 0 \in Disks!Dev /\ Disks!Dev \subseteq Nat
  /\ \A d \in DOMAIN DiskTable :
       /\ DiskTable[d].blocks \in 1..(Ulong - 1)
       /\ \A p \in DOMAIN DiskTable[d].parts :
            /\ DiskTable[d].parts[p].start \in 0..(DiskTable[d].blocks - 1)
            /\ DiskTable[d].parts[p].size \in 0..(Ulong - 1)
            /\ \A q \in DOMAIN DiskTable[d].parts :
                 DiskTable[d].parts[q].start = DiskTable[d].parts[p].start =>
                   DiskTable[d].parts[q] = DiskTable[d].parts[p]
<1>1. Disks!DiskSizes
  BY PartsAssumption
<1>2. /\ Devices \in Nat \ {0} /\ DiskBlockSize \in Nat \ {0} /\ HeaderBytes \in 1..DiskBlockSize
      /\ Ulong \in Nat /\ 2 < Ulong /\ DiskBlockSize < Ulong
      /\ NoDisk \notin DOMAIN DiskTable
  BY <1>1 DEF Disks!DiskSizes, NoDisk
<1>3. 0 \in Disks!Dev /\ Disks!Dev \subseteq Nat
  BY <1>2 DEF Disks!Dev
<1>4. ASSUME NEW d \in DOMAIN DiskTable
      PROVE  /\ DiskTable[d].blocks \in 1..(Ulong - 1)
             /\ \A p \in DOMAIN DiskTable[d].parts :
                  /\ DiskTable[d].parts[p].start \in 0..(DiskTable[d].blocks - 1)
                  /\ DiskTable[d].parts[p].size \in 0..(Ulong - 1)
                  /\ \A q \in DOMAIN DiskTable[d].parts :
                       DiskTable[d].parts[q].start = DiskTable[d].parts[p].start =>
                         DiskTable[d].parts[q] = DiskTable[d].parts[p]
  BY <1>1 DEF Disks!DiskSizes
<1> QED BY <1>2, <1>3, <1>4

LEMMA NoCmdIs ==
  /\ Disks!NoCmd \in Cmds
  /\ Disks!NoCmd.kind = NoDisk /\ Disks!NoCmd.at = NoDisk /\ Disks!NoCmd.i = 0
  /\ Disks!NoCmd.ret = 0
BY DevHasSizes DEF Disks!NoCmd, Cmds, NoDisk, DevKinds, DevPlaces

\* The command with what a step changes of it.
EndsWith(c, v) == [c EXCEPT !.at = "done", !.ret = v]
ResetOf(c)     == [c EXCEPT !.kind = "reset", !.at = "bus"]
AsksFor(c, b)  == [c EXCEPT !.bus = b, !.at = "ident"]
BeginsAs(c, k, n, p, a)     == [c EXCEPT !.kind = k, !.dev = n, !.part = p, !.at = a]
MovesFrom(c, k, n, s, m, a) == [c EXCEPT !.kind = k, !.dev = n, !.start = s, !.cnt = m, !.at = a]
FindsAt(c, s)  == [c EXCEPT !.at = "header", !.start = s]
HasImage(c, n) == [c EXCEPT !.at = "image", !.cnt = n]

LEMMA CmdEnds ==
  ASSUME NEW c \in Cmds, NEW v \in {0, 1}, NEW d, d = EndsWith(c, v)
  PROVE  /\ d \in Cmds /\ d.kind = c.kind /\ d.dev = c.dev /\ d.part = c.part /\ d.i = c.i
         /\ d.start = c.start /\ d.cnt = c.cnt /\ d.at = "done" /\ d.ret = v
BY DEF EndsWith, Cmds, DevKinds, DevPlaces

LEMMA CmdResets ==
  ASSUME NEW c \in Cmds, NEW d, d = ResetOf(c)
  PROVE  d \in Cmds /\ d.kind = "reset" /\ d.at = "bus" /\ d.i = c.i /\ d.ret = c.ret
BY DEF ResetOf, Cmds, DevKinds, DevPlaces

LEMMA CmdIdentifies ==
  ASSUME NEW c \in Cmds, NEW b \in BOOLEAN, NEW d, d = AsksFor(c, b)
  PROVE  d \in Cmds /\ d.kind = c.kind /\ d.at = "ident" /\ d.i = c.i
BY Zenon DEF AsksFor, Cmds, DevPlaces

LEMMA CmdGoesOn ==
  ASSUME NEW c \in Cmds, NEW j \in Disks!Dev, NEW d, d = [c EXCEPT !.i = j]
  PROVE  d \in Cmds /\ d.kind = c.kind /\ d.at = c.at /\ d.i = j
BY DEF Cmds, DevKinds, DevPlaces

LEMMA CmdBegins ==
  ASSUME NEW c \in Cmds, NEW k \in DevKinds, NEW n \in Int, NEW p \in Disks!Partitions \cup {0},
         NEW a \in DevPlaces,
         NEW d, d = BeginsAs(c, k, n, p, a)
  PROVE  d \in Cmds /\ d.kind = k /\ d.dev = n /\ d.part = p /\ d.at = a
BY DEF BeginsAs, Cmds, DevKinds, DevPlaces

LEMMA CmdMoves ==
  ASSUME NEW c \in Cmds, NEW k \in DevKinds, NEW n \in Int, NEW s \in Nat, NEW m \in Nat,
         NEW a \in DevPlaces,
         NEW d, d = MovesFrom(c, k, n, s, m, a)
  PROVE  d \in Cmds /\ d.kind = k /\ d.dev = n /\ d.at = a
BY DEF MovesFrom, Cmds, DevKinds, DevPlaces

LEMMA CmdFinds ==
  ASSUME NEW c \in Cmds, NEW s \in Nat, NEW d, d = FindsAt(c, s)
  PROVE  /\ d \in Cmds /\ d.kind = c.kind /\ d.dev = c.dev /\ d.part = c.part
         /\ d.start = s /\ d.at = "header"
BY DEF FindsAt, Cmds, DevKinds, DevPlaces

LEMMA CmdHasImage ==
  ASSUME NEW c \in Cmds, NEW n \in Nat, NEW d, d = HasImage(c, n)
  PROVE  /\ d \in Cmds /\ d.kind = c.kind /\ d.dev = c.dev /\ d.part = c.part
         /\ d.start = c.start /\ d.cnt = n /\ d.at = "image"
BY DEF HasImage, Cmds, DevKinds, DevPlaces

LEMMA Quotient ==
  ASSUME NEW y \in Nat, NEW b \in Nat \ {0}
  PROVE  /\ y \div b \in Nat /\ y \div b <= y
         /\ (y \div b) * b <= y /\ y < (y \div b) * b + b
         /\ y < b => y \div b = 0
         /\ y >= b => y \div b >= 1
<1> DEFINE q == y \div b
<1>1. q \in Int /\ q * b <= y /\ y < q * b + b
  BY SMTT(20)
<1> HIDE DEF q
<1>2. q >= 0
  <2> SUFFICES ASSUME q <= -1 PROVE FALSE
    BY <1>1
  <2>1. q * b <= (-1) * b
    BY <1>1, SMTT(20)
  <2> QED BY <1>1, <2>1
<1>3. q <= q * b
  BY <1>1, <1>2, SMTT(20)
<1>4. y < b => q = 0
  <2> SUFFICES ASSUME y < b, q >= 1 PROVE FALSE
    BY <1>1, <1>2
  <2>1. q * b >= 1 * b
    BY <1>1, SMTT(20)
  <2> QED BY <1>1, <2>1
<1>5. y >= b => q >= 1
  BY <1>1, <1>2
<1> QED BY <1>1, <1>2, <1>3, <1>4, <1>5 DEF q

LEMMA Remainder ==
  ASSUME NEW u \in Nat \ {0}
  PROVE  /\ \A x \in Int : x % u \in 0..(u - 1)
         /\ \A x \in 0..(u - 1) : x % u = x
         /\ \A x \in u..(2 * u - 1) : x % u = x - u
         /\ (-1) % u = u - 1
BY SMTT(20)

\* The count of blocks behind the first, where it is one a disk has room for: with that one they
\* hold the header and the bytes the image claims, and no block more.
LEMMA BehindIsEnough ==
  ASSUME NEW size \in 0..(Ulong - 1), NEW k, k = Disks!BlocksBehind(size)
  PROVE  /\ k \in Nat
         /\ size + HeaderBytes <= Ulong /\ (k = 0 \/ k + 1 < Ulong) =>
              (k + 1) * DiskBlockSize \in
                (size + HeaderBytes)..(size + HeaderBytes + DiskBlockSize - 1)
<1> DEFINE u == Ulong
           b == DiskBlockSize
           n == size + HeaderBytes
           y == n + b - 1
           q == (y % u) \div b
<1>1. /\ u \in Nat \ {0} /\ 2 < u /\ b \in Nat \ {0} /\ b < u /\ n \in Nat /\ n >= 1
      /\ y \in Nat /\ y >= b
  BY DevHasSizes
<1>2. k = (q - 1) % u
  <2>1. n + b - 1 = size + HeaderBytes + DiskBlockSize - 1
    BY DevHasSizes
  <2> QED BY <2>1 DEF Disks!BlocksBehind
<1> HIDE DEF n, u, b
<1>3. y % u \in 0..(u - 1)
  BY <1>1, Remainder
<1>4. q \in Nat /\ q <= y % u
  BY <1>1, <1>3, Quotient
<1>5. k \in Nat
  BY <1>1, <1>2, <1>4, Remainder
<1>6. ASSUME n <= u, k = 0 \/ k + 1 < u
      PROVE  (k + 1) * b \in n..(n + b - 1)
  <2>1. CASE y < u
    <3>1. y % u = y
      <4>1. y \in 0..(u - 1)
        BY <1>1, <2>1
      <4> HIDE DEF y
      <4> QED BY <1>1, <4>1, Remainder
    <3>2. q >= 1 /\ q * b <= y /\ y < q * b + b
      BY <1>1, <3>1, Quotient
    <3>3. q - 1 \in 0..(u - 1)
      BY <1>1, <1>3, <1>4, <3>2
    <3>4. k + 1 = q
      <4> HIDE DEF q
      <4>1. k = q - 1
        BY <1>1, <1>2, <3>3, Remainder
      <4> QED BY <1>4, <4>1
    <3>5. q * b \in Int
      BY <1>1, <1>4
    <3>6. q * b >= n
      <4> DEFINE all == q * b
      <4> HIDE DEF all
      <4>1. all \in Int /\ n + b - 1 < all + b
        BY <3>2, <3>5 DEF all
      <4> QED BY <1>1, <4>1 DEF all
    <3> HIDE DEF q
    <3> QED BY <1>1, <3>2, <3>4, <3>5, <3>6
  <2>2. CASE y >= u
    <3>1. y \in u..(2 * u - 1) /\ y - u < b /\ y - u \in Nat
      BY <1>1, <1>6, <2>2
    <3>2. y % u = y - u
      BY <1>1, <3>1, Remainder
    <3>3. q = 0
      BY <1>1, <3>1, <3>2, Quotient
    <3>4. k = u - 1
      <4> HIDE DEF q
      <4>1. q - 1 = -1
        BY <3>3
      <4>2. k = (-1) % u
        BY <1>2, <4>1
      <4> QED BY <1>1, <4>2, Remainder
    <3> QED BY <1>1, <1>6, <3>4
  <2> QED BY <1>1, <2>1, <2>2
<1>7. n + b - 1 = size + HeaderBytes + DiskBlockSize - 1
  BY DevHasSizes DEF n, b
<1> QED BY <1>5, <1>6, <1>7 DEF n, u, b

\* The blocks of a disk read one after the other.
LEMMA BlocksJoin ==
  ASSUME NEW d, NEW b \in Nat, NEW m \in Nat
  PROVE  /\ Disks!Blocks(d, b, 1) \o Disks!Blocks(d, b + 1, m) = Disks!Blocks(d, b, m + 1)
         /\ Len(Disks!Blocks(d, b, m)) = m
<1> DEFINE S == {slot[d]} \X Int
           one == Disks!Blocks(d, b, 1)
           more == Disks!Blocks(d, b + 1, m)
           all == Disks!Blocks(d, b, m + 1)
<1>1. one \in Seq(S) /\ Len(one) = 1 /\ one[1] = <<slot[d], b>>
  BY DEF Disks!Blocks
<1>2. /\ more \in Seq(S) /\ Len(more) = m
      /\ \A i \in 1..m : more[i] = <<slot[d], b + i>>
  <2>1. \A i \in 1..m : b + 1 + i - 1 = b + i /\ b + i \in Int
    OBVIOUS
  <2>2. more = [i \in 1..m |-> <<slot[d], b + i>>]
    BY <2>1 DEF Disks!Blocks
  <2> HIDE DEF more
  <2> QED BY <2>1, <2>2
<1>3. /\ all \in Seq(S) /\ Len(all) = m + 1
      /\ \A i \in 1..(m + 1) : all[i] = <<slot[d], b + i - 1>>
  <2>1. \A i \in 1..(m + 1) : b + i - 1 \in Int
    OBVIOUS
  <2>2. all = [i \in 1..(m + 1) |-> <<slot[d], b + i - 1>>]
    BY DEF Disks!Blocks
  <2> HIDE DEF all
  <2> QED BY <2>1, <2>2
<1>4. Len(Disks!Blocks(d, b, m)) = m
  BY DEF Disks!Blocks
<1> HIDE DEF one, more, all
<1>5. /\ one \o more \in Seq(S) /\ Len(one \o more) = Len(one) + Len(more)
      /\ \A i \in 1..Len(one) + Len(more) :
           (one \o more)[i] = IF i <= Len(one) THEN one[i] ELSE more[i - Len(one)]
  BY <1>1, <1>2, ConcatProperties, Zenon
<1>6. /\ one \o more \in Seq(S) /\ Len(one \o more) = m + 1
      /\ \A i \in 1..(m + 1) : (one \o more)[i] = IF i <= 1 THEN one[i] ELSE more[i - 1]
  <2>1. 1 + m = m + 1
    OBVIOUS
  <2> QED BY <1>1, <1>2, <1>5, <2>1, Zenon
<1>7. ASSUME NEW i \in 1..(m + 1) PROVE (one \o more)[i] = all[i]
  <2>1. CASE i = 1
    <3>1. b + 1 - 1 = b /\ 1 \in 1..(m + 1) /\ 1 <= 1
      OBVIOUS
    <3>2. all[1] = <<slot[d], b + 1 - 1>>
      BY <1>3, <3>1, Zenon
    <3>3. (one \o more)[1] = one[1]
      BY <1>6, <3>1, Zenon
    <3> QED BY <1>1, <2>1, <3>1, <3>2, <3>3, Zenon
  <2>2. CASE i # 1
    <3>1. i - 1 \in 1..m /\ ~(i <= 1) /\ b + (i - 1) = b + i - 1
      BY <2>2
    <3>2. (one \o more)[i] = more[i - 1] /\ more[i - 1] = <<slot[d], b + (i - 1)>>
      BY <1>2, <1>6, <3>1
    <3> QED BY <1>3, <3>1, <3>2
  <2> QED BY <2>1, <2>2
<1>8. one \o more = all
  <2> DEFINE both == one \o more
  <2> HIDE DEF both
  <2>1. /\ both \in Seq(S) /\ all \in Seq(S) /\ Len(both) = Len(all)
        /\ \A i \in 1..Len(both) : both[i] = all[i]
    BY <1>3, <1>6, <1>7 DEF both
  <2>2. both = all
    BY <2>1, SeqEqual
  <2> QED BY <2>2 DEF both
<1> QED BY <1>4, <1>8 DEF one, more, all

LEMMA DevStarts == ASSUME Disks!Init PROVE DevInv
<1>1. /\ slot \in [Disks!Dev -> DOMAIN DiskTable \cup {NoDisk}]
      /\ ide_dev_desc = [d \in Disks!Dev |-> Disks!Unknown] /\ curr_device = -1
      /\ cmd = ResetOf(Disks!NoCmd)
  BY DEF ResetOf, Disks!Init, NoDisk
<1>2. cmd \in Cmds /\ cmd.kind = "reset" /\ cmd.at = "bus" /\ cmd.i = 0
  BY <1>1, NoCmdIs, CmdResets
<1>3. /\ ide_dev_desc \in [Disks!Dev -> [type : {"unknown", "disk"}, parts : BOOLEAN]]
      /\ \A d \in Disks!Dev : ide_dev_desc[d].type = "unknown"
  BY <1>1 DEF Disks!Unknown
<1>4. DevTyped
  BY <1>1, <1>2, <1>3 DEF DevTyped
<1> QED BY <1>1, <1>2, <1>3, <1>4 DEF DevInv, CurrentIsOne, NoDevice, BootFollows

\* A step that leaves the command alone.
LEMMA DevExchanges == ASSUME DevInv, Disks!Exchange PROVE DevInv'
<1>1. /\ cmd.at = "none" /\ UNCHANGED <<ide_dev_desc, curr_device, cmd, loaded, wrote>>
      /\ slot' \in [Disks!Dev -> DOMAIN DiskTable \cup {NoDisk}]
  BY DEF DevInv, DevTyped, Disks!Exchange, Disks!Idle, NoDisk, Disks!None
<1>2. DevTyped'
  BY <1>1 DEF DevInv, DevTyped
<1>3. CurrentIsOne' /\ NoDevice' /\ BootFollows'
  BY <1>1 DEF DevInv, CurrentIsOne, NoDevice, BootFollows
<1> QED BY <1>2, <1>3 DEF DevInv

LEMMA DevResets == ASSUME DevInv, Disks!Reset PROVE DevInv'
<1>1. /\ cmd' = ResetOf(Disks!NoCmd) /\ curr_device' = -1
      /\ slot' = slot
      /\ ide_dev_desc' = [d \in Disks!Dev |-> [ide_dev_desc[d] EXCEPT !.type = "unknown"]]
  BY DEF ResetOf, Disks!Reset, Disks!ForgetDevices
<1>2. cmd' \in Cmds /\ cmd'.kind = "reset" /\ cmd'.at = "bus" /\ cmd'.i = 0
  BY <1>1, NoCmdIs, CmdResets
<1>3. /\ ide_dev_desc' \in [Disks!Dev -> [type : {"unknown", "disk"}, parts : BOOLEAN]]
      /\ \A d \in Disks!Dev : ide_dev_desc'[d].type = "unknown"
  <2>1. ide_dev_desc \in [Disks!Dev -> [type : {"unknown", "disk"}, parts : BOOLEAN]]
    BY DEF DevInv, DevTyped
  <2> QED BY <1>1, <2>1
<1>4. DevTyped'
  BY <1>1, <1>2, <1>3 DEF DevInv, DevTyped
<1>5. CurrentIsOne' /\ NoDevice' /\ BootFollows'
  BY <1>1, <1>2, <1>3 DEF CurrentIsOne, NoDevice, BootFollows
<1> QED BY <1>4, <1>5 DEF DevInv

LEMMA DevAsksBus == ASSUME DevInv, Disks!AskBus PROVE DevInv'
<1>1. cmd.at = "bus" /\ UNCHANGED <<slot, ide_dev_desc, curr_device, loaded, wrote>>
  BY Zenon DEF Disks!AskBus
<1>2. /\ DevTyped /\ cmd \in Cmds /\ cmd.kind = "reset" /\ curr_device = -1 /\ cmd.i = 0
      /\ \A d \in Disks!Dev : ide_dev_desc[d].type = "unknown"
  BY <1>1 DEF DevInv, DevTyped, CurrentIsOne
<1>3. cmd' \in Cmds /\ cmd'.kind = "reset" /\ cmd'.at \in {"done", "ident"}
  <2>1. CASE cmd' = EndsWith(cmd, 0)
    BY <1>2, <2>1, CmdEnds
  <2>2. CASE \E ok \in BOOLEAN : cmd' = AsksFor(cmd, ok)
    BY <1>2, <2>2, CmdIdentifies
  <2> QED BY <2>1, <2>2, Zenon DEF Disks!AskBus, Disks!Finishes, EndsWith, AsksFor
<1>4. DevTyped'
  BY <1>1, <1>2, <1>3 DEF DevTyped
<1>5. CurrentIsOne' /\ NoDevice' /\ BootFollows'
  BY <1>1, <1>2, <1>3 DEF CurrentIsOne, NoDevice, BootFollows
<1> QED BY <1>4, <1>5 DEF DevInv

LEMMA DevIdentifies == ASSUME DevInv, Disks!Identify PROVE DevInv'
<1> DEFINE d == cmd.i
           Known == [type : {"unknown", "disk"}, parts : BOOLEAN]
<1>1. cmd.at = "ident" /\ UNCHANGED <<slot, loaded, wrote>>
  BY DEF Disks!Identify
<1>2. /\ DevTyped /\ cmd \in Cmds /\ cmd.kind = "reset" /\ d \in Disks!Dev /\ d \in Nat
      /\ curr_device \in Disks!Dev \cup {-1}
      /\ ide_dev_desc \in [Disks!Dev -> Known]
      /\ curr_device = -1 => \A e \in Disks!Dev : ide_dev_desc[e].type = "unknown"
      /\ \A e \in Disks!Dev : e >= d => ide_dev_desc[e].type = "unknown"
  BY <1>1, DevHasSizes DEF DevInv, DevTyped, CurrentIsOne, Cmds
<1>3. \E k \in Known :
        /\ ide_dev_desc' = [ide_dev_desc EXCEPT ![d] = k]
        /\ curr_device' \in Disks!Dev \cup {-1}
        /\ curr_device' = -1 =>
             k.type = "unknown" /\ (curr_device = -1 \/ d = 0)
  <2>1. CASE /\ ide_dev_desc' = [ide_dev_desc EXCEPT ![d] = Disks!Unknown]
             /\ curr_device' = IF d = 0 THEN -1 ELSE curr_device
    <3>1. Disks!Unknown \in Known /\ Disks!Unknown.type = "unknown"
      BY DEF Disks!Unknown
    <3> QED BY <1>2, <2>1, <3>1
  <2>2. CASE \E parts \in BOOLEAN :
               /\ ide_dev_desc' = [ide_dev_desc EXCEPT ![d] = Disks!Described(parts)]
               /\ curr_device' = Disks!Current(d)
    <3>1. PICK parts \in BOOLEAN :
               /\ ide_dev_desc' = [ide_dev_desc EXCEPT ![d] = Disks!Described(parts)]
               /\ curr_device' = Disks!Current(d)
      BY <2>2
    <3>2. Disks!Described(parts) \in Known
      BY DEF Disks!Described
    <3>3. curr_device' \in Disks!Dev
      <4>1. CASE curr_device < 0
        BY <1>2, <3>1, <4>1 DEF Disks!Current
      <4>2. CASE ~(curr_device < 0)
        <5>1. curr_device # -1
          BY <4>2
        <5> QED BY <1>2, <3>1, <4>2, <5>1 DEF Disks!Current
      <4> QED BY <4>1, <4>2
    <3>4. curr_device' # -1
      BY <3>3, DevHasSizes
    <3> QED BY <3>1, <3>2, <3>3, <3>4
  <2> QED BY <2>1, <2>2 DEF Disks!Identify
<1>4. PICK k \in Known :
        /\ ide_dev_desc' = [ide_dev_desc EXCEPT ![d] = k]
        /\ curr_device' \in Disks!Dev \cup {-1}
        /\ curr_device' = -1 => k.type = "unknown" /\ (curr_device = -1 \/ d = 0)
  BY <1>3
<1>5. /\ ide_dev_desc' \in [Disks!Dev -> Known]
      /\ ide_dev_desc'[d] = k
      /\ \A e \in Disks!Dev : e # d => ide_dev_desc'[e] = ide_dev_desc[e]
  BY <1>2, <1>4
<1>6. curr_device' = -1 => \A e \in Disks!Dev : ide_dev_desc'[e].type = "unknown"
  <2> SUFFICES ASSUME curr_device' = -1, NEW e \in Disks!Dev
               PROVE  ide_dev_desc'[e].type = "unknown"
    OBVIOUS
  <2>1. CASE e = d
    BY <1>4, <1>5, <2>1
  <2>2. CASE e # d
    <3>1. ide_dev_desc[e].type = "unknown"
      <4>1. CASE curr_device = -1
        BY <1>2, <4>1
      <4>2. CASE d = 0
        BY <1>2, <4>2, DevHasSizes
      <4> QED BY <1>4, <4>1, <4>2
    <3> QED BY <1>5, <2>2, <3>1
  <2> QED BY <2>1, <2>2
<1>7. \/ cmd' \in Cmds /\ cmd'.kind = "reset" /\ cmd'.at = "done"
      \/ cmd' \in Cmds /\ cmd'.kind = "reset" /\ cmd'.at = "ident" /\ cmd'.i = d + 1
  <2>1. CASE d = Devices - 1
    <3>1. cmd' = EndsWith(cmd, 0)
      BY <2>1 DEF Disks!Identify, Disks!Finishes, EndsWith
    <3> QED BY <1>2, <3>1, CmdEnds
  <2>2. CASE d # Devices - 1
    <3> DEFINE j == d + 1
    <3>1. j \in Disks!Dev
      BY <1>2, <2>2, DevHasSizes DEF Disks!Dev
    <3>2. cmd' = [cmd EXCEPT !.i = j]
      BY <2>2 DEF Disks!Identify
    <3> HIDE DEF j
    <3>3. cmd' \in Cmds /\ cmd'.kind = "reset" /\ cmd'.at = "ident" /\ cmd'.i = j
      BY <1>1, <1>2, <3>1, <3>2, CmdGoesOn
    <3> QED BY <3>3 DEF j
  <2> QED BY <2>1, <2>2
<1>8. DevTyped'
  BY <1>1, <1>2, <1>4, <1>5, <1>7 DEF DevTyped
<1>9. CurrentIsOne'
  <2>1. ASSUME cmd'.at = "ident", NEW e \in Disks!Dev, e >= cmd'.i
        PROVE  ide_dev_desc'[e].type = "unknown"
    <3>1. cmd'.i = d + 1
      BY <1>7, <2>1
    <3>2. e # d /\ e >= d
      BY <1>2, <2>1, <3>1, DevHasSizes
    <3> QED BY <1>2, <1>5, <3>2
  <2> QED BY <1>6, <1>7, <2>1 DEF CurrentIsOne
<1>10. NoDevice' /\ BootFollows'
  BY <1>7 DEF NoDevice, BootFollows
<1> QED BY <1>8, <1>9, <1>10 DEF DevInv

LEMMA DevSets ==
  ASSUME DevInv, NEW n \in Disks!Typed, Disks!SetDevice(n) PROVE DevInv'
<1> DEFINE a == IF n < 0 THEN "undefined" ELSE "done"
<1>1. cmd' = BeginsAs(Disks!NoCmd, "device", n, 0, a) /\ UNCHANGED <<slot, ide_dev_desc>>
  BY DEF Disks!SetDevice, Disks!Begin, BeginsAs
<1>2. n \in Int /\ a \in DevPlaces /\ a \in {"undefined", "done"} /\ "device" \in DevKinds
  BY DevHasSizes DEF Disks!Typed, Disks!Dev, DevPlaces, DevKinds
<1>3. cmd' \in Cmds /\ cmd'.kind = "device" /\ cmd'.dev = n /\ cmd'.at = a
  <2> DEFINE none == 0
             kind == "device"
  <2>1. none \in Disks!Partitions \cup {0}
    OBVIOUS
  <2>2. cmd' = BeginsAs(Disks!NoCmd, kind, n, none, a) /\ kind \in DevKinds
    BY <1>1, <1>2
  <2> HIDE DEF a, none, kind
  <2>3. /\ cmd' \in Cmds /\ cmd'.kind = kind /\ cmd'.dev = n /\ cmd'.part = none
        /\ cmd'.at = a
    BY <1>2, <2>1, <2>2, NoCmdIs DEF BeginsAs, Cmds
  <2> QED BY <2>3 DEF kind
<1>4. DevTyped /\ CurrentIsOne
  BY DEF DevInv
<1>5. /\ curr_device' \in Disks!Dev \cup {-1}
      /\ curr_device' = -1 => curr_device = -1
  <2>1. \/ n \in Disks!Dev /\ curr_device' = n
        \/ curr_device' = curr_device
    BY DEF Disks!SetDevice
  <2>2. -1 \notin Disks!Dev
    BY DevHasSizes
  <2> QED BY <1>4, <2>1, <2>2 DEF DevTyped
<1>6. DevTyped'
  BY <1>1, <1>2, <1>3, <1>4, <1>5 DEF DevTyped
<1>7. CurrentIsOne'
  BY <1>1, <1>2, <1>3, <1>4, <1>5 DEF CurrentIsOne
<1>8. NoDevice'
  <2>1. n < 0 => n \notin Disks!Dev
    BY <1>2 DEF Disks!Dev
  <2> QED BY <1>2, <1>3, <2>1 DEF NoDevice
<1>9. BootFollows'
  BY <1>2, <1>3 DEF BootFollows
<1> QED BY <1>6, <1>7, <1>8, <1>9 DEF DevInv

LEMMA DevBeginsMove ==
  ASSUME DevInv, NEW k \in {"read", "write"}, NEW n \in 0..2, Disks!BeginMove(k, 0, n)
  PROVE  DevInv'
<1> DEFINE a == IF curr_device \in Disks!Dev THEN "move" ELSE "undefined"
           from == curr_device
<1>1. /\ cmd' = MovesFrom(Disks!NoCmd, k, from, 0, n, a)
      /\ UNCHANGED <<slot, ide_dev_desc, curr_device>>
  BY DEF Disks!BeginMove, MovesFrom
<1>2. DevTyped /\ CurrentIsOne
  BY DEF DevInv
<1>3. /\ a \in DevPlaces /\ a \in {"undefined", "move"} /\ k \in DevKinds /\ n \in Nat
      /\ from \in Int /\ 0 \in Nat
  BY <1>2, DevHasSizes DEF DevTyped, DevPlaces, DevKinds
<1>4. cmd' \in Cmds /\ cmd'.kind = k /\ cmd'.dev = from /\ cmd'.at = a
  <2> HIDE DEF a, from
  <2> QED BY <1>1, <1>3, NoCmdIs, CmdMoves
<1>5. DevTyped'
  BY <1>1, <1>2, <1>3, <1>4 DEF DevTyped
<1>6. CurrentIsOne'
  BY <1>1, <1>2, <1>3, <1>4 DEF CurrentIsOne
<1>7. NoDevice'
  BY <1>1, <1>2, <1>3, <1>4 DEF NoDevice, DevTyped, CurrentIsOne
<1>8. BootFollows'
  BY <1>3, <1>4 DEF BootFollows
<1> QED BY <1>5, <1>6, <1>7, <1>8 DEF DevInv

LEMMA DevMoves == ASSUME DevInv, Disks!Move PROVE DevInv'
<1>1. cmd.at = "move" /\ UNCHANGED <<slot, ide_dev_desc, curr_device>>
  BY DEF Disks!Move
<1>2. DevTyped /\ cmd \in Cmds /\ cmd.kind \in {"read", "write"} /\ CurrentIsOne
  BY <1>1 DEF DevInv, DevTyped
<1>3. \E v \in {0, 1} : cmd' = EndsWith(cmd, v)
  BY DEF Disks!Move, Disks!Finishes, EndsWith
<1>4. cmd' \in Cmds /\ cmd'.kind = cmd.kind /\ cmd'.at = "done"
  BY <1>2, <1>3, CmdEnds
<1>5. DevTyped' /\ CurrentIsOne' /\ NoDevice' /\ BootFollows'
  BY <1>1, <1>2, <1>4 DEF DevTyped, CurrentIsOne, NoDevice, BootFollows
<1> QED BY <1>5 DEF DevInv

LEMMA DevBeginsBoot ==
  ASSUME DevInv, NEW d \in Disks!Typed, NEW p \in Disks!Partitions, Disks!BeginBoot(d, p)
  PROVE  DevInv'
<1> DEFINE a == IF d \in Disks!Dev THEN "table" ELSE "undefined"
<1>1. /\ cmd' = BeginsAs(Disks!NoCmd, "boot", d, p, a)
      /\ UNCHANGED <<slot, ide_dev_desc, curr_device>>
  BY DEF Disks!BeginBoot, Disks!Begin, BeginsAs
<1>2. DevTyped /\ CurrentIsOne
  BY DEF DevInv
<1>3. d \in Int /\ a \in DevPlaces /\ a \in {"undefined", "table"} /\ "boot" \in DevKinds
  BY DevHasSizes DEF Disks!Typed, Disks!Dev, DevPlaces, DevKinds
<1>4. cmd' \in Cmds /\ cmd'.kind = "boot" /\ cmd'.dev = d /\ cmd'.at = a
  <2> HIDE DEF a
  <2> QED BY <1>1, <1>3, NoCmdIs, CmdBegins
<1>5. DevTyped' /\ CurrentIsOne' /\ NoDevice' /\ BootFollows'
  BY <1>1, <1>2, <1>3, <1>4 DEF DevTyped, CurrentIsOne, NoDevice, BootFollows
<1> QED BY <1>5 DEF DevInv

LEMMA DevReturns == ASSUME DevInv, Disks!Returned PROVE DevInv'
<1>1. cmd' = Disks!NoCmd /\ UNCHANGED <<slot, ide_dev_desc, curr_device>>
  BY DEF Disks!Returned
<1>2. cmd' \in Cmds /\ cmd'.kind = "none" /\ cmd'.at = "none"
  BY <1>1, NoCmdIs DEF NoDisk, Disks!None
<1>3. DevTyped' /\ CurrentIsOne' /\ NoDevice' /\ BootFollows'
  BY <1>1, <1>2 DEF DevInv, DevTyped, CurrentIsOne, NoDevice, BootFollows
<1> QED BY <1>3 DEF DevInv

\* The block a partition begins in, and what an image there claims, are numbers.
LEMMA StartsInside ==
  ASSUME NEW disk \in DOMAIN DiskTable \cup {NoDisk}, NEW p, Disks!HasPart(disk, p)
  PROVE  /\ disk \in DOMAIN DiskTable /\ p \in DOMAIN DiskTable[disk].parts
         /\ DiskTable[disk].parts[p].start \in Nat
<1>1. disk # NoDisk /\ p \in DOMAIN DiskTable[disk].parts
  BY DEF Disks!HasPart, NoDisk
<1>2. disk \in DOMAIN DiskTable
  BY <1>1
<1>3. /\ DiskTable[disk].parts[p].start \in 0..(DiskTable[disk].blocks - 1)
      /\ DiskTable[disk].blocks \in 1..(Ulong - 1) /\ Ulong \in Nat
  BY <1>1, <1>2, DevHasSizes
<1> QED BY <1>1, <1>2, <1>3

LEMMA ImagesClaim ==
  ASSUME NEW disk \in DOMAIN DiskTable, NEW b, NEW i \in Disks!ImagesAt(disk, b)
  PROVE  /\ i.image /\ i.start = b /\ i.size \in 0..(Ulong - 1)
         /\ \A p \in DOMAIN DiskTable[disk].parts :
              DiskTable[disk].parts[p].start = b => DiskTable[disk].parts[p] = i
<1>1. PICK q \in DOMAIN DiskTable[disk].parts :
        /\ i = DiskTable[disk].parts[q]
        /\ DiskTable[disk].parts[q].start = b /\ DiskTable[disk].parts[q].image
  BY DEF Disks!ImagesAt
<1> QED BY <1>1, DevHasSizes

LEMMA DevFindsPart == ASSUME DevInv, Disks!FindPart PROVE DevInv'
<1>1. cmd.at = "table" /\ UNCHANGED <<slot, ide_dev_desc, curr_device, loaded, wrote>>
  BY DEF Disks!FindPart
<1>2. DevTyped /\ cmd \in Cmds /\ cmd.kind = "boot" /\ cmd.dev \in Disks!Dev /\ CurrentIsOne
  BY <1>1 DEF DevInv, DevTyped
<1>3. CASE cmd' = EndsWith(cmd, 1)
  <2>1. cmd' \in Cmds /\ cmd'.kind = "boot" /\ cmd'.at = "done" /\ cmd'.ret = 1
    BY <1>2, <1>3, CmdEnds
  <2>2. DevTyped' /\ CurrentIsOne' /\ NoDevice' /\ BootFollows'
    BY <1>1, <1>2, <2>1 DEF DevTyped, CurrentIsOne, NoDevice, BootFollows
  <2> QED BY <2>2 DEF DevInv
<1>4. CASE /\ Disks!HasPart(slot[0], cmd.part)
           /\ cmd' = FindsAt(cmd, DiskTable[slot[0]].parts[cmd.part].start)
  <2> DEFINE s == DiskTable[slot[0]].parts[cmd.part].start
  <2>1. slot[0] \in DOMAIN DiskTable \cup {NoDisk}
    BY <1>2, DevHasSizes DEF DevTyped
  <2>2. s \in Nat
    BY <1>4, <2>1, StartsInside
  <2>3. /\ cmd' \in Cmds /\ cmd'.kind = "boot" /\ cmd'.dev = cmd.dev /\ cmd'.part = cmd.part
        /\ cmd'.start = s /\ cmd'.at = "header"
    <3>1. cmd' = FindsAt(cmd, s)
      BY <1>4
    <3> HIDE DEF s
    <3> QED BY <1>2, <2>2, <3>1, CmdFinds
  <2>4. DevTyped' /\ CurrentIsOne' /\ NoDevice'
    <3> HIDE DEF s
    <3> QED BY <1>1, <1>2, <2>3 DEF DevTyped, CurrentIsOne, NoDevice
  <2>5. BootFollows'
    <3>1. /\ cmd'.dev \in Disks!Dev /\ Disks!HasPart(slot'[0], cmd'.part)
          /\ cmd'.start = DiskTable[slot'[0]].parts[cmd'.part].start
      BY <1>1, <1>2, <1>4, <2>3
    <3> QED BY <2>3, <3>1 DEF BootFollows
  <2> QED BY <2>4, <2>5 DEF DevInv
<1> QED BY <1>3, <1>4, Zenon DEF Disks!FindPart, Disks!Finishes, EndsWith, FindsAt

LEMMA DevReadsHeader == ASSUME DevInv, Disks!ReadHeader PROVE DevInv'
<1> DEFINE disk == slot[cmd.dev]
<1>1. cmd.at = "header" /\ UNCHANGED <<slot, ide_dev_desc, curr_device, wrote>>
  BY Zenon DEF Disks!ReadHeader
<1>2. /\ DevTyped /\ cmd \in Cmds /\ cmd.kind = "boot" /\ cmd.dev \in Disks!Dev /\ CurrentIsOne
      /\ disk \in DOMAIN DiskTable \cup {NoDisk}
  BY <1>1 DEF DevInv, DevTyped
<1>3. /\ Disks!HasPart(slot[0], cmd.part)
      /\ cmd.start = DiskTable[slot[0]].parts[cmd.part].start
  BY <1>1 DEF DevInv, BootFollows
<1>4. CASE cmd' = EndsWith(cmd, 1)
  <2>1. cmd' \in Cmds /\ cmd'.kind = "boot" /\ cmd'.at = "done" /\ cmd'.ret = 1
    BY <1>2, <1>4, CmdEnds
  <2>2. DevTyped' /\ CurrentIsOne' /\ NoDevice' /\ BootFollows'
    BY <1>1, <1>2, <2>1 DEF DevTyped, CurrentIsOne, NoDevice, BootFollows
  <2> QED BY <2>2 DEF DevInv
<1>5. CASE /\ disk # NoDisk /\ loaded' = Disks!Blocks(cmd.dev, cmd.start, 1)
           /\ \E i \in Disks!ImagesAt(disk, cmd.start) :
                cmd' = HasImage(cmd, Disks!BlocksBehind(i.size))
  <2>1. PICK i \in Disks!ImagesAt(disk, cmd.start) :
          cmd' = HasImage(cmd, Disks!BlocksBehind(i.size))
    BY <1>5
  <2> DEFINE k == Disks!BlocksBehind(i.size)
  <2>2. i.size \in 0..(Ulong - 1)
    BY <1>2, <1>5, ImagesClaim
  <2>3. k \in Nat
    BY <2>2, BehindIsEnough
  <2>4. /\ cmd' \in Cmds /\ cmd'.kind = "boot" /\ cmd'.dev = cmd.dev /\ cmd'.part = cmd.part
        /\ cmd'.start = cmd.start /\ cmd'.cnt = k /\ cmd'.at = "image"
    <3>1. cmd' = HasImage(cmd, k)
      BY <2>1
    <3> HIDE DEF k
    <3> QED BY <1>2, <2>3, <3>1, CmdHasImage
  <2>5. DevTyped' /\ CurrentIsOne' /\ NoDevice'
    <3> HIDE DEF k
    <3> QED BY <1>1, <1>2, <2>4 DEF DevTyped, CurrentIsOne, NoDevice
  <2>6. Loads(1)'
    <3>1. /\ slot'[cmd'.dev] # NoDisk
          /\ \E j \in Disks!ImagesAt(slot'[cmd'.dev], cmd'.start) :
               cmd'.cnt = Disks!BlocksBehind(j.size)
      BY <1>1, <1>5, <2>1, <2>4
    <3>2. loaded' = Disks!Blocks(cmd.dev, cmd.start, 1)'
      <4> HIDE DEF k
      <4> QED BY <1>1, <1>5, <2>4 DEF Disks!Blocks
    <3> QED BY <3>1, <3>2 DEF Loads
  <2>7. BootFollows'
    <3>1. /\ cmd'.dev \in Disks!Dev /\ Disks!HasPart(slot'[0], cmd'.part)
          /\ cmd'.start = DiskTable[slot'[0]].parts[cmd'.part].start
      BY <1>1, <1>2, <1>3, <2>4
    <3> QED BY <2>4, <2>6, <3>1 DEF BootFollows
  <2> QED BY <2>5, <2>7 DEF DevInv
<1>6. Disks!Moves(cmd.dev, cmd.start, 1, 1) => disk # NoDisk
  BY DEF Disks!Moves, NoDisk
<1> QED BY <1>4, <1>5, <1>6, Zenon DEF Disks!ReadHeader, Disks!Finishes, EndsWith, HasImage

LEMMA DevReadsImage == ASSUME DevInv, Disks!ReadImage PROVE DevInv'
<1> DEFINE disk == slot[cmd.dev]
           from == cmd.start + 1
<1>1. cmd.at = "image" /\ UNCHANGED <<slot, ide_dev_desc, curr_device, wrote>>
  BY Zenon DEF Disks!ReadImage
<1>2. PICK m \in 0..cmd.cnt :
        /\ Disks!Moves(cmd.dev, from, cmd.cnt, m)
        /\ loaded' = loaded \o Disks!Blocks(cmd.dev, from, m)
        /\ cmd' = EndsWith(cmd, IF m = cmd.cnt THEN 0 ELSE 1)
  BY Zenon DEF Disks!ReadImage, Disks!Finishes, EndsWith
<1>3. /\ DevTyped /\ cmd \in Cmds /\ cmd.kind = "boot" /\ cmd.dev \in Disks!Dev /\ CurrentIsOne
      /\ cmd.start \in Nat /\ cmd.cnt \in Nat
  BY <1>1 DEF DevInv, DevTyped, Cmds
<1>4. /\ Disks!HasPart(slot[0], cmd.part)
      /\ cmd.start = DiskTable[slot[0]].parts[cmd.part].start
      /\ Loads(1)
  BY <1>1 DEF DevInv, BootFollows
<1> DEFINE v == IF m = cmd.cnt THEN 0 ELSE 1
<1>5. /\ cmd' \in Cmds /\ cmd'.kind = "boot" /\ cmd'.dev = cmd.dev /\ cmd'.part = cmd.part
      /\ cmd'.start = cmd.start /\ cmd'.cnt = cmd.cnt /\ cmd'.at = "done" /\ cmd'.ret = v
  <2>1. v \in {0, 1} /\ cmd' = EndsWith(cmd, v)
    BY <1>2
  <2> HIDE DEF v
  <2> QED BY <1>3, <2>1, CmdEnds
<1>6. DevTyped' /\ CurrentIsOne' /\ NoDevice'
  BY <1>1, <1>3, <1>5 DEF DevTyped, CurrentIsOne, NoDevice
<1>7. ASSUME v = 0
      PROVE  /\ Loads(cmd.cnt + 1)'
             /\ cmd.cnt = 0 \/ from + cmd.cnt <= DiskTable[disk].blocks
  <2>1. m = cmd.cnt
    BY <1>7
  <2>2. loaded' = Disks!Blocks(cmd.dev, cmd.start, cmd.cnt + 1)
    <3>1. loaded = Disks!Blocks(cmd.dev, cmd.start, 1)
      BY <1>4 DEF Loads
    <3>2. loaded' = Disks!Blocks(cmd.dev, cmd.start, 1) \o Disks!Blocks(cmd.dev, from, cmd.cnt)
      BY <1>2, <2>1, <3>1
    <3> QED BY <1>3, <3>2, BlocksJoin
  <2>3. loaded' = Disks!Blocks(cmd.dev, cmd.start, cmd.cnt + 1)'
    BY <1>1, <1>5, <2>2 DEF Disks!Blocks
  <2>4. /\ disk # NoDisk
        /\ \E i \in Disks!ImagesAt(disk, cmd.start) : cmd.cnt = Disks!BlocksBehind(i.size)
    BY <1>4 DEF Loads
  <2>5. Loads(cmd.cnt + 1)'
    <3>1. /\ slot'[cmd'.dev] # NoDisk
          /\ \E i \in Disks!ImagesAt(slot'[cmd'.dev], cmd'.start) :
               cmd'.cnt = Disks!BlocksBehind(i.size)
      BY <1>1, <1>5, <2>4
    <3> QED BY <2>3, <3>1 DEF Loads
  <2>6. cmd.cnt = 0 \/ from + cmd.cnt <= DiskTable[disk].blocks
    BY <1>2, <2>1, <2>4 DEF Disks!Moves, NoDisk
  <2> QED BY <2>5, <2>6
<1>8. BootFollows'
  <2>1. /\ cmd'.dev \in Disks!Dev /\ Disks!HasPart(slot'[0], cmd'.part)
        /\ cmd'.start = DiskTable[slot'[0]].parts[cmd'.part].start
    BY <1>1, <1>3, <1>4, <1>5
  <2>2. ASSUME cmd'.ret = 0
        PROVE  /\ Loads(cmd.cnt + 1)'
               /\ cmd'.cnt = 0 \/ cmd'.start + 1 + cmd'.cnt <= DiskTable[slot'[cmd'.dev]].blocks
    <3>1. v = 0
      BY <1>5, <2>2
    <3> HIDE DEF v
    <3>2. /\ Loads(cmd.cnt + 1)'
          /\ cmd.cnt = 0 \/ from + cmd.cnt <= DiskTable[disk].blocks
      BY <1>7, <3>1
    <3> QED BY <1>1, <1>5, <3>2
  <2> QED BY <1>5, <2>1, <2>2 DEF BootFollows
<1> QED BY <1>6, <1>8 DEF DevInv

LEMMA DevNexts == ASSUME DevInv, Disks!Next PROVE DevInv'
<1>1. CASE \E n \in Disks!Typed : Disks!SetDevice(n)
  BY <1>1, DevSets
<1>2. CASE \E k \in {"read", "write"}, n \in 0..2 : Disks!BeginMove(k, 0, n)
  BY <1>2, DevBeginsMove
<1>3. CASE \E d \in Disks!Typed, p \in Disks!Partitions : Disks!BeginBoot(d, p)
  BY <1>3, DevBeginsBoot
<1> QED BY <1>1, <1>2, <1>3, DevExchanges, DevResets, DevAsksBus, DevIdentifies, DevReturns,
           DevMoves, DevFindsPart, DevReadsHeader, DevReadsImage DEF Disks!Next

LEMMA DevStays ==
  ASSUME DevInv, UNCHANGED <<slot, ide_dev_desc, curr_device, cmd, loaded, wrote>>
  PROVE  DevInv'
BY DEF DevInv, DevTyped, CurrentIsOne, NoDevice, BootFollows, Loads, Disks!Blocks

LEMMA DevBootsNamed == ASSUME DevInv PROVE Disks!BootsNamed
<1> DEFINE disk == slot[cmd.dev]
           claim == DiskTable[disk].parts[cmd.part]
<1>1. ASSUME cmd.kind = "boot", cmd.at = "done", cmd.ret = 0, Disks!SameStart(cmd.dev, cmd.part)
      PROVE  /\ claim.image
             /\ loaded = Disks!Blocks(cmd.dev, claim.start, Len(loaded))
             /\ claim.size + HeaderBytes <= Ulong =>
                  Len(loaded) * DiskBlockSize \in
                    (claim.size + HeaderBytes)..(claim.size + HeaderBytes + DiskBlockSize - 1)
  <2>1. /\ DevTyped /\ cmd.cnt \in Nat /\ cmd.start \in Nat /\ cmd.dev \in Disks!Dev
        /\ Disks!HasPart(slot[0], cmd.part)
        /\ cmd.start = DiskTable[slot[0]].parts[cmd.part].start
        /\ Loads(cmd.cnt + 1)
        /\ cmd.cnt = 0 \/ cmd.start + 1 + cmd.cnt <= DiskTable[disk].blocks
    BY <1>1 DEF DevInv, DevTyped, BootFollows, Cmds
  <2>2. disk \in DOMAIN DiskTable \cup {NoDisk} /\ Disks!HasPart(disk, cmd.part)
    BY <1>1, <2>1 DEF DevTyped, Disks!SameStart
  <2>3. /\ disk \in DOMAIN DiskTable /\ cmd.part \in DOMAIN DiskTable[disk].parts
        /\ claim.start = cmd.start
    <3>1. disk \in DOMAIN DiskTable /\ cmd.part \in DOMAIN DiskTable[disk].parts
      BY <2>2, StartsInside
    <3> QED BY <1>1, <2>1, <3>1 DEF Disks!SameStart
  <2>4. PICK i \in Disks!ImagesAt(disk, cmd.start) : cmd.cnt = Disks!BlocksBehind(i.size)
    BY <2>1 DEF Loads
  <2>5. i = claim /\ claim.image /\ claim.size \in 0..(Ulong - 1)
    BY <2>3, <2>4, ImagesClaim
  <2> DEFINE n == cmd.cnt + 1
  <2>6. loaded = Disks!Blocks(cmd.dev, cmd.start, n) /\ n \in Nat
    BY <2>1 DEF Loads
  <2>7. Len(loaded) = n
    <3> HIDE DEF n
    <3> QED BY <2>1, <2>6, BlocksJoin
  <2>8. cmd.cnt = 0 \/ cmd.cnt + 1 < Ulong
    BY <2>1, <2>3, DevHasSizes
  <2>9. claim.size + HeaderBytes <= Ulong =>
          n * DiskBlockSize \in
            (claim.size + HeaderBytes)..(claim.size + HeaderBytes + DiskBlockSize - 1)
    <3> DEFINE size == claim.size
               k == cmd.cnt
    <3>1. size \in 0..(Ulong - 1) /\ k = Disks!BlocksBehind(size) /\ (k = 0 \/ k + 1 < Ulong)
      BY <2>4, <2>5, <2>8
    <3> HIDE DEF size, k
    <3>2. size + HeaderBytes <= Ulong =>
            (k + 1) * DiskBlockSize \in
              (size + HeaderBytes)..(size + HeaderBytes + DiskBlockSize - 1)
      BY <3>1, BehindIsEnough
    <3> QED BY <3>2 DEF size, k
  <2>10. loaded = Disks!Blocks(cmd.dev, claim.start, Len(loaded))
    <3> HIDE DEF n, claim
    <3> QED BY <2>3, <2>6, <2>7
  <2> HIDE DEF n, claim
  <2> QED BY <2>5, <2>7, <2>9, <2>10
<1>2. ASSUME cmd.at = "undefined"
      PROVE  IF cmd.kind \in {"read", "write"}
               THEN \A d \in Disks!Dev : ide_dev_desc[d].type = "unknown"
               ELSE cmd.dev \notin Disks!Dev
  BY <1>2 DEF DevInv, NoDevice
<1> QED BY <1>1, <1>2 DEF Disks!BootsNamed

LEMMA DevRuns == [Next]_diskBoxVars => Disks!Next \/ UNCHANGED devVars
BY DEF Next, Runs, diskBoxVars, ataVars

\* do_diskboot: what it reports as loaded is the image of the partition named, from its first block
\* to its last byte, of the disk in the place named, for any disks, block and number sizes, exchanged
\* or not; and a command is undefined only where a number is no device or there is none.  The
\* exceptions are those BootsNamed names.
THEOREM BootsWhatIsNamed == Spec => []BootsNamed
<1>1. Init => DevInv
  BY DevStarts DEF Init
<1>2. DevInv /\ [Next]_diskBoxVars => DevInv'
  <2>1. UNCHANGED devVars => UNCHANGED <<slot, ide_dev_desc, curr_device, cmd, loaded, wrote>>
    BY DEF devVars
  <2> QED BY <2>1, DevRuns, DevNexts, DevStays
<1>3. DevInv => BootsNamed
  BY DevBootsNamed DEF BootsNamed
<1> QED BY <1>1, <1>2, <1>3, PTL DEF Spec, diskBoxVars
=============================================================================
