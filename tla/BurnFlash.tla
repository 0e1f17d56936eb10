------------------------------ MODULE BurnFlash ------------------------------
(***************************************************************************)
(* Burning a received image into the flash (board/ipbox/common/upgrade.c:  *)
(* burn_flash and the command dgsupdate, burn_flash_img).                  *)
(*                                                                         *)
(* A file with an image waits in the upgrade buffer.  burn_flash checks    *)
(* its header, decides whether it reaches into the boot loader at the top  *)
(* of the flash, and erases and writes first the boot loader and then the  *)
(* rest, calling the driver of module Flash.  Power may go at every step.  *)
(* Two contents with equal CRCs are equal here.                            *)
(***************************************************************************)
EXTENDS Flash

CONSTANTS
    BootBase,    \* CFG_MONITOR_BASE: the boot loader is the end of the flash
    SkipLen,     \* cells at the start of the loader the CRC leaves out (64 bytes)
    ScanStep,    \* distance of the places searched for a loader (0x2000 bytes)
    Scans,       \* their number (40)
    Mark,        \* a cell that reads "U-Boot"
    Stray,       \* what memory around the image's data holds
    Loaders,     \* contents of the boot area that start the box
    Images,      \* images a file may hold
    Factory      \* the flash as delivered

BootLen == Space - BootBase

\* fault: 0, or the errorno of the first check of the header or of the data
\* the image fails (CRCs, vendor, product, model and version).
ASSUME BurnConstants ==
    /\ FlashBase < BootBase /\ BootBase \in { Start[s] : s \in Sectors }
    /\ SkipLen \in 0 .. BootLen
    /\ ScanStep \in Nat \ {0} /\ Scans \in Nat
    /\ Mark \in Cell /\ Stray \in Cell
    /\ Loaders \subseteq [1 .. BootLen -> Cell]
    /\ \E i \in 0 .. Scans - 1 : ScanStep * i = BootLen
    /\ \A l \in Loaders : l[1] = Mark
    /\ \A img \in Images :
          /\ img \in [fault : 0 .. 5, start : Nat, erase : Nat, data : Seq(Cell)]
          /\ img.start < Space /\ img.erase < Space /\ Len(img.data) < Space
    /\ Factory \in [Cells -> Cell]
    /\ [i \in 1 .. BootLen |-> Factory[BootBase + i - 1]] \in Loaders

VARIABLES
    buffer,    \* the file in the upgrade buffer
    pc,        \* where burn_flash is
    nbErase,   \* nb_erase_size
    nbData,    \* nb_data_size
    ret,       \* burn_flash's ret
    status,    \* upg_buffer_status
    errorno,   \* upg_buffer_errorno
    tries,     \* boot_try_fail, which is compared with 2 only
    shown,     \* the last message about the outcome
    risk       \* history: why the boot area may hold no loader

burnVars == <<buffer, pc, nbErase, nbData, ret, status, errorno, tries, shown, risk>>
vars == <<flashVars, burnVars>>

Files == { [name |-> n, zipped |-> z, img |-> i] :
             n \in {"plain", "gz", "other"}, z \in BOOLEAN, i \in Images }

PCs == {"idle", "check", "eraseBoot", "writeBoot", "eraseBody", "writeBody",
        "witherr", "terminate", "dead", "undefined"}

TypeOK ==
    /\ FlashTypeOK
    /\ buffer \in Files
    /\ pc \in PCs
    /\ nbErase \in 0 .. Space - 1 /\ nbData \in 0 .. Space - 1
    /\ ret \in {0, 2, 3}
    /\ status \in {"UNUSED", "ERASE", "WRITE"}
    /\ errorno \in {0, 1, 2, 3, 4, 5, 8, 9, 10}
    /\ tries \in 0 .. 2
    /\ shown \in {"nothing", "warning", "wrongFile", "completed"}
    /\ risk \in {"no", "open", "told", "unfit", "failed"}
    /\ op.kind # "returned" => pc \in {"eraseBoot", "writeBoot", "eraseBody", "writeBody"}

-----------------------------------------------------------------------------
img  == buffer.img
size == Len(img.data)
DataAt(i) == IF i \in 1 .. size THEN img.data[i] ELSE Stray
Data == [i \in 1 .. Space |-> DataAt(i)]

\* A bug: takes the cell behind the range for its last.
EndsAtBoot == Wrap(img.start + img.erase) >= BootBase
EndsInBoot == Wrap(img.start + img.erase - 1) >= BootBase

\* The loader is taken from the end of the data.
LoaderAt(i) == DataAt(size - BootLen + i)
LoaderData == [i \in 1 .. Space |-> LoaderAt(i)]
LoaderFound == \E i \in 0 .. Scans - 1 : DataAt(size - ScanStep * i + 1) = Mark
SameLoaderHead == \A i \in 1 .. SkipLen : flash[BootBase + i - 1] = LoaderAt(i)   \* a bug
SameLoader  == \A i \in SkipLen + 1 .. BootLen : flash[BootBase + i - 1] = LoaderAt(i)

BootArea(f) == [i \in 1 .. BootLen |-> f[BootBase + i - 1]]

\* An image the header of which agrees with the flash and with its data.
BootFit(i) == /\ i.start <= BootBase /\ i.start + i.erase = Space
              /\ Len(i.data) >= BootLen /\ i.start + Len(i.data) <= Space
              /\ [k \in 1 .. BootLen |-> i.data[Len(i.data) - BootLen + k]] \in Loaders
BodyFit(i) == /\ i.start + i.erase <= BootBase
              /\ Len(i.data) <= i.erase
Fit(i) == /\ i.erase > 0
          /\ \E s, t \in Sectors : /\ Start[s] = i.start
                                   /\ SectorEnd(t) = i.start + i.erase - 1
          /\ BootFit(i) \/ BodyFit(i)

Init ==
    /\ protected \in Protections
    /\ flash = Factory /\ op = Returned(0) /\ failed = FALSE
    /\ buffer \in { f \in Files : f.name = "other" /\ ~f.zipped }
    /\ pc = "idle" /\ nbErase = 0 /\ nbData = 0
    /\ ret = 0 /\ status = "UNUSED" /\ errorno = 0 /\ tries = 0
    /\ shown = "nothing" /\ risk = "no"

-----------------------------------------------------------------------------
\* A download, by any of the ways the boot loader knows, fills the buffer.
LoadBuffer ==
    /\ pc = "idle"
    /\ buffer' \in { f \in Files : f.zipped => f.name = "gz" }
    /\ UNCHANGED <<flashVars, pc, nbErase, nbData, ret, status, errorno, tries, shown, risk>>

\* burn_flash_img returns at once if the file is of another model.  It unpacks
\* a compressed image in place.  The name stays, so that a second dgsupdate,
\* like a damaged file, makes gunzip fail; its result is not looked at, and
\* memcpy copies a length nobody has set.
BurnFlashImg ==
    /\ pc = "idle" /\ buffer.name # "other"
    /\ buffer' = [buffer EXCEPT !.zipped = FALSE]
    /\ pc' = IF buffer.name = "gz" /\ ~buffer.zipped THEN "undefined" ELSE "check"
    /\ UNCHANGED <<flashVars, nbErase, nbData, ret, status, errorno, tries, shown, risk>>

FailsSilently(r, e) == pc' = "witherr" /\ ret' = 3 /\ errorno' = e   \* a bug
Fails(r, e) == pc' = "witherr" /\ ret' = r /\ errorno' = e

Refuse ==
    /\ pc = "check" /\ img.fault # 0
    /\ Fails(3, img.fault)
    /\ UNCHANGED <<flashVars, buffer, nbErase, nbData, status, tries, shown, risk>>

-----------------------------------------------------------------------------
Completed == pc' = "terminate" /\ shown' = "completed" /\ UNCHANGED status

\* burn_flash from its second flash_write on, and from do_flash on, where the
\* data not of the boot loader is e cells to erase and d to write.
WriteBody(d) ==
    \/ d # 0 /\ pc' = "writeBody" /\ status' = "WRITE" /\ UNCHANGED shown
             /\ CallWrite(img.start, d, Data)
    \/ d = 0 /\ Completed /\ op' = Returned(0)
DoFlash(e, d) ==
    \/ e # 0 /\ pc' = "eraseBody" /\ status' = "ERASE" /\ UNCHANGED shown
             /\ CallErase(img.start, Wrap(img.start + e - 1))
    \/ e = 0 /\ WriteBody(d)

\* flash_write of the loader gets an end address for a count.
WriteLoader ==
    /\ pc' = "writeBoot" /\ status' = "WRITE" /\ UNCHANGED shown
    /\ CallWrite(BootBase, Space - 1, LoaderData)

Risk(r) == risk' = IF Fit(img) THEN r ELSE "unfit"

\* A chip that protects one sector of the loader and not another.
BootSectors == { s \in Sectors : Start[s] >= BootBase }
PartlyProtected == protected \cap BootSectors \notin { {}, BootSectors }

BurnBodyOnly ==
    /\ pc = "check" /\ img.fault = 0 /\ ~EndsInBoot
    /\ nbErase' = img.erase /\ nbData' = size
    /\ DoFlash(img.erase, size)
    /\ Risk(risk)
    /\ UNCHANGED <<protected, flash, failed, buffer, ret, errorno, tries>>

BodyEraseWhole == img.erase   \* a bug: the body's range is not shortened
BodyErase == Wrap(BootBase - img.start)
BodyData  == Wrap(size - BootLen)

\* An image that reaches into the boot loader and in which no loader is found
\* is refused the first time and burnt the second.
RefuseLoader ==
    /\ pc = "check" /\ img.fault = 0 /\ EndsInBoot
    /\ ~LoaderFound /\ tries = 0
    /\ nbErase' = BodyErase /\ nbData' = BodyData
    /\ tries' = 1
    /\ Fails(3, 10)
    /\ UNCHANGED <<flashVars, buffer, status, shown, risk>>

BurnWithLoader ==
    /\ pc = "check" /\ img.fault = 0 /\ EndsInBoot
    /\ nbErase' = BodyErase /\ nbData' = BodyData
    /\ \/ ~LoaderFound /\ tries > 0 /\ tries' = 2 /\ ret' = 3
       \/ LoaderFound /\ tries' = 0 /\ UNCHANGED ret
    /\ \/ /\ img.erase # 0 /\ SameLoader
          /\ DoFlash(BodyErase, BodyData)
          /\ Risk(risk)
       \/ /\ img.erase # 0 /\ ~SameLoader
          /\ pc' = "eraseBoot" /\ status' = "ERASE" /\ UNCHANGED shown
          /\ CallErase(BootBase, Space - 1)
          /\ Risk("open")
       \/ /\ img.erase = 0 /\ size # 0
          /\ WriteLoader
          /\ Risk("open")
       \/ /\ img.erase = 0 /\ size = 0
          /\ DoFlash(BodyErase, BodyData)
          /\ Risk(risk)
    /\ UNCHANGED <<protected, flash, failed, buffer, errorno>>

Ends(place) == pc = place /\ op.kind = "returned"

BootErased ==
    /\ Ends("eraseBoot")
    /\ IF op.rc # 0 THEN Fails(2, 8) /\ UNCHANGED <<op, status, shown>>
       ELSE /\ \/ size # 0 /\ WriteLoader
               \/ size = 0 /\ DoFlash(nbErase, nbData)
            /\ UNCHANGED <<ret, errorno>>
    /\ UNCHANGED <<protected, flash, failed, buffer, nbErase, nbData, tries, risk>>

BootWritten ==
    /\ Ends("writeBoot")
    /\ IF op.rc # 0 THEN Fails(2, 9) /\ UNCHANGED <<op, status, shown, risk>>
       ELSE /\ DoFlash(nbErase, nbData)
            /\ Risk(IF failed \/ PartlyProtected THEN "failed" ELSE "no")
            /\ UNCHANGED <<ret, errorno>>
    /\ UNCHANGED <<protected, flash, failed, buffer, nbErase, nbData, tries>>

BodyErased ==
    /\ Ends("eraseBody")
    /\ IF op.rc # 0 THEN Fails(2, 8) /\ UNCHANGED <<op, status, shown>>
       ELSE WriteBody(nbData) /\ UNCHANGED <<ret, errorno>>
    /\ UNCHANGED <<protected, flash, failed, buffer, nbErase, nbData, tries, risk>>

BodyWritten ==
    /\ Ends("writeBody")
    /\ IF op.rc # 0 THEN Fails(2, 9) /\ UNCHANGED <<status, shown>>
       ELSE Completed /\ UNCHANGED <<ret, errorno>>
    /\ UNCHANGED <<flashVars, buffer, nbErase, nbData, tries, risk>>

\* The label terminate_witherr: the user is warned after a flash error only.
TerminateWithErr ==
    /\ pc = "witherr"
    /\ pc' = "terminate"
    /\ shown' = IF ret = 2 THEN "warning" ELSE "wrongFile"
    /\ risk' = IF ret = 2 /\ risk = "open" THEN "told" ELSE risk
    /\ UNCHANGED <<flashVars, buffer, nbErase, nbData, ret, status, errorno, tries>>

\* burn_flash returns ret; its variables are gone.
Terminate ==
    /\ pc = "terminate"
    /\ pc' = "idle" /\ status' = "UNUSED"
    /\ nbErase' = 0 /\ nbData' = 0 /\ ret' = 0
    /\ op' = Returned(0) /\ failed' = FALSE /\ shown' = "nothing"
    /\ UNCHANGED <<protected, flash, buffer, errorno, tries, risk>>

DriverStep == FlashStep /\ UNCHANGED burnVars

\* The box starts again if the boot area holds a loader; all memory is lost.
PowerLoss ==
    /\ pc \notin {"dead", "undefined"}
    /\ flash' \in AfterPowerLoss
    /\ op' = Returned(0) /\ failed' = FALSE /\ UNCHANGED protected
    /\ pc' = IF BootArea(flash') \in Loaders THEN "idle" ELSE "dead"
    /\ buffer' \in { f \in Files : f.name = "other" /\ ~f.zipped }
    /\ nbErase' = 0 /\ nbData' = 0 /\ ret' = 0 /\ status' = "UNUSED"
    /\ errorno' = 0 /\ tries' = 0 /\ shown' = "nothing"
    /\ risk' = IF BootArea(flash') \in Loaders THEN "no" ELSE risk

Burn == \/ BurnFlashImg \/ Refuse \/ BurnBodyOnly
        \/ RefuseLoader \/ BurnWithLoader \/ BootErased \/ BootWritten
        \/ BodyErased \/ BodyWritten \/ TerminateWithErr \/ Terminate
        \/ DriverStep

Next == LoadBuffer \/ Burn \/ PowerLoss

Spec == Init /\ [][Next]_vars

-----------------------------------------------------------------------------
\* Outside the window in which burn_flash replaces the loader, the box would
\* start if the power went now.  The window opens with the message not to turn
\* off the power; only a flash error, a failing chip, one that protects a part of
\* the loader, or an image that is no proper one leaves it open.
Bootable == risk = "no" => BootArea(flash) \in Loaders

\* burn_flash returns with the loader half replaced only after the warning that
\* the box may not boot ("told"), except that it reports a burn as completed, and
\* warns of nothing, where the chip did not do what it was told and the driver
\* did not look (an erase that timed out, a loader protected in part: "failed"),
\* and where the image was no proper one ("unfit").
NoSilentLoss ==
    pc = "idle" /\ BootArea(flash) \notin Loaders => risk \in {"told", "failed", "unfit"}

\* When burn_flash reports that it completed, the flash holds all the data of a
\* proper image, except the head of a loader it took for the same one: whatever
\* an earlier burn or a loss of power left there.
Stored(i) ==
    LET n == Len(i.data)
        b == IF i.start + i.erase = Space THEN n - BootLen ELSE n
    IN  /\ \A k \in 1 .. b : flash[i.start + k - 1] = i.data[k]
        /\ i.start + i.erase = Space =>
             \A k \in SkipLen + 1 .. BootLen :
                 flash[BootBase + k - 1] = i.data[n - BootLen + k]
CompletedStored ==
    (pc = "terminate" /\ shown = "completed" /\ Fit(img) /\ ~failed /\ protected = {})
        => Stored(img)

\* A proper image is never turned down with a flash error by a chip that works
\* and has no protected sector, whatever the flash held before.
NoSpuriousError ==
    (pc = "witherr" /\ ret = 2 /\ Fit(img) /\ protected = {}) => failed

\* A burn changes nothing outside the range its header names for erasing, and a
\* refused image changes nothing.
InRange(c) == c \in img.start .. img.start + img.erase - 1
OnlyTarget ==
    [][(pc # "idle" /\ (Fit(img) \/ img.fault # 0)) =>
          \A c \in Cells : flash'[c] # flash[c] => InRange(c) /\ img.fault = 0]_vars

\* The comment on write_buff and write_word: they return 2 when the flash was
\* not erased, 0 when the data is in the flash.
WordIsWritten ==
    (pc = "terminate" /\ shown = "completed" /\ ~failed /\ ~EndsInBoot /\ protected = {}) =>
        \A k \in 1 .. size : flash[img.start + k - 1] = img.data[k]
=============================================================================
