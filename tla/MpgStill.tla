------------------------------ MODULE MpgStill ------------------------------
(***************************************************************************)
(* board/dbox2/mpgstill.c: the decoder of the boot logo, one picture of an *)
(* MPEG video.  It knows neither the length of its source nor, but for the *)
(* distance between two lines, the size of the screen.  The source is      *)
(* external: it emits one unit at a time, as the standard has it or        *)
(* damaged.  A unit is a start code with the fields behind it or a         *)
(* macroblock; of the samples there are the sums of their DC differences   *)
(* and one of chrominance, and a place of the screen is as large as a      *)
(* macroblock.                                                             *)
(***************************************************************************)
EXTENDS Integers, FiniteSetsExt, SequencesExt

CONSTANTS
  Sizes,        \* owid and ohgt of a picture, in pixels
  ScreenWidth, ScreenHeight,   \* X_RESOLUTION and Y_RESOLUTION, in macroblocks
  Blocks,       \* the runs of a block's coefficients, before its end of block
  Samples,      \* what a chrominance sample may be behind idctrow2
  MaxUnits      \* units before the picture, and before its first slice

StillSizes == /\ Samples \subseteq Int
              /\ ScreenWidth \in Nat \ {0} /\ ScreenHeight \in Nat \ {0} /\ MaxUnits \in Nat
              /\ \A s \in Sizes : s[1] \in Nat /\ s[2] \in Nat

VARIABLES
  src,    \* the source: whether it is well made, the size, what it has emitted
  dec,    \* the decoder: where it is, MBA, MBAmax, qscale, dctpred, its result
  screen, \* the macroblock last drawn at each place, 0 for none
  wild    \* whether anything was drawn behind the screen, or a block overrun

vars == <<src, dec, screen, wild>>

Mbs(pixels) == (pixels + 15) \div 16
Places      == 0..(ScreenWidth * ScreenHeight - 1)
Sum(widths) == FoldSeq(+, 0, widths)

---------------------------------------------------------------------------
(* Headers: the widths of the fields up to one, by the standard and as read *)

TypeAt     == Sum(<<10>>)
LoadAt     == Sum(<<12, 12, 4, 4, 18, 1, 10, 1>>)
TypeRead   == Sum(<<10>>)
LoadRead   == Sum(<<12, 12, 38>>)

(* What is read at a place: what is there, or anything. *)
Read(value, there, read) == IF there = read THEN {value} ELSE BOOLEAN

(* The colour tables, at their place in tabs, in bytes: the end of vrtab lies in *)
(* vgtab, and wins for the samples of the first entries of vgtab.                *)
VrTab == 10320
VgTab == 14336
Overwritten == {v \in -512..511 : VgTab + 4 * v < VrTab + 4 * 512}

(* A sample the tables have a colour for.  It is not clamped before it is looked *)
(* up; a decoder of the standard keeps nine bits of it.                          *)
InTables(sample) == sample \in (-512..511) \ Overwritten
NineBits == -256..255

---------------------------------------------------------------------------
(* Blocks *)

(* The tables for a code of 16 bits, from the longest codes' to the shortest's: *)
(* the least code, the bits not looked at, what is subtracted, and the entries. *)
Tables == << [from |-> 16, drop |-> 1, less |-> 16, size |-> 16],
             [from |-> 32, drop |-> 2, less |-> 16, size |-> 16],
             [from |-> 64, drop |-> 4, less |-> 16, size |-> 16],
             [from |-> 128, drop |-> 8, less |-> 16, size |-> 16],
             [from |-> 256, drop |-> 16, less |-> 16, size |-> 16],
             [from |-> 512, drop |-> 64, less |-> 8, size |-> 8],
             [from |-> 1024, drop |-> 256, less |-> 4, size |-> 60],
             [from |-> 16384, drop |-> 4096, less |-> 4, size |-> 12] >>

TableOf(code) == Max({k \in DOMAIN Tables : code >= Tables[k].from})
Entry(code)   == LET t == Tables[TableOf(code)] IN code \div t.drop - t.less

(* The same for the DC codes of 10 bits, of luminance and of chrominance. *)
DcEntry(comp, code) ==
  IF code < 992 THEN code \div 32 ELSE IF comp = 0 THEN code \div 2 - 496 ELSE code - 992
DcSize(comp, code)  == IF code < 992 THEN 31 ELSE IF comp = 0 THEN 16 ELSE 32

(* A block's indexes: behind each run one coefficient. *)
Index(runs, k) == Sum(SubSeq(runs, 1, k)) + k

(* A mutant of Overruns: one coefficient too many. *)
OverrunsLate(i) == i > 64

Overruns(i) == i >= 64

(* getidctblock: the indexes it writes, and whether it returns 1. *)
Writes(runs) ==
  {Index(runs, k) : k \in {k \in DOMAIN runs : \A j \in 1..k : ~Overruns(Index(runs, j))}}
BlockOk(runs) == \A k \in DOMAIN runs : ~Overruns(Index(runs, k))
Whole(runs)   == \A k \in DOMAIN runs : Index(runs, k) < 64

CompOf(i) == IF i < 4 THEN 0 ELSE i - 3

---------------------------------------------------------------------------
MbWidth  == Mbs(src.w)
MBAmax   == MbWidth * Mbs(src.h)
NoPred   == [c \in 0..2 |-> 0]
Failed   == dec' = [dec EXCEPT !.pc = "done", !.ret = 0]
Finished == dec' = [dec EXCEPT !.pc = "done", !.ret = 1]

Init ==
  /\ \E s \in Sizes : src = [well |-> TRUE, w |-> s[1], h |-> s[2], load |-> FALSE, n |-> 0, ext |-> FALSE,
                             mb |-> 0, q |-> 0, pred |-> NoPred]
  /\ dec = [pc |-> "sequence", load |-> FALSE, MBA |-> 0, q |-> 0, pred |-> NoPred, ret |-> -1]
  /\ screen = [p \in Places |-> 0]
  /\ wild = FALSE

Damaged == src' = [src EXCEPT !.well = FALSE]

(* The sequence header, with or without matrices; anything else is refused. *)
Sequence ==
  /\ dec.pc = "sequence"
  /\ \/ \E load \in BOOLEAN : \E seen \in Read(load, LoadAt, LoadRead) :
          /\ src' = [src EXCEPT !.load = load]
          /\ dec' = [dec EXCEPT !.pc = "units", !.load = seen]
     \/ Damaged /\ Failed
  /\ UNCHANGED <<screen, wild>>

(* Up to the picture: groups and user data are skipped, and what follows a wrong *)
(* field is looked for the next start code.                                      *)
Unit ==
  /\ dec.pc = "units"
  /\ \/ src.n < MaxUnits /\ src' = [src EXCEPT !.n = @ + 1] /\ UNCHANGED dec
     \/ src' = [src EXCEPT !.n = 0] /\ dec' = [dec EXCEPT !.pc = "picture"]
     \/ Damaged /\ Failed
  /\ UNCHANGED <<screen, wild>>

(* The picture header, of an intra picture or of another; its extra information   *)
(* is skipped.                                                                   *)
Picture ==
  /\ dec.pc = "picture"
  /\ \E intra \in BOOLEAN :
       /\ src' = [src EXCEPT !.well = @ /\ intra]
       /\ \E seen \in Read(intra, TypeAt, TypeRead) :
            IF seen THEN dec' = [dec EXCEPT !.pc = "user"] ELSE Failed
  /\ UNCHANGED <<screen, wild>>

(* User data behind it. *)
User ==
  /\ dec.pc = "user"
  /\ \/ src.n < MaxUnits /\ src' = [src EXCEPT !.n = @ + 1] /\ UNCHANGED dec
     \/ dec' = [dec EXCEPT !.pc = "start"] /\ UNCHANGED src
  /\ UNCHANGED <<screen, wild>>

(* A start code where a macroblock could be: the end when all of them were drawn. *)
Break ==
  /\ dec.pc \in {"start", "macroblock"} /\ dec.MBA >= MBAmax
  /\ src' = [src EXCEPT !.well = @ /\ src.mb = MBAmax]
  /\ Finished
  /\ UNCHANGED <<screen, wild>>

(* An extension before the first slice, or any other code. *)
Extension ==
  /\ dec.pc \in {"start", "macroblock"} /\ dec.MBA < MBAmax /\ ~src.ext
  /\ src' = [src EXCEPT !.ext = TRUE, !.well = @ /\ dec.pc = "start"]
  /\ dec' = [dec EXCEPT !.pc = "again"]
  /\ UNCHANGED <<screen, wild>>

OtherCode ==
  /\ dec.pc \in {"start", "again", "macroblock"} /\ dec.MBA < MBAmax
  /\ Damaged /\ Failed
  /\ UNCHANGED <<screen, wild>>

(* A mutant of SliceAt: the code of the first slice is 0x101. *)
FromOne(row) == (row + 1) * MbWidth

SliceAt(row) == row * MbWidth

(* A slice begins a row, at any place: nothing but a macroblock is read behind   *)
(* its header, which fails if that is not there or too far.  A well made  source   *)
(* emits slices in order, and each begins where the one before it ended.         *)
Slice ==
  /\ dec.pc \in {"start", "again", "macroblock"} /\ dec.MBA < MBAmax
  /\ \E row \in 0..Mbs(src.h), q \in 1..2 :
       /\ src' = [src EXCEPT !.well = @ /\ row * MbWidth = src.mb, !.mb = row * MbWidth,
                             !.q = q, !.pred = NoPred]
       /\ dec' = [dec EXCEPT !.pc = "slice", !.MBA = SliceAt(row), !.q = q, !.pred = NoPred]
  /\ UNCHANGED <<screen, wild>>

(* Where pp is on the screen, and whether it is there at all: of a picture that is *)
(* too wide the next line begins before the end of this one.                       *)
PlaceOf(mba) == (mba \div MbWidth) * ScreenWidth + (mba % MbWidth)
OnScreen(mba) == mba % MbWidth < ScreenWidth /\ mba \div MbWidth < ScreenHeight

(* A macroblock, with or without a new qscale, of which one block may differ.     *)
(* What is drawn is known by where it belongs if it was dequantised and predicted *)
(* as it was coded, and coloured by an entry of the tables that is a colour.  Of  *)
(* a well made source no sample leaves the nine bits it should be clamped to.     *)
Macroblock ==
  /\ dec.pc \in {"slice", "macroblock"}
  /\ \E runs \in Blocks, q \in 0..2, sample \in Samples :
       LET pred(p) == [c \in 0..2 |-> p[c] + Cardinality({b \in 0..5 : CompOf(b) = c})]
           same    == /\ dec.load = src.load /\ dec.q = src.q /\ dec.pred = src.pred
                      /\ InTables(sample)
       IN /\ src' = [src EXCEPT !.well = @ /\ Whole(runs) /\ sample \in NineBits
                                        /\ src.mb < MBAmax,
                                !.mb = @ + 1, !.q = IF q = 0 THEN @ ELSE q, !.pred = pred(@)]
          /\ wild' = (wild \/ Writes(runs) \ 1..63 # {}
                      \/ (dec.MBA < MBAmax /\ BlockOk(runs) /\ ~OnScreen(dec.MBA)))
          /\ IF dec.MBA >= MBAmax \/ ~BlockOk(runs)
             THEN Failed /\ UNCHANGED screen
             ELSE /\ dec' = [dec EXCEPT !.pc = "macroblock", !.MBA = @ + 1, !.q = IF q = 0 THEN @ ELSE q,
                                        !.pred = pred(@)]
                  /\ screen' = IF OnScreen(dec.MBA)
                               THEN [screen EXCEPT ![PlaceOf(dec.MBA)] =
                                       IF same THEN src.mb + 1 ELSE -1]
                               ELSE screen

(* One whose address or type is not what the decoder knows, or with a wrong code. *)
BadMacroblock ==
  /\ dec.pc \in {"slice", "macroblock"}
  /\ Damaged /\ Failed
  /\ UNCHANGED <<screen, wild>>

(* No start code follows any more: the decoder goes on looking behind its source. *)
Lost ==
  /\ dec.pc \in {"units", "user", "again"} \/ (dec.pc = "macroblock" /\ dec.MBA < MBAmax)
  /\ Damaged
  /\ dec' = [dec EXCEPT !.pc = "lost"]
  /\ UNCHANGED <<screen, wild>>

Next == \/ Sequence \/ Unit \/ Picture \/ User \/ Break \/ Extension \/ OtherCode \/ Slice
        \/ Macroblock \/ BadMacroblock \/ Lost

---------------------------------------------------------------------------
StillTypeOK ==
  /\ src.well \in BOOLEAN /\ dec.ret \in -1..1 /\ wild \in BOOLEAN
  /\ dec.pc \in {"sequence", "units", "picture", "user", "start", "again", "slice", "macroblock",
                "lost", "done"}

Fits == MbWidth <= ScreenWidth /\ Mbs(src.h) <= ScreenHeight

(* A picture that is no larger than the screen is drawn inside it, whatever is    *)
(* damaged, and no block is overrun; of a well made source it is drawn as it was  *)
(* coded, whole when decodestillmpg returns 1, and it does not return 0; a source *)
(* one sample of which leaves nine bits is not well made in this sense, for the   *)
(* decoder clamps none, and looks up what is no colour, or behind its tables, for *)
(* one far enough.  No code is looked up behind its table (decodestillmpg,        *)
(* getidctblock).                                                                 *)
DrawsPicture ==
  /\ Fits => ~wild
  /\ src.well /\ dec.pc = "done" => dec.ret = 1
  /\ src.well /\ Fits =>
       \A m \in 0..(MBAmax - 1) :
         m < dec.MBA => screen[PlaceOf(m)] = m + 1
  /\ src.well /\ dec.ret = 1 => dec.MBA = MBAmax
  /\ \A k \in DOMAIN Tables :
       LET last == IF k = 8 THEN 65535 ELSE Tables[k + 1].from - 1
       IN  Entry(Tables[k].from) = 0 /\ Entry(last) = Tables[k].size - 1
  /\ \A comp \in 0..1, code \in {0, 991, 992, 1023} :
       DcEntry(comp, code) \in 0..(DcSize(comp, code) - 1)
=============================================================================
