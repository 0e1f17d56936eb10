----------------------------- MODULE FrontText -----------------------------
(***************************************************************************)
(* What the front panel shows: front_puts and front_persent of its three   *)
(* drivers, front_dev_13_grid.c with thirteen cells of fourteen segments,  *)
(* front_dev_7seg.c and relook300s/front_dev.c with four of seven.  They   *)
(* send packets over a serial line to a controller, which is external.     *)
(* A character is its ASCII code, a string a sequence without its NUL, a   *)
(* cell the segments' bits.  The line takes a byte before the 350 ms are   *)
(* over that front_putc waits for it.                                      *)
(***************************************************************************)
EXTENDS Integers, Sequences, SequencesExt

CONSTANTS
  Panels,   \* "13_grid", "7seg", "relook300s"
  Texts,    \* what the commands show
  Downloads \* <<now, total>> of a download, now < total

VARIABLES
  front,  \* the panel, its divisor, table_index of front_persent
  out,    \* the packets to send
  micom,  \* the controller's buffer and the cells
  said    \* the last text, or the last part of a download

vars == <<front, out, micom, said>>

Grid  == front.panel = "13_grid"
Cells == IF Grid THEN 13 ELSE 4
Blank == IF Grid THEN 0 ELSE \hff

---------------------------------------------------------------------------
(* The serial line: 9600 baud of two clocks, rounded to the nearest. *)
Clock(panel)   == IF panel = "relook300s" THEN 324000000 \div 16 ELSE 378000000 \div 18
Divisor(panel) == LET tmp == 16 * 9600 IN (Clock(panel) + tmp \div 2) \div tmp

(* The same of each driver, a line being heard within three percent. *)
InitGrid == Divisor("13_grid")
Init7    == Divisor("7seg")
Init300  == Divisor("relook300s")
Heard    == LET off == Clock(front.panel) - 16 * 9600 * front.divisor
            IN  33 * (IF off < 0 THEN -off ELSE off) <= Clock(front.panel)

---------------------------------------------------------------------------
(* The fonts.  Char2seg of the seven segments has its X twice. *)
Upper == 65..90   Lower == 97..122   Digits == 48..57

Num7   == <<\hc0, \hf9, \ha4, \hb0, \h99, \h92, \h82, \hd8, \h80, \h98>>
Upper7 == <<\h88, \h80, \hc6, \ha1, \h86, \h8e, \h82, \h89, \hf9, \hf0, \hff, \hc7, \haa, \hab,
            \hc0, \h8c, \h98, \h88, \h92, \hf8, \hc1, \hff, \hff, \hff, \hff, \h91, \hff>>
Lower7 == <<\h88, \h83, \ha7, \ha1, \h86, \h8e, \h98, \h8b, \hf9, \hf0, \hff, \hc7, \haa, \hab,
            \ha3, \h8c, \h98, \haf, \h92, \h87, \he3, \hff, \hff, \hff, \h91, \hff>>
Seg7(c) ==
  CASE c \in Upper  -> Upper7[c - 64]
    [] c \in Lower  -> Lower7[c - 96]
    [] c \in Digits -> Num7[c - 47]
    [] c = 45       -> \hbf
    [] c = 95       -> \hf7
    [] OTHER        -> \hff

(* front_convert: the letters of no shape are blank. *)
NoShape == {75, 77, 86, 87, 88, 90, 107, 109, 118, 119, 120, 122}
Upper300 == <<\h88, \h80, \hc6, \ha1, \h86, \h8e, \h82, \h89, \hf9, \hf0, \hff, \hc7, \hff, \hab,
              \hc0, \h8c, \h98, \h88, \h92, \hf8, \hc1, \hff, \hff, \hff, \h91, \hff>>
front_convert(c) ==
  CASE c \in NoShape -> \hff
    [] c \in Upper \ NoShape -> Upper300[c - 64]
    [] OTHER -> Seg7(c)

NumGrid   == <<\h3123, \h0408, \h30c3, \h21c3, \h01e2, \h21e1, \h31e1, \h0123, \h31e3, \h21e3>>
UpperGrid == <<\h11e3, \h25cb, \h3021, \h250b, \h30e1, \h10e1, \h31a1, \h11e2, \h2409, \h0809,
               \h1264, \h3020, \h1136, \h1332, \h3123, \h10e3, \h3323, \h12e3, \h21e1, \h0409,
               \h3122, \h1824, \h1b22, \h0a14, \h04e2, \h2805>>
SegGrid(c) ==
  CASE c \in Upper  -> UpperGrid[c - 64]
    [] c \in Lower  -> UpperGrid[c - 96]
    [] c \in Digits -> NumGrid[c - 47]
    [] c = 45       -> \hc0
    [] c = 39       -> 4
    [] OTHER        -> 0

---------------------------------------------------------------------------
(* Packets: one cell of the buffer, the buffer to the cells, or all four.   *)
Cell(pos, data) == [req |-> "cell", pos |-> pos, data |-> data, all |-> <<>>, sum |-> 0]
Update          == [req |-> "update", pos |-> 0, data |-> 0, all |-> <<>>, sum |-> 0]
Four(all, sum)  == [req |-> "four", pos |-> 0, data |-> 0, all |-> all, sum |-> sum]

(* The relook300s adds a checksum, which front_puts stores behind its array. *)
SumOf(all) == (\haa + FoldLeft(+, 0, all) + \hcc) % 256

(* Of a string shorter than three characters the 7seg driver shows what lies *)
(* behind its end.                                                            *)
BehindEnd == {0, 56}
MapTable(s, behind) ==
  [i \in 1..4 |-> IF i <= Len(s) THEN Seg7(s[i])
                  ELSE IF i = Len(s) + 1 THEN Seg7(0) ELSE Seg7(behind)]
Convert(s) == [i \in 1..4 |-> IF i <= Len(s) THEN front_convert(s[i]) ELSE \hff]

(* The middle of the thirteen. *)
TextGrid(s) ==
  LET pos == (IF Len(s) > 13 THEN 0 ELSE 13 - Len(s)) \div 2
      at(i) == IF i > pos /\ i <= pos + Len(s) THEN s[i - pos] ELSE 32
  IN  [i \in 1..13 |-> Cell(i, SegGrid(at(i)))] \o <<Update>>

Puts(s) ==
  /\ out = <<>>
  /\ CASE Grid -> out' = TextGrid(s)
       [] front.panel = "7seg" -> \E behind \in BehindEnd : out' = <<Four(MapTable(s, behind), 0)>>
       [] OTHER -> out' = <<Four(Convert(s), SumOf(Convert(s)))>>
  /\ said' = [is |-> "text", text |-> s, part |-> <<0, 1>>]
  /\ UNCHANGED <<front, micom>>

(* front_persent; the outer cells turn.  "%2d" pads with a space. *)
ShowTableL == <<\hf7, \hef, \hbf, \hfd, \hfe, \hdf, \hbf, \hfb, \hf7, \hef, \hdf, \hfe, \hfd, \hfb>>
ShowTableR == <<\hf7, \hfb, \hbf, \hdf, \hfe, \hfd, \hbf, \hef, \hf7, \hfb, \hfd, \hfe, \hdf, \hef>>
Received   == <<114, 101, 99, 101, 105, 118, 101, 100, 32>>   \* "received "

Persent(part) == (part[1] * 100) \div part[2]
TwoDigits(n)  == <<IF n < 10 THEN 32 ELSE 48 + ((n \div 10) % 10), 48 + (n % 10)>>
ShowsPersent(n) ==
  LET tens == IF n < 10 THEN \hff ELSE Num7[((n \div 10) % 10) + 1]
  IN  <<ShowTableL[front.index + 1], tens, Num7[(n % 10) + 1], ShowTableR[front.index + 1]>>

ShowPart(part) ==
  /\ out = <<>>
  /\ LET n == Persent(part) IN
     IF Grid THEN out' = TextGrid(Received \o TwoDigits(n)) /\ UNCHANGED front
     ELSE /\ out' = <<Four(ShowsPersent(n),
                           IF front.panel = "7seg" THEN 0 ELSE SumOf(ShowsPersent(n)))>>
          /\ front' = [front EXCEPT !.index = (@ + 1) % 14]
  /\ said' = [is |-> "part", text |-> <<>>, part |-> part]
  /\ UNCHANGED micom

(* The controller takes a packet; of the relook300s only one whose sum is right. *)
Takes ==
  /\ out # <<>>
  /\ Heard
  /\ LET p == Head(out) IN
     micom' = CASE p.req = "cell"   -> [micom EXCEPT !.buffer[p.pos] = p.data]
                [] p.req = "update" -> [micom EXCEPT !.cells = micom.buffer]
                [] OTHER -> IF front.panel = "relook300s" /\ p.sum # SumOf(p.all) THEN micom
                            ELSE [micom EXCEPT !.cells = p.all]
  /\ out' = Tail(out)
  /\ UNCHANGED <<front, said>>

TextInit ==
  /\ \E p \in Panels : front = [panel |-> p, index |-> 0,
       divisor |-> CASE p = "13_grid" -> InitGrid [] p = "7seg" -> Init7 [] OTHER -> Init300]
  /\ out = <<>>
  /\ micom = [buffer |-> [i \in 1..Cells |-> Blank], cells |-> [i \in 1..Cells |-> Blank]]
  /\ said = [is |-> "nothing", text |-> <<>>, part |-> <<0, 1>>]

TextNext == (\E s \in Texts : Puts(s)) \/ (\E p \in Downloads : ShowPart(p)) \/ Takes

TextSpec == TextInit /\ [][TextNext]_vars

---------------------------------------------------------------------------
(* The cells hold bits there are, the turning index stays in its tables, and   *)
(* the line is set up so that the controller hears it.                         *)
TextTypeOK ==
  /\ front.panel \in Panels /\ front.index \in 0..13
  /\ DOMAIN micom.cells = 1..Cells /\ DOMAIN micom.buffer = 1..Cells
  /\ \A i \in 1..Cells : micom.cells[i] \in 0..(IF Grid THEN 2^14 ELSE 2^8) - 1
  /\ Len(out) <= 14 /\ Heard

(* What a cell reads as: any character that the other drivers' font of this  *)
(* kind of display draws so.  Two shapes serve several.  The fonts of the    *)
(* 13_grid and the relook300s are taken as they are: of these panels it is   *)
(* the places, the packets and the percentages that could be wrong.          *)
Upcase(c)   == IF c \in Lower THEN c - 32 ELSE c
Readings(g) == {c \in 0..127 : (IF Grid THEN SegGrid(c) ELSE front_convert(c)) = g}

(* The defects of the 7seg's font: Y is blank, Z is drawn as Y, and M, which *)
(* the other leaves blank, is drawn.                                         *)
Drawn(c) ==
  IF front.panel # "7seg" THEN {c}
  ELSE CASE c = 89 -> {32} [] c = 90 -> {89} [] c \in {77, 109} -> {} [] OTHER -> {c}

Shows(g, c) == Drawn(c) = {} \/ \E d \in Drawn(c) : d \in Readings(g)

(* Whenever the packets of a text or of a percentage are sent the panel      *)
(* reads as it: its first characters, in the middle of the thirteen cells    *)
(* with nothing left of what they showed before; two digits, the percentage  *)
(* of the blocks that were received.  A text of less than three characters   *)
(* is followed on the 7seg by whatever is behind it.                         *)
ReadsAs(s) ==
  LET n == IF Len(s) > Cells THEN Cells ELSE Len(s) IN
  \E left \in (IF Grid THEN {(13 - n) \div 2} ELSE {0}) :
    \A i \in 1..Cells :
      IF i \in left + 1..left + n THEN Shows(micom.cells[i], s[i - left])
      ELSE micom.cells[i] = Blank \/ (front.panel = "7seg" /\ n < 3 /\ i > n + 1)

ReadsAsWritten ==
  out = <<>> =>
    CASE said.is = "text" -> ReadsAs(said.text)
      [] said.is = "part" ->
           LET n == (said.part[1] * 100) \div said.part[2] IN
           IF Grid THEN ReadsAs(Received \o TwoDigits(n))
           ELSE \E tens, ones \in 0..9 :
                  /\ n = 10 * tens + ones
                  /\ Shows(micom.cells[3], 48 + ones)
                  /\ IF tens = 0 THEN micom.cells[2] = Blank ELSE Shows(micom.cells[2], 48 + tens)
      [] OTHER -> \A i \in 1..Cells : micom.cells[i] = Blank
=============================================================================
