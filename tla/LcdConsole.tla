----------------------------- MODULE LcdConsole -----------------------------
(***************************************************************************)
(* board/dbox2/lcd.c: the console on the LCD of a dbox2, below a logo.     *)
(* The display has pages of eight lines; a row of text is one page high    *)
(* (FONT_HEIGHT 8) or two (16).  A cell is one character wide and a page   *)
(* high, and holds a part of the logo, or one half of a character, of      *)
(* which the last column is missing: lcd_drawchars shifts by FONT_WIDTH -  *)
(* font_col.  `term' is what a terminal of that size would show.           *)
(***************************************************************************)
EXTENDS Integers

CONSTANTS
  Pages,      \* LCD_ROWS / 8
  Cols,       \* LCD_CONSOLE_COLS
  Tab,        \* 8: a tab
  Builds,     \* FONT_HEIGHT / 8, and CONFIG_DBOX2_LCD_LOGO_RESERVE, 0 for no logo
  MaxChars    \* characters printed

LcdSizes == /\ Pages \in Nat \ {0} /\ Cols \in Nat \ {0} /\ Tab \in Nat \ {0}
            /\ MaxChars \in Nat
            /\ \A b \in Builds : /\ b.font \in {1, 2} /\ Pages % b.font = 0
                                 /\ b.reserve \in 0..(Pages \div b.font)

VARIABLES
  lcd,    \* the build, whether lcd_load has shown the logo, characters printed
  con,    \* console_col and console_row
  ddram,  \* the display: what each cell of a page holds
  term    \* a terminal: its text and cursor, and whether it is still comparable

vars == <<lcd, con, ddram, term>>

Font  == lcd.build.font
Space == 0
Blank == <<Space, 0>>
Logo(page) == <<-2, page>>

(* A character is known by the number of characters printed up to it.  Of a font *)
(* 16 lines high the upper half goes into one page and the lower into the next.  *)
Glyph8(c)  == << <<c, 0>> >>
Glyph16(c) == << <<c, 0>>, <<c, 1>> >>
Glyph(c)   == IF Font = 1 THEN Glyph8(c) ELSE Glyph16(c)

(* console_back passes the character ' ' for a pointer to one: what is drawn is *)
(* the character at address 32.                                                 *)
Junk == -1

---------------------------------------------------------------------------
(* LCD_CONSOLE_ROWS and LCD_CONSOLE_ROWS_OFFSET, both in rows of text *)

ConsoleRows == IF lcd.build.reserve = 0 THEN Pages \div Font ELSE lcd.build.reserve
RowsOffset  == IF lcd.build.reserve = 0 THEN 0 ELSE Pages \div Font - lcd.build.reserve

(* A mutant of PageOf: the row of a console without a logo. *)
FromTheTop(row) == row * Font

(* lcd_drawchars: the page of a row of the console. *)
PageOf(row) == (RowsOffset + row) * Font

(* lcd_drawchars with one character. *)
Draw(d, c, row, col) ==
  [d EXCEPT ![PageOf(row)][col] = Glyph(c)[1],
            ![PageOf(row) + Font - 1][col] = Glyph(c)[Font]]

(* console_scrollup: copies pages from RowsOffset on, though that counts rows. *)
Scrolled(d) ==
  [p \in 0..(Pages - 1) |->
     IF p < RowsOffset THEN d[p]
     ELSE IF p < Pages - Font THEN d[p + Font]
     ELSE [col \in 0..(Cols - 1) |-> Blank]]

(* console_newline: the display and the cursor afterwards. *)
Newline(d, c) ==
  IF c.row + 1 >= ConsoleRows THEN [d |-> Scrolled(d), c |-> [row |-> c.row, col |-> 0]]
  ELSE [d |-> d, c |-> [row |-> c.row + 1, col |-> 0]]

(* console_col |= 8; console_col &= ~7: always an odd number of tabs. *)
Tabbed(col) == LET n == col \div Tab IN (IF n % 2 = 0 THEN n + 1 ELSE n) * Tab

Back(c) ==
  IF c.col > 0 THEN [c EXCEPT !.col = @ - 1]
  ELSE [col |-> Cols - 1, row |-> IF c.row > 0 THEN c.row - 1 ELSE 0]

---------------------------------------------------------------------------
(* The terminal *)

TermRows == 0..(ConsoleRows - 1)
Empty    == [col \in 0..(Cols - 1) |-> Space]

TermFeed(t) ==
  IF t.row + 1 >= ConsoleRows
  THEN [t EXCEPT !.col = 0,
          !.text = [r \in DOMAIN @ |-> IF r + 1 \in DOMAIN @ THEN @[r + 1] ELSE Empty]]
  ELSE [t EXCEPT !.col = 0, !.row = @ + 1]

TermPut(t, c) ==
  LET s == IF t.col >= Cols THEN TermFeed(t) ELSE t
  IN  [s EXCEPT !.text[s.row][s.col] = c, !.col = @ + 1]

(* After a tab the next stop, which may be at the end of the row or behind it. *)
TermTab(t) == [t EXCEPT !.col = (@ \div Tab + 1) * Tab]

(* A step back leaves a space, kept apart from those of a cell never written. *)
Erased == -3
TermBack(t) ==
  LET s == IF t.col > 0 THEN [t EXCEPT !.col = @ - 1]
           ELSE IF t.row > 0 THEN [t EXCEPT !.col = Cols - 1, !.row = @ - 1]
           ELSE t
  IN  [s EXCEPT !.text[s.row][s.col] = Erased]

(* Once it is not comparable it is left as it is. *)
Follow(t) == term' = IF term.same THEN t ELSE term

---------------------------------------------------------------------------
Init ==
  /\ lcd \in [build : Builds, logo : {FALSE}, loaded : {FALSE}, n : {0}]
  /\ con = [row |-> 0, col |-> 0]
  /\ ddram = [p \in 0..(Pages - 1) |-> [col \in 0..(Cols - 1) |-> Blank]]
  /\ term = [text |-> [r \in TermRows |-> Empty], row |-> 0, col |-> 0, same |-> TRUE]

(* lcd_load after lcd_init: from the file system or the network, or from neither. *)
Load ==
  /\ lcd.build.reserve > 0 /\ ~lcd.loaded /\ lcd.n = 0
  /\ \E found \in BOOLEAN :
       /\ lcd' = [lcd EXCEPT !.loaded = TRUE, !.logo = found]
       /\ ddram' = IF ~found THEN ddram
                   ELSE [p \in 0..(Pages - 1) |->
                           IF p < Pages - lcd.build.reserve * Font
                           THEN [col \in 0..(Cols - 1) |-> Logo(p)] ELSE ddram[p]]
  /\ UNCHANGED <<con, term>>

Printed ==
  /\ lcd.n < MaxChars
  /\ lcd.loaded \/ lcd.build.reserve = 0
  /\ lcd' = [lcd EXCEPT !.n = @ + 1]

(* lcd_putc *)
PutReturn ==
  /\ Printed
  /\ con' = [con EXCEPT !.col = 0]
  /\ Follow([term EXCEPT !.col = 0])
  /\ UNCHANGED ddram

PutNewline ==
  /\ Printed
  /\ LET after == Newline(ddram, con) IN ddram' = after.d /\ con' = after.c
  /\ Follow(TermFeed(term))

(* From the second half of a row the code goes back to the stop behind the cursor. *)
PutTab ==
  /\ Printed
  /\ con' = [con EXCEPT !.col = Tabbed(@)]
  /\ Follow([TermTab(term) EXCEPT !.same = con.col < Tab])
  /\ UNCHANGED ddram

(* At the first cell of the first row the code goes to the end of the row. *)
PutBack ==
  /\ Printed
  /\ con' = Back(con)
  /\ ddram' = Draw(ddram, Junk, con'.row, con'.col)
  /\ Follow([TermBack(term) EXCEPT !.same = con # [row |-> 0, col |-> 0]])

PutChar ==
  /\ Printed
  /\ LET at == IF con.col >= Cols THEN Newline(ddram, con) ELSE [d |-> ddram, c |-> con]
     IN  /\ ddram' = Draw(at.d, lcd'.n, at.c.row, at.c.col)
         /\ con' = [at.c EXCEPT !.col = @ + 1]
  /\ Follow(TermPut(term, lcd'.n))

Next == Load \/ PutReturn \/ PutNewline \/ PutTab \/ PutBack \/ PutChar

Spec == Init /\ [][Next]_vars

---------------------------------------------------------------------------
LcdTypeOK ==
  /\ lcd.n \in 0..MaxChars /\ con.row \in TermRows /\ con.col \in 0..(Cols + Tab)
  /\ DOMAIN ddram = 0..(Pages - 1) /\ \A p \in DOMAIN ddram : DOMAIN ddram[p] = 0..(Cols - 1)

Cell(c, half) == IF c = Space THEN Blank ELSE <<c, half>>

(* What is printed is what the display shows, row by row, and the logo above it  *)
(* stays.  Four things the code does otherwise are excepted: a cell that a step  *)
(* back erased is no space, until a character is printed there (console_back);   *)
(* the text is not compared after a tab from the second half of a row or a step  *)
(* back from the first cell; and with a font 16 lines high a logo of more than   *)
(* one row of text is written over when the console scrolls (console_scrollup,   *)
(* lcd_drawchars, lcd_load).                                                     *)
ShowsText ==
  /\ term.same =>
       \A r \in TermRows, col \in 0..(Cols - 1), half \in 0..(Font - 1) :
         term.text[r][col] # Erased =>
           ddram[PageOf(r) + half][col] = Cell(term.text[r][col], half)
  /\ lcd.logo =>
       \A p \in 0..(Pages - lcd.build.reserve * Font - 1) :
         Font = 1 \/ p < RowsOffset => ddram[p] = [col \in 0..(Cols - 1) |-> Logo(p)]
=============================================================================
