------------------------- MODULE LcdConsoleProofs -------------------------
(***************************************************************************)
(* What is printed on the LCD of a dbox2 is what a terminal would show,    *)
(* but where the cursor stepped back, for every size of the display and    *)
(* any number of characters.                                               *)
(***************************************************************************)
EXTENDS LcdConsole, TLAPS

AllPages == 0..(Pages - 1)
Columns  == 0..(Cols - 1)
Cells    == Int \X Int     \* a part of a character or of the logo
Halves   == 0..(Font - 1)
TopPages == 0..(RowsOffset - 1)

DisplayTyped(d) == d \in [AllPages -> [Columns -> Cells]]
TermTyped(t) ==
  t \in [text : [TermRows -> [Columns -> Int]], row : TermRows, col : Nat, same : BOOLEAN]

ConsoleTyped ==
  /\ lcd \in [build : Builds, logo : BOOLEAN, loaded : BOOLEAN, n : 0..MaxChars]
  /\ con \in [row : TermRows, col : Nat]
  /\ DisplayTyped(ddram) /\ TermTyped(term)
  /\ lcd.logo => lcd.build.reserve > 0

\* The cursors of the console and of the terminal.
CursorFollows == term.same => term.row = con.row /\ term.col = con.col

\* How far a tab takes the cursor beyond the end of a row.
InReach == con.col <= Cols \/ con.col <= Tabbed(Cols)

\* A display and a text, cell by cell, but for those a step back erased.
Shows(d, t) ==
  \A r \in TermRows, col \in Columns, half \in Halves :
    t[r][col] # Erased => d[PageOf(r) + half][col] = Cell(t[r][col], half)
LogoStays(d) == \A p \in TopPages : d[p] = [col \in Columns |-> Logo(p)]

ConsoleInv ==
  /\ ConsoleTyped /\ CursorFollows /\ InReach
  /\ term.same => Shows(ddram, term.text)
  /\ lcd.logo => LogoStays(ddram)

-----------------------------------------------------------------------------
(* Rows and pages                                                          *)

\* A font of one page or of two divides the display; the console is at its end.
LEMMA ConsoleAtEnd ==
  ASSUME LcdSizes, lcd.build \in Builds
  PROVE  /\ Font \in {1, 2} /\ Pages \in Nat /\ ConsoleRows \in Nat \ {0} /\ RowsOffset \in Nat
         /\ (RowsOffset + ConsoleRows) * Font = Pages
         /\ lcd.build.reserve \in Nat
         /\ lcd.build.reserve > 0 =>
              /\ ConsoleRows = lcd.build.reserve
              /\ RowsOffset * Font = Pages - lcd.build.reserve * Font
<1> DEFINE f == lcd.build.font
           v == lcd.build.reserve
<1>1. f \in {1, 2} /\ Pages % f = 0 /\ v \in 0..(Pages \div f) /\ Pages \in Nat \ {0}
  BY DEF LcdSizes
<1>2. Pages \div f \in Nat /\ (Pages \div f) * f = Pages
  <2>1. CASE f = 1
    BY <1>1, <2>1
  <2>2. CASE f = 2
    BY <1>1, <2>2
  <2> QED BY <1>1, <2>1, <2>2
<1> QED BY <1>1, <1>2 DEF Font, ConsoleRows, RowsOffset

\* Each half of a row has a page of its own, below the logo.
LEMMA PagesOfRows ==
  ASSUME LcdSizes, lcd.build \in Builds, NEW r \in TermRows, NEW half \in Halves
  PROVE  /\ PageOf(r) + half \in AllPages /\ PageOf(r) + half >= RowsOffset * Font
         /\ PageOf(r) \in AllPages /\ PageOf(r) + Font - 1 \in AllPages
         /\ PageOf(r) + half \notin TopPages
         /\ \A q \in TermRows, h \in Halves :
              PageOf(q) + h = PageOf(r) + half => q = r /\ h = half
         /\ r + 1 \in TermRows => PageOf(r + 1) = PageOf(r) + Font
                                  /\ PageOf(r) + half < Pages - Font
         /\ r + 1 \notin TermRows => PageOf(r) + half >= Pages - Font
<1>1. /\ Font \in {1, 2} /\ ConsoleRows \in Nat \ {0} /\ RowsOffset \in Nat
      /\ (RowsOffset + ConsoleRows) * Font = Pages /\ Pages \in Nat \ {0}
  BY ConsoleAtEnd DEF LcdSizes
<1>2. CASE Font = 1
  BY <1>1, <1>2 DEF PageOf, TermRows, Halves, TopPages, AllPages
<1>3. CASE Font = 2
  BY <1>1, <1>3 DEF PageOf, TermRows, Halves, TopPages, AllPages
<1> QED BY <1>1, <1>2, <1>3

-----------------------------------------------------------------------------
(* What is drawn                                                           *)

Changed(d, p, col, x) == [d EXCEPT ![p][col] = x]

LEMMA CellChanged ==
  ASSUME NEW d, DisplayTyped(d), NEW p \in AllPages, NEW col \in Nat,
         NEW x \in Cells
  PROVE  /\ DisplayTyped(Changed(d, p, col, x))
         /\ \A q \in AllPages : q # p => Changed(d, p, col, x)[q] = d[q]
         /\ \A q \in AllPages, k \in Columns :
              Changed(d, p, col, x)[q][k] = IF q = p /\ k = col THEN x ELSE d[q][k]
<1> DEFINE y == [d[p] EXCEPT ![col] = x]
<1>1. d[p] \in [Columns -> Cells] /\ d \in [AllPages -> [Columns -> Cells]]
  BY DEF DisplayTyped
<1>2. y \in [Columns -> Cells] /\ \A k \in Columns : y[k] = IF k = col THEN x ELSE d[p][k]
  BY <1>1
<1>3. Changed(d, p, col, x) = [d EXCEPT ![p] = y]
  BY DEF Changed
<1> HIDE DEF y
<1> QED BY <1>1, <1>2, <1>3 DEF DisplayTyped

\* lcd_drawchars changes the cells of one character only.
LEMMA Drawn ==
  ASSUME LcdSizes, lcd.build \in Builds, NEW d, DisplayTyped(d), NEW c \in Int,
         NEW r \in TermRows, NEW col \in Nat
  PROVE  /\ DisplayTyped(Draw(d, c, r, col))
         /\ \A q \in TermRows, k \in Columns, half \in Halves :
              Draw(d, c, r, col)[PageOf(q) + half][k] =
                IF q = r /\ k = col THEN <<c, half>> ELSE d[PageOf(q) + half][k]
         /\ \A p \in TopPages : Draw(d, c, r, col)[p] = d[p]
<1> DEFINE P == PageOf(r)
           L == P + Font - 1
           x == <<c, 0>>
           y == <<c, Font - 1>>
           first == Changed(d, P, col, x)
           e == Changed(first, L, col, y)
<1>1. Font \in {1, 2} /\ 0 \in Halves /\ Font - 1 \in Halves /\ AllPages \subseteq Int
  BY ConsoleAtEnd DEF Halves, AllPages
<1>2. P \in AllPages /\ P + Font - 1 \in AllPages
  BY <1>1, PagesOfRows
<1>3. \A q \in TermRows, half \in Halves :
        /\ PageOf(q) + half \in AllPages
        /\ PageOf(q) + half = P <=> q = r /\ half = 0
        /\ PageOf(q) + half = P + Font - 1 <=> q = r /\ half = Font - 1
  <2> TAKE q \in TermRows, half \in Halves
  <2>1. PageOf(q) + half \in AllPages
    BY PagesOfRows
  <2>5. P \in Int
    BY <1>1, <1>2
  <2> HIDE DEF P
  <2>2. P = P + 0 /\ P + Font - 1 = P + (Font - 1)
    BY <1>1, <1>2, <2>5
  <2>3. PageOf(q) + half = P + 0 => q = r /\ half = 0
    BY <1>1, PagesOfRows DEF P
  <2>4. PageOf(q) + half = P + (Font - 1) => q = r /\ half = Font - 1
    BY <1>1, PagesOfRows DEF P
  <2> QED BY <2>1, <2>2, <2>3, <2>4 DEF P
<1>4. P \notin TopPages /\ P + Font - 1 \notin TopPages
  <2>1. P + 0 \notin TopPages /\ P + (Font - 1) \notin TopPages
    BY <1>1, PagesOfRows
  <2>2. P \in Int
    BY <1>1, <1>2
  <2> HIDE DEF P
  <2> QED BY <1>1, <2>1, <2>2
<1>5. TopPages \subseteq AllPages
  BY ConsoleAtEnd DEF TopPages, AllPages, LcdSizes
<1>6. Draw(d, c, r, col) = e
  <2>1. CASE Font = 1
    BY <1>2, <2>1 DEF Draw, Changed, Glyph, Glyph8
  <2>2. CASE Font = 2
    BY <1>2, <2>2 DEF Draw, Changed, Glyph, Glyph16
  <2> QED BY <1>1, <2>1, <2>2
<1>7. x \in Cells /\ y \in Cells /\ L \in AllPages
  BY <1>1, <1>2 DEF Cells
<1>12. x = <<c, 0>> /\ y = <<c, Font - 1>> /\ L = P + Font - 1
  OBVIOUS
<1> HIDE DEF P, L, x, y
<1>13. P \in AllPages /\ x \in Cells
  BY <1>2, <1>7
<1>8. /\ DisplayTyped(first)
      /\ \A q \in AllPages : q # P => first[q] = d[q]
      /\ \A q \in AllPages, k \in Columns :
           first[q][k] = IF q = P /\ k = col THEN x ELSE d[q][k]
  BY <1>13, CellChanged
<1> HIDE DEF first
<1>9. /\ DisplayTyped(e)
      /\ \A q \in AllPages : q # L => e[q] = first[q]
      /\ \A q \in AllPages, k \in Columns :
           e[q][k] = IF q = L /\ k = col THEN y ELSE first[q][k]
  BY <1>7, <1>8, CellChanged
<1> HIDE DEF e
<1>10. \A p \in TopPages : e[p] = d[p]
  BY <1>4, <1>5, <1>8, <1>9, <1>12
<1>11. ASSUME NEW q \in TermRows, NEW k \in Columns, NEW half \in Halves
       PROVE  e[PageOf(q) + half][k] =
                IF q = r /\ k = col THEN <<c, half>> ELSE d[PageOf(q) + half][k]
  <2> DEFINE n == PageOf(q) + half
  <2>1. /\ n \in AllPages
        /\ n = P <=> q = r /\ half = 0
        /\ n = P + Font - 1 <=> q = r /\ half = Font - 1
    BY <1>3
  <2>2. half = 0 \/ half = Font - 1
    BY <1>1 DEF Halves
  <2> HIDE DEF n
  <2>3. e[n][k] = IF q = r /\ k = col THEN <<c, half>> ELSE d[n][k]
    BY <1>8, <1>9, <1>12, <2>1, <2>2
  <2> QED BY <2>3 DEF n
<1> QED BY <1>6, <1>9, <1>10, <1>11

-----------------------------------------------------------------------------
(* A new row                                                               *)

\* console_scrollup moves each row up and leaves the last one empty; what is above the
\* console stays.
LEMMA RowsMoved ==
  ASSUME LcdSizes, lcd.build \in Builds, NEW d, DisplayTyped(d)
  PROVE  /\ DisplayTyped(Scrolled(d))
         /\ \A q \in TermRows, k \in Columns, half \in Halves :
              Scrolled(d)[PageOf(q) + half][k] =
                IF q + 1 \in TermRows THEN d[PageOf(q + 1) + half][k] ELSE Blank
         /\ \A p \in TopPages : Scrolled(d)[p] = d[p]
<1>1. /\ Font \in {1, 2} /\ Pages \in Nat /\ RowsOffset \in Nat /\ ConsoleRows \in Nat \ {0}
      /\ (RowsOffset + ConsoleRows) * Font = Pages
  BY ConsoleAtEnd
<1> DEFINE e == Scrolled(d)
<1>2. Blank \in Cells /\ [col \in Columns |-> Blank] \in [Columns -> Cells]
  BY DEF Blank, Space, Cells
<1>3. \A p \in AllPages :
        e[p] = IF p < RowsOffset THEN d[p]
               ELSE IF p < Pages - Font THEN d[p + Font]
               ELSE [col \in Columns |-> Blank]
  BY DEF Scrolled, AllPages, Columns
<1>4. \A p \in AllPages : p < Pages - Font => p + Font \in AllPages
  BY <1>1 DEF AllPages
<1>5. DisplayTyped(e)
  <2>1. \A p \in AllPages : e[p] \in [Columns -> Cells]
    BY <1>2, <1>3, <1>4 DEF DisplayTyped
  <2>2. e = [p \in AllPages |-> e[p]]
    BY DEF Scrolled, AllPages
  <2> QED BY <2>1, <2>2 DEF DisplayTyped
<1>6. \A p \in TopPages : e[p] = d[p]
  <2>1. \A p \in TopPages : p \in AllPages /\ p < RowsOffset
    BY <1>1 DEF TopPages, AllPages
  <2> QED BY <1>3, <2>1
<1>7. ASSUME NEW q \in TermRows, NEW k \in Columns, NEW half \in Halves
      PROVE  e[PageOf(q) + half][k] =
               IF q + 1 \in TermRows THEN d[PageOf(q + 1) + half][k] ELSE Blank
  <2> DEFINE p == PageOf(q) + half
  <2>1. /\ p \in AllPages /\ p >= RowsOffset * Font
        /\ q + 1 \in TermRows => PageOf(q + 1) = PageOf(q) + Font /\ p < Pages - Font
        /\ q + 1 \notin TermRows => p >= Pages - Font
    BY PagesOfRows
  <2>2. ~(p < RowsOffset) /\ p \in Int
    BY <1>1, <2>1 DEF AllPages
  <2>3. q + 1 \in TermRows => PageOf(q + 1) + half = p + Font
    <3>1. half \in Int /\ PageOf(q) \in Int
      BY <1>1, PagesOfRows DEF AllPages, Halves
    <3> QED BY <1>1, <2>1, <3>1
  <2> HIDE DEF p
  <2>4. CASE q + 1 \in TermRows
    BY <1>3, <2>1, <2>2, <2>3, <2>4 DEF p
  <2>5. CASE q + 1 \notin TermRows
    <3>1. ~(p < Pages - Font)
      BY <1>1, <2>1, <2>2, <2>5
    <3>2. e[p] = [col \in Columns |-> Blank]
      BY <1>3, <2>1, <2>2, <3>1
    <3> QED BY <2>5, <3>2 DEF p
  <2> QED BY <2>4, <2>5
<1> QED BY <1>5, <1>6, <1>7

\* A terminal and a console that agree.
Agree(d, c, t) == /\ DisplayTyped(d) /\ c \in [row : TermRows, col : Nat] /\ TermTyped(t)
                  /\ t.row = c.row /\ t.col = c.col /\ Shows(d, t.text)

\* console_newline keeps the types and the logo.
LEMMA NewRow ==
  ASSUME LcdSizes, lcd.build \in Builds, NEW d, NEW c, DisplayTyped(d),
         c \in [row : TermRows, col : Nat]
  PROVE  /\ DisplayTyped(Newline(d, c).d)
         /\ Newline(d, c).c \in [row : TermRows, col : {0}]
         /\ LogoStays(d) => LogoStays(Newline(d, c).d)
<1>1. CASE c.row + 1 >= ConsoleRows
  <2>1. Newline(d, c) = [d |-> Scrolled(d), c |-> [row |-> c.row, col |-> 0]]
    BY <1>1 DEF Newline
  <2>2. DisplayTyped(Scrolled(d)) /\ \A p \in TopPages : Scrolled(d)[p] = d[p]
    BY RowsMoved
  <2> QED BY <2>1, <2>2 DEF LogoStays
<1>2. CASE ~(c.row + 1 >= ConsoleRows)
  <2>1. Newline(d, c) = [d |-> d, c |-> [row |-> c.row + 1, col |-> 0]]
    BY <1>2 DEF Newline
  <2>2. c.row + 1 \in TermRows
    BY <1>2, ConsoleAtEnd DEF TermRows
  <2> QED BY <2>1, <2>2
<1> QED BY <1>1, <1>2

\* The line feed of a terminal.
LEMMA Fed ==
  ASSUME LcdSizes, lcd.build \in Builds, NEW t, TermTyped(t)
  PROVE  /\ TermTyped(TermFeed(t)) /\ TermFeed(t).same = t.same /\ TermFeed(t).col = 0
         /\ ~(t.row + 1 >= ConsoleRows) =>
              TermFeed(t).row = t.row + 1 /\ TermFeed(t).text = t.text
         /\ t.row + 1 >= ConsoleRows =>
              /\ TermFeed(t).row = t.row
              /\ \A r \in TermRows : TermFeed(t).text[r] =
                   IF r + 1 \in TermRows THEN t.text[r + 1] ELSE Empty
<1>1. CASE t.row + 1 >= ConsoleRows
  <2> DEFINE x == [r \in DOMAIN t.text |-> IF r + 1 \in DOMAIN t.text THEN t.text[r + 1] ELSE Empty]
  <2>1. TermFeed(t) = [t EXCEPT !.col = 0, !.text = x]
    BY <1>1 DEF TermFeed
  <2>2. DOMAIN t.text = TermRows /\ t.text \in [TermRows -> [Columns -> Int]]
    BY DEF TermTyped
  <2>3. x \in [TermRows -> [Columns -> Int]]
        /\ \A r \in TermRows : x[r] = IF r + 1 \in TermRows THEN t.text[r + 1] ELSE Empty
    BY <2>2 DEF Empty, Space, Columns
  <2> HIDE DEF x
  <2>4. /\ TermFeed(t).text = x /\ TermFeed(t).col = 0 /\ TermFeed(t).row = t.row
        /\ TermFeed(t).same = t.same
    BY <2>1 DEF TermTyped
  <2>5. TermTyped(TermFeed(t))
    <3> DEFINE w == [t EXCEPT !.col = 0]
    <3>1. TermTyped(w)
      BY DEF TermTyped
    <3>2. TermFeed(t) = [w EXCEPT !.text = x]
      BY <2>1 DEF TermTyped
    <3> HIDE DEF w
    <3> QED BY <2>3, <3>1, <3>2 DEF TermTyped
  <2> QED BY <1>1, <2>3, <2>4, <2>5
<1>2. CASE ~(t.row + 1 >= ConsoleRows)
  <2>1. TermFeed(t) = [t EXCEPT !.col = 0, !.row = t.row + 1]
    BY <1>2 DEF TermFeed
  <2>2. t.row + 1 \in TermRows
    BY <1>2, ConsoleAtEnd DEF TermRows, TermTyped
  <2>3. /\ TermFeed(t).text = t.text /\ TermFeed(t).col = 0 /\ TermFeed(t).row = t.row + 1
        /\ TermFeed(t).same = t.same
    BY <2>1 DEF TermTyped
  <2>4. TermTyped(TermFeed(t))
    <3> DEFINE w == [t EXCEPT !.col = 0]
    <3>1. TermTyped(w)
      BY DEF TermTyped
    <3>2. TermFeed(t) = [w EXCEPT !.row = t.row + 1]
      BY <2>1 DEF TermTyped
    <3> HIDE DEF w
    <3> QED BY <2>2, <3>1, <3>2 DEF TermTyped
  <2> QED BY <1>2, <2>3, <2>4
<1> QED BY <1>1, <1>2

\* console_newline and the line feed of a terminal agree.
LEMMA NewRowsAgree ==
  ASSUME LcdSizes, lcd.build \in Builds, NEW d, NEW c, NEW t, Agree(d, c, t)
  PROVE  Agree(Newline(d, c).d, Newline(d, c).c, TermFeed(t))
<1>1. /\ DisplayTyped(d) /\ c \in [row : TermRows, col : Nat] /\ TermTyped(t)
      /\ t.row = c.row /\ t.col = c.col /\ Shows(d, t.text)
  BY DEF Agree
<1> DEFINE n == Newline(d, c)
           u == TermFeed(t)
<1>2. DisplayTyped(n.d) /\ n.c \in [row : TermRows, col : Nat] /\ n.c.col = 0
  BY <1>1, NewRow
<1>3. TermTyped(u) /\ u.col = 0
  BY <1>1, Fed
<1>4. u.row = n.c.row /\ Shows(n.d, u.text)
  <2>1. CASE c.row + 1 >= ConsoleRows
    <3>1. n.d = Scrolled(d) /\ n.c.row = c.row
      BY <2>1 DEF Newline
    <3>2. u.row = t.row /\ \A r \in TermRows : u.text[r] =
                   IF r + 1 \in TermRows THEN t.text[r + 1] ELSE Empty
      BY <1>1, <2>1, Fed
    <3> HIDE DEF n, u
    <3>3. ASSUME NEW r \in TermRows, NEW col \in Columns, NEW half \in Halves,
                 u.text[r][col] # Erased
          PROVE  n.d[PageOf(r) + half][col] = Cell(u.text[r][col], half)
      <4>1. n.d[PageOf(r) + half][col] =
              IF r + 1 \in TermRows THEN d[PageOf(r + 1) + half][col] ELSE Blank
        BY <1>1, <3>1, RowsMoved
      <4>2. CASE r + 1 \in TermRows
        BY <1>1, <3>2, <3>3, <4>1, <4>2 DEF Shows
      <4>3. CASE r + 1 \notin TermRows
        <5>1. u.text[r][col] = Space
          BY <3>2, <4>3 DEF Empty, Columns
        <5> QED BY <4>1, <4>3, <5>1 DEF Cell
      <4> QED BY <4>2, <4>3
    <3> QED BY <1>1, <3>1, <3>2, <3>3 DEF Shows
  <2>2. CASE ~(c.row + 1 >= ConsoleRows)
    <3>1. n.d = d /\ n.c.row = c.row + 1
      BY <2>2 DEF Newline
    <3>2. u.row = t.row + 1 /\ u.text = t.text
      BY <1>1, <2>2, Fed
    <3> QED BY <1>1, <3>1, <3>2
  <2> QED BY <2>1, <2>2
<1> QED BY <1>2, <1>3, <1>4 DEF Agree

-----------------------------------------------------------------------------
(* Tabs                                                                    *)

\* The division of the cursor's place by the width of a tab.
LEMMA Stops ==
  ASSUME LcdSizes, NEW c \in Nat
  PROVE  /\ c \div Tab \in Nat /\ (c \div Tab) * Tab <= c /\ c < (c \div Tab + 1) * Tab
         /\ c < Tab => c \div Tab = 0
BY DEF LcdSizes

\* A tab goes to the odd stop of its pair.
LEMMA TabIsOdd ==
  ASSUME LcdSizes, NEW c \in Nat
  PROVE  \E n \in Nat : /\ Tabbed(c) = (2 * n + 1) * Tab
                        /\ 2 * n * Tab <= c /\ c < (2 * n + 2) * Tab
<1> DEFINE k == c \div Tab
<1>1. k \in Nat /\ k * Tab <= c /\ c < (k + 1) * Tab /\ Tab \in Nat
  BY Stops DEF LcdSizes
<1>2. Tabbed(c) = (IF k % 2 = 0 THEN k + 1 ELSE k) * Tab
  BY DEF Tabbed
<1> HIDE DEF k
<1>3. PICK n \in Nat : k = 2 * n \/ k = 2 * n + 1
  <2>1. k = 2 * (k \div 2) \/ k = 2 * (k \div 2) + 1
    BY <1>1
  <2> QED BY <1>1, <2>1
<1>4. CASE k = 2 * n
  BY <1>1, <1>2, <1>4
<1>5. CASE k = 2 * n + 1
  BY <1>1, <1>2, <1>5
<1> QED BY <1>3, <1>4, <1>5

LEMMA TabReach ==
  ASSUME LcdSizes, NEW c \in Nat, c <= Cols \/ c <= Tabbed(Cols)
  PROVE  /\ Tabbed(c) \in Nat /\ Tabbed(c) <= Tabbed(Cols) /\ Tabbed(Cols) <= Cols + Tab
         /\ Tabbed(Cols) \in Nat
         /\ c < Tab => Tabbed(c) = Tab
<1>1. Cols \in Nat /\ Tab \in Nat \ {0}
  BY DEF LcdSizes
<1>2. PICK m \in Nat : /\ Tabbed(Cols) = (2 * m + 1) * Tab
                       /\ 2 * m * Tab <= Cols /\ Cols < (2 * m + 2) * Tab
  BY <1>1, TabIsOdd
<1>3. PICK n \in Nat : /\ Tabbed(c) = (2 * n + 1) * Tab
                       /\ 2 * n * Tab <= c /\ c < (2 * n + 2) * Tab
  BY <1>1, TabIsOdd
<1>4. c < (2 * m + 2) * Tab
  BY <1>1, <1>2
<1>5. n <= m
  BY <1>1, <1>3, <1>4
<1>6. (2 * n + 1) * Tab <= (2 * m + 1) * Tab
  BY <1>1, <1>5
<1>7. c < Tab => n = 0
  BY <1>1, <1>3
<1> QED BY <1>1, <1>2, <1>3, <1>6, <1>7

-----------------------------------------------------------------------------
(* Each step                                                               *)

\* What a step has to keep; the build, and with it rows and pages, stays.
LEMMA StepKeeps ==
  ASSUME LcdSizes,
         lcd' \in [build : {lcd.build}, logo : BOOLEAN, loaded : BOOLEAN, n : 0..MaxChars],
         lcd.build \in Builds, lcd'.logo => lcd.build.reserve > 0,
         con' \in [row : TermRows, col : Nat], DisplayTyped(ddram'), TermTyped(term'),
         term'.same => /\ term'.row = con'.row /\ term'.col = con'.col
                       /\ Shows(ddram', term'.text),
         con'.col <= Cols \/ con'.col <= Tabbed(Cols),
         lcd'.logo => LogoStays(ddram')
  PROVE  ConsoleInv'
<1>1. lcd'.build = lcd.build /\ lcd' \in [build : Builds, logo : BOOLEAN, loaded : BOOLEAN,
                                          n : 0..MaxChars]
  OBVIOUS
<1>2. Font' = Font /\ ConsoleRows' = ConsoleRows /\ RowsOffset' = RowsOffset
  BY <1>1 DEF Font, ConsoleRows, RowsOffset
<1>3. TermRows' = TermRows /\ Halves' = Halves /\ TopPages' = TopPages
  BY <1>2 DEF TermRows, Halves, TopPages
<1>4. ConsoleTyped'
  BY <1>1, <1>3 DEF ConsoleTyped, DisplayTyped, TermTyped, AllPages, Columns, Cells
<1>5. InReach' /\ CursorFollows'
  BY DEF InReach, Tabbed, CursorFollows
<1>6. (lcd.logo => LogoStays(ddram))'
  BY <1>3 DEF LogoStays, Columns, Logo
<1>7. (term.same => Shows(ddram, term.text))'
  <2>1. ASSUME term'.same, NEW r \in TermRows, NEW col \in Columns, NEW half \in Halves,
               term'.text[r][col] # Erased
        PROVE  ddram'[(RowsOffset' + r) * Font' + half][col] = Cell(term'.text[r][col], half)
    BY <1>2, <2>1 DEF Shows, PageOf
  <2>2. term'.same =>
          \A r \in TermRows', col \in Columns, half \in Halves' :
            term'.text[r][col] # Erased =>
              ddram'[(RowsOffset' + r) * Font' + half][col] = Cell(term'.text[r][col], half)
    BY <1>3, <2>1
  <2> QED BY <2>2 DEF Shows, PageOf, Columns
<1> QED BY <1>4, <1>5, <1>6, <1>7 DEF ConsoleInv

\* A console that is comparable agrees with its terminal.
LEMMA AgreeNow ==
  ASSUME ConsoleInv
  PROVE  term.same => Agree(ddram, con, term)
BY DEF ConsoleInv, ConsoleTyped, CursorFollows, Agree

LEMMA PrintedOne ==
  ASSUME LcdSizes, ConsoleInv, Printed
  PROVE  /\ lcd' \in [build : {lcd.build}, logo : BOOLEAN, loaded : BOOLEAN, n : 0..MaxChars]
         /\ lcd'.logo = lcd.logo /\ lcd'.n = lcd.n + 1 /\ lcd'.n \in Int /\ lcd'.n # Space
<1>1. lcd' = [lcd EXCEPT !.n = lcd.n + 1] /\ lcd.n < MaxChars
  BY DEF Printed
<1>2. /\ lcd \in [build : {lcd.build}, logo : BOOLEAN, loaded : BOOLEAN, n : 0..MaxChars]
      /\ MaxChars \in Nat
  BY DEF ConsoleInv, ConsoleTyped, LcdSizes
<1>3. lcd.n \in 0..MaxChars /\ lcd.n + 1 \in 0..MaxChars
  BY <1>1, <1>2
<1>4. lcd' \in [build : {lcd.build}, logo : BOOLEAN, loaded : BOOLEAN, n : 0..MaxChars]
  BY <1>1, <1>2, <1>3
<1>5. lcd'.logo = lcd.logo /\ lcd'.n = lcd.n + 1
  BY <1>1, <1>2
<1> QED BY <1>2, <1>3, <1>4, <1>5 DEF Space

LEMMA Starts == ASSUME LcdSizes, Init PROVE ConsoleInv
<1>1. lcd \in [build : Builds, logo : {FALSE}, loaded : {FALSE}, n : {0}]
  BY DEF Init
<1>2. /\ ConsoleRows \in Nat \ {0} /\ 0 \in TermRows /\ lcd.build \in Builds
  BY <1>1, ConsoleAtEnd DEF TermRows
<1>3. con = [row |-> 0, col |-> 0] /\ con \in [row : TermRows, col : Nat]
  BY <1>2 DEF Init
<1>4. ddram = [p \in AllPages |-> [col \in Columns |-> Blank]] /\ DisplayTyped(ddram)
  BY DEF Init, DisplayTyped, AllPages, Columns, Cells, Blank, Space
<1>5. /\ term = [text |-> [r \in TermRows |-> [col \in Columns |-> Space]], row |-> 0, col |-> 0,
                 same |-> TRUE]
      /\ TermTyped(term)
  BY <1>2 DEF Init, TermTyped, Columns, Empty, Space
<1>6. Shows(ddram, term.text)
  BY <1>1, <1>2, <1>4, <1>5, PagesOfRows DEF Shows, Cell, AllPages
<1>7. MaxChars \in Nat /\ Cols \in Nat
  BY DEF LcdSizes
<1>8. lcd \in [build : Builds, logo : BOOLEAN, loaded : BOOLEAN, n : 0..MaxChars] /\ ~lcd.logo
  <2>1. {FALSE} \subseteq BOOLEAN /\ {0} \subseteq 0..MaxChars
    BY <1>7
  <2>2. ~lcd.logo
    BY <1>1
  <2>3. [build : Builds, logo : {FALSE}, loaded : {FALSE}, n : {0}]
          \subseteq [build : Builds, logo : BOOLEAN, loaded : BOOLEAN, n : 0..MaxChars]
    BY <2>1
  <2> QED BY <1>1, <2>2, <2>3
<1>9. CursorFollows /\ InReach
  BY <1>3, <1>5, <1>7 DEF CursorFollows, InReach
<1> QED BY <1>3, <1>4, <1>5, <1>6, <1>8, <1>9 DEF ConsoleInv, ConsoleTyped

\* The logo ends where the console begins.
LEMMA Loads == ASSUME LcdSizes, ConsoleInv, Load PROVE ConsoleInv'
<1>1. PICK found \in BOOLEAN :
        /\ lcd' = [lcd EXCEPT !.loaded = TRUE, !.logo = found]
        /\ ddram' = IF ~found THEN ddram
                    ELSE [p \in 0..(Pages - 1) |->
                            IF p < Pages - lcd.build.reserve * Font
                            THEN [col \in 0..(Cols - 1) |-> Logo(p)] ELSE ddram[p]]
  BY Zenon DEF Load
<1>2. lcd.build.reserve > 0 /\ con' = con /\ term' = term
  BY DEF Load
<1>3. /\ lcd \in [build : Builds, logo : BOOLEAN, loaded : BOOLEAN, n : 0..MaxChars]
      /\ con \in [row : TermRows, col : Nat] /\ DisplayTyped(ddram) /\ TermTyped(term)
  BY DEF ConsoleInv, ConsoleTyped
<1>4. /\ lcd' \in [build : {lcd.build}, logo : BOOLEAN, loaded : BOOLEAN, n : 0..MaxChars]
      /\ lcd'.logo = found
  BY <1>1, <1>3
<1>5. /\ Font \in {1, 2} /\ Pages \in Nat /\ RowsOffset \in Nat
      /\ RowsOffset * Font = Pages - lcd.build.reserve * Font
      /\ lcd.build.reserve \in Nat
  BY <1>2, <1>3, ConsoleAtEnd
<1>6. ASSUME found
      PROVE  /\ DisplayTyped(ddram') /\ LogoStays(ddram')
             /\ \A r \in TermRows, half \in Halves :
                  ddram'[PageOf(r) + half] = ddram[PageOf(r) + half]
  <2>1. ddram' = [p \in AllPages |-> IF p < RowsOffset * Font
                            THEN [col \in Columns |-> Logo(p)] ELSE ddram[p]]
    BY <1>1, <1>5, <1>6 DEF AllPages, Columns
  <2>2. \A p \in AllPages : [col \in Columns |-> Logo(p)] \in [Columns -> Cells]
    BY <1>5 DEF AllPages, Logo, Cells
  <2>3. DisplayTyped(ddram')
    BY <1>3, <2>1, <2>2 DEF DisplayTyped
  <2>4. \A p \in TopPages : p \in AllPages /\ p < RowsOffset * Font
    BY <1>5 DEF TopPages, AllPages
  <2>5. \A r \in TermRows, half \in Halves :
          PageOf(r) + half \in AllPages /\ ~(PageOf(r) + half < RowsOffset * Font)
    <3> TAKE r \in TermRows, half \in Halves
    <3>1. PageOf(r) + half \in AllPages /\ PageOf(r) + half >= RowsOffset * Font
      BY <1>3, PagesOfRows
    <3> QED BY <1>5, <3>1 DEF AllPages
  <2> QED BY <2>1, <2>3, <2>4, <2>5 DEF LogoStays
<1>7. DisplayTyped(ddram') /\ (lcd'.logo => LogoStays(ddram'))
  BY <1>1, <1>3, <1>4, <1>6
<1>8. term'.same => Shows(ddram', term'.text)
  <2>1. CASE found
    BY <1>2, <1>6, <2>1 DEF ConsoleInv, Shows
  <2>2. CASE ~found
    BY <1>1, <1>2, <2>2 DEF ConsoleInv
  <2> QED BY <2>1, <2>2
<1> QED
  BY <1>2, <1>3, <1>4, <1>7, <1>8, StepKeeps DEF ConsoleInv, CursorFollows, InReach

LEMMA Returns == ASSUME LcdSizes, ConsoleInv, PutReturn PROVE ConsoleInv'
<1>1. /\ Printed /\ con' = [con EXCEPT !.col = 0] /\ ddram' = ddram
      /\ term' = IF term.same THEN [term EXCEPT !.col = 0] ELSE term
  BY DEF PutReturn, Follow
<1>2. /\ lcd.build \in Builds /\ con \in [row : TermRows, col : Nat] /\ DisplayTyped(ddram)
      /\ TermTyped(term) /\ (lcd.logo => lcd.build.reserve > 0) /\ Cols \in Nat
  BY DEF ConsoleInv, ConsoleTyped, LcdSizes
<1>3. con' \in [row : TermRows, col : Nat] /\ con'.col = 0 /\ con'.row = con.row
  BY <1>1, <1>2
<1>4. TermTyped(term') /\ term'.same = term.same /\ term'.text = term.text
      /\ term'.row = term.row /\ (term.same => term'.col = 0)
  BY <1>1, <1>2 DEF TermTyped
<1> QED
  BY <1>1, <1>2, <1>3, <1>4, PrintedOne, StepKeeps DEF ConsoleInv, CursorFollows

LEMMA Feeds == ASSUME LcdSizes, ConsoleInv, PutNewline PROVE ConsoleInv'
<1>1. /\ Printed /\ ddram' = Newline(ddram, con).d /\ con' = Newline(ddram, con).c
      /\ term' = IF term.same THEN TermFeed(term) ELSE term
  BY DEF PutNewline, Follow
<1>2. /\ lcd.build \in Builds /\ con \in [row : TermRows, col : Nat] /\ DisplayTyped(ddram)
      /\ TermTyped(term) /\ (lcd.logo => lcd.build.reserve > 0) /\ Cols \in Nat
  BY DEF ConsoleInv, ConsoleTyped, LcdSizes
<1>3. con' \in [row : TermRows, col : Nat] /\ con'.col = 0 /\ DisplayTyped(ddram')
      /\ (lcd.logo => LogoStays(ddram'))
  BY <1>1, <1>2, NewRow DEF ConsoleInv
<1>4. TermTyped(term') /\ term'.same = term.same
  BY <1>1, <1>2, Fed
<1>5. term.same => Agree(ddram', con', term')
  BY <1>1, <1>2, AgreeNow, NewRowsAgree
<1> QED
  BY <1>1, <1>2, <1>3, <1>4, <1>5, PrintedOne, StepKeeps DEF Agree

LEMMA Tabs == ASSUME LcdSizes, ConsoleInv, PutTab PROVE ConsoleInv'
<1>1. /\ Printed /\ con' = [con EXCEPT !.col = Tabbed(con.col)] /\ ddram' = ddram
      /\ term' = IF term.same THEN [TermTab(term) EXCEPT !.same = con.col < Tab] ELSE term
  BY DEF PutTab, Follow
<1>2. /\ lcd.build \in Builds /\ con \in [row : TermRows, col : Nat] /\ DisplayTyped(ddram)
      /\ TermTyped(term) /\ (lcd.logo => lcd.build.reserve > 0) /\ Cols \in Nat
      /\ Tab \in Nat \ {0} /\ (con.col <= Cols \/ con.col <= Tabbed(Cols))
  BY DEF ConsoleInv, ConsoleTyped, LcdSizes, InReach
<1>3. Tabbed(con.col) \in Nat /\ Tabbed(con.col) <= Tabbed(Cols)
      /\ (con.col < Tab => Tabbed(con.col) = Tab)
  BY <1>2, TabReach
<1>4. con' \in [row : TermRows, col : Nat] /\ con'.col = Tabbed(con.col) /\ con'.row = con.row
  BY <1>1, <1>2, <1>3
<1>5. CASE term.same
  <2>1. term.col \in Nat /\ term.col = con.col /\ term.row = con.row
    BY <1>2, <1>5 DEF ConsoleInv, CursorFollows, TermTyped
  <2> DEFINE w == (term.col \div Tab + 1) * Tab
             u == [term EXCEPT !.col = w]
  <2>2. w \in Nat /\ (con.col < Tab => w = Tab)
    BY <1>2, <2>1, Stops
  <2>3. term' = [u EXCEPT !.same = con.col < Tab]
    BY <1>1, <1>5 DEF TermTab
  <2> HIDE DEF w
  <2>4. TermTyped(u) /\ u.col = w /\ u.row = term.row /\ u.text = term.text
    BY <1>2, <2>2 DEF TermTyped
  <2> HIDE DEF u
  <2>5. (con.col < Tab) \in BOOLEAN
    OBVIOUS
  <2>6. /\ TermTyped(term') /\ term'.col = w /\ term'.row = term.row /\ term'.text = term.text
        /\ term'.same = (con.col < Tab)
    BY <2>3, <2>4, <2>5 DEF TermTyped
  <2>7. term'.same => /\ term'.row = con'.row /\ term'.col = con'.col
                      /\ Shows(ddram', term'.text)
    BY <1>1, <1>3, <1>4, <1>5, <2>1, <2>2, <2>6 DEF ConsoleInv
  <2> QED
    BY <1>1, <1>2, <1>3, <1>4, <2>6, <2>7, PrintedOne, StepKeeps DEF ConsoleInv
<1>6. CASE ~term.same
  BY <1>1, <1>2, <1>3, <1>4, <1>6, PrintedOne, StepKeeps DEF ConsoleInv
<1> QED BY <1>5, <1>6

\* A terminal writes into one cell.
Wrote(t, c) == [t EXCEPT !.text[t.row][t.col] = c]

LEMMA CellWritten ==
  ASSUME NEW t, TermTyped(t), NEW c \in Int
  PROVE  /\ TermTyped(Wrote(t, c)) /\ Wrote(t, c).row = t.row /\ Wrote(t, c).col = t.col
         /\ Wrote(t, c).same = t.same
         /\ \A r \in TermRows, k \in Columns :
              Wrote(t, c).text[r][k] = IF r = t.row /\ k = t.col THEN c ELSE t.text[r][k]
<1> DEFINE y == [t.text[t.row] EXCEPT ![t.col] = c]
           x == [t.text EXCEPT ![t.row] = y]
<1>1. /\ t.text \in [TermRows -> [Columns -> Int]] /\ t.row \in TermRows /\ t.col \in Nat
  BY DEF TermTyped
<1>2. y \in [Columns -> Int] /\ \A k \in Columns : y[k] = IF k = t.col THEN c ELSE t.text[t.row][k]
  BY <1>1
<1>3. Wrote(t, c) = [t EXCEPT !.text = x]
  BY DEF Wrote
<1> HIDE DEF y
<1>4. /\ x \in [TermRows -> [Columns -> Int]]
      /\ \A r \in TermRows, k \in Columns :
              x[r][k] = IF r = t.row /\ k = t.col THEN c ELSE t.text[r][k]
  BY <1>1, <1>2
<1> HIDE DEF x
<1>5. TermTyped(Wrote(t, c))
  BY <1>3, <1>4 DEF TermTyped
<1>6. /\ Wrote(t, c).text = x /\ Wrote(t, c).row = t.row /\ Wrote(t, c).col = t.col
      /\ Wrote(t, c).same = t.same
  BY <1>3 DEF TermTyped
<1> QED BY <1>4, <1>5, <1>6

\* lcd_drawchars and a terminal that writes the same, or erases, agree.
LEMMA CharAgrees ==
  ASSUME LcdSizes, lcd.build \in Builds, NEW d, NEW k, NEW t, Agree(d, k, t),
         NEW c \in Int, NEW w \in Int, (w = c /\ c # Space) \/ w = Erased
  PROVE  Agree(Draw(d, c, k.row, k.col), k, Wrote(t, w))
<1>1. /\ DisplayTyped(d) /\ k \in [row : TermRows, col : Nat] /\ TermTyped(t)
      /\ t.row = k.row /\ t.col = k.col /\ Shows(d, t.text)
  BY DEF Agree
<1>2. k.row \in TermRows /\ k.col \in Nat
  BY <1>1
<1>6. DisplayTyped(d) /\ Shows(d, t.text)
  BY <1>1
<1> DEFINE e == Draw(d, c, k.row, k.col)
           u == Wrote(t, w)
<1>3. /\ DisplayTyped(e)
      /\ \A r \in TermRows, col \in Columns, half \in Halves :
              e[PageOf(r) + half][col] =
                IF r = k.row /\ col = k.col THEN <<c, half>> ELSE d[PageOf(r) + half][col]
  <2> DEFINE row == k.row
             place == k.col
  <2>1. row \in TermRows /\ place \in Nat
    BY <1>2
  <2> HIDE DEF row, place
  <2>2. /\ DisplayTyped(Draw(d, c, row, place))
        /\ \A r \in TermRows, col \in Columns, half \in Halves :
              Draw(d, c, row, place)[PageOf(r) + half][col] =
                IF r = row /\ col = place THEN <<c, half>> ELSE d[PageOf(r) + half][col]
    BY <1>6, <2>1, Drawn
  <2> QED BY <2>2 DEF row, place
<1>4. /\ TermTyped(u) /\ u.row = t.row /\ u.col = t.col
      /\ \A r \in TermRows, col \in Columns :
              u.text[r][col] = IF r = t.row /\ col = t.col THEN w ELSE t.text[r][col]
  BY <1>1, CellWritten
<1> HIDE DEF e, u
<1>5. ASSUME NEW r \in TermRows, NEW col \in Columns, NEW half \in Halves,
             u.text[r][col] # Erased
      PROVE  e[PageOf(r) + half][col] = Cell(u.text[r][col], half)
  <2>1. CASE r = k.row /\ col = k.col
    <3>1. u.text[r][col] = w
      BY <1>1, <1>4, <2>1
    <3>2. w = c /\ c # Space
      BY <1>5, <3>1
    <3>3. e[PageOf(r) + half][col] = <<c, half>>
      BY <1>3, <2>1
    <3>4. Cell(u.text[r][col], half) = <<c, half>>
      BY <3>1, <3>2 DEF Cell
    <3> QED BY <3>3, <3>4
  <2>2. CASE ~(r = k.row /\ col = k.col)
    <3>1. e[PageOf(r) + half][col] = d[PageOf(r) + half][col]
      BY <1>3, <2>2
    <3>2. u.text[r][col] = t.text[r][col]
      BY <1>1, <1>4, <2>2
    <3> QED BY <1>5, <1>6, <3>1, <3>2 DEF Shows
  <2> QED BY <2>1, <2>2
<1> QED BY <1>1, <1>3, <1>4, <1>5 DEF Agree, Shows, e, u

LEMMA DrawKeepsLogo ==
  ASSUME LcdSizes, lcd.build \in Builds, NEW d, DisplayTyped(d), NEW c \in Int,
         NEW r \in TermRows, NEW col \in Nat, LogoStays(d)
  PROVE  LogoStays(Draw(d, c, r, col))
<1>1. \A p \in TopPages : Draw(d, c, r, col)[p] = d[p]
  BY Drawn
<1> QED BY <1>1 DEF LogoStays

LEMMA Chars == ASSUME LcdSizes, ConsoleInv, PutChar PROVE ConsoleInv'
<1> DEFINE at == IF con.col >= Cols THEN Newline(ddram, con) ELSE [d |-> ddram, c |-> con]
           s == IF con.col >= Cols THEN TermFeed(term) ELSE term
<1>1. /\ Printed /\ ddram' = Draw(at.d, lcd'.n, at.c.row, at.c.col)
      /\ con' = [at.c EXCEPT !.col = at.c.col + 1]
      /\ term' = IF term.same THEN TermPut(term, lcd'.n) ELSE term
  BY DEF PutChar, Follow
<1>2. /\ lcd.build \in Builds /\ con \in [row : TermRows, col : Nat] /\ DisplayTyped(ddram)
      /\ TermTyped(term) /\ (lcd.logo => lcd.build.reserve > 0) /\ Cols \in Nat \ {0}
      /\ (lcd.logo => LogoStays(ddram))
  BY DEF ConsoleInv, ConsoleTyped, LcdSizes
<1>3. /\ lcd' \in [build : {lcd.build}, logo : BOOLEAN, loaded : BOOLEAN, n : 0..MaxChars]
      /\ lcd'.logo = lcd.logo /\ lcd'.n \in Int /\ lcd'.n # Space
  BY <1>1, PrintedOne
<1>4. /\ DisplayTyped(at.d) /\ at.c \in [row : TermRows, col : Nat] /\ at.c.col < Cols
      /\ (lcd.logo => LogoStays(at.d))
  <2>1. CASE con.col >= Cols
    BY <1>2, <2>1, NewRow
  <2>2. CASE ~(con.col >= Cols)
    BY <1>2, <2>2
  <2> QED BY <2>1, <2>2
<1>5. term.same => Agree(at.d, at.c, s)
  <2>1. CASE con.col >= Cols
    BY <1>2, <2>1, AgreeNow, NewRowsAgree
  <2>2. CASE ~(con.col >= Cols)
    BY <1>2, <2>2, AgreeNow
  <2> QED BY <2>1, <2>2
<1>6. term.same => /\ s.same = TRUE /\ TermTyped(s) /\ s.col \in Nat
                   /\ TermPut(term, lcd'.n) = [Wrote(s, lcd'.n) EXCEPT !.col = s.col + 1]
  <2>1. ASSUME term.same
        PROVE  TermPut(term, lcd'.n) = [Wrote(s, lcd'.n) EXCEPT !.col = s.col + 1]
    <3>1. term.col = con.col
      BY <2>1 DEF ConsoleInv, CursorFollows
    <3> QED BY <3>1 DEF TermPut, Wrote
  <2>2. ASSUME term.same PROVE s.same = TRUE /\ TermTyped(s)
    BY <1>2, <2>2, Fed DEF TermTyped
  <2> HIDE DEF s
  <2> QED BY <2>1, <2>2 DEF TermTyped
<1> HIDE DEF at, s
<1>7. at.c.row \in TermRows /\ at.c.col \in Nat
  BY <1>4
<1>8. DisplayTyped(ddram') /\ (lcd'.logo => LogoStays(ddram'))
  BY <1>1, <1>2, <1>3, <1>4, <1>7, Drawn, DrawKeepsLogo
<1>9. /\ con' \in [row : TermRows, col : Nat] /\ con'.row = at.c.row
      /\ con'.col = at.c.col + 1 /\ con'.col <= Cols
  BY <1>1, <1>2, <1>4
<1>10. CASE term.same
  <2> DEFINE w == Wrote(s, lcd'.n)
  <2>1. Agree(ddram', at.c, w)
    BY <1>1, <1>2, <1>3, <1>5, <1>10, CharAgrees
  <2>2. term' = [w EXCEPT !.col = s.col + 1] /\ s.col \in Nat
    BY <1>1, <1>6, <1>10
  <2>3. s.col = at.c.col
    BY <1>5, <1>10 DEF Agree
  <2> HIDE DEF w
  <2>4. TermTyped(w) /\ w.row = at.c.row /\ Shows(ddram', w.text)
    BY <2>1 DEF Agree
  <2>5. /\ TermTyped(term') /\ term'.row = w.row /\ term'.col = s.col + 1
        /\ term'.text = w.text
    BY <2>2, <2>4 DEF TermTyped
  <2> QED BY <1>2, <1>3, <1>8, <1>9, <2>3, <2>4, <2>5, StepKeeps
<1>11. CASE ~term.same
  BY <1>1, <1>2, <1>3, <1>8, <1>9, <1>11, StepKeeps
<1> QED BY <1>10, <1>11

LEMMA Backs == ASSUME LcdSizes, ConsoleInv, PutBack PROVE ConsoleInv'
<1> DEFINE origin == [row |-> 0, col |-> 0]
           s == IF term.col > 0 THEN [term EXCEPT !.col = term.col - 1]
                ELSE IF term.row > 0 THEN [term EXCEPT !.col = Cols - 1, !.row = term.row - 1]
                ELSE term
<1>1. /\ Printed /\ con' = Back(con) /\ ddram' = Draw(ddram, Junk, con'.row, con'.col)
      /\ term' = IF term.same THEN [TermBack(term) EXCEPT !.same = (con # origin)] ELSE term
  BY DEF PutBack, Follow
<1>2. /\ lcd.build \in Builds /\ con \in [row : TermRows, col : Nat] /\ DisplayTyped(ddram)
      /\ TermTyped(term) /\ (lcd.logo => lcd.build.reserve > 0) /\ Cols \in Nat \ {0}
      /\ (lcd.logo => LogoStays(ddram)) /\ (con.col <= Cols \/ con.col <= Tabbed(Cols))
      /\ Tabbed(Cols) \in Nat
  BY TabReach DEF ConsoleInv, ConsoleTyped, LcdSizes, InReach
<1>3. /\ lcd' \in [build : {lcd.build}, logo : BOOLEAN, loaded : BOOLEAN, n : 0..MaxChars]
      /\ lcd'.logo = lcd.logo
  BY <1>1, PrintedOne
<1>4. \A r \in TermRows : r > 0 => r - 1 \in TermRows
  BY <1>2, ConsoleAtEnd DEF TermRows
<1>5. \A r \in TermRows : r \in Nat
  BY <1>2, ConsoleAtEnd DEF TermRows
<1>6. /\ con' \in [row : TermRows, col : Nat]
      /\ con.col > 0 => con'.col = con.col - 1 /\ con'.row = con.row
      /\ ~(con.col > 0) => /\ con'.col = Cols - 1
                           /\ con'.row = IF con.row > 0 THEN con.row - 1 ELSE 0
  BY <1>1, <1>2, <1>4, <1>5 DEF Back
<1>7. con'.row \in TermRows /\ con'.col \in Nat
      /\ (con'.col <= Cols \/ con'.col <= Tabbed(Cols))
  BY <1>2, <1>6
<1>8. Junk \in Int /\ Erased \in Int
  BY DEF Junk, Erased
<1>9. DisplayTyped(ddram') /\ (lcd'.logo => LogoStays(ddram'))
  BY <1>1, <1>2, <1>3, <1>7, <1>8, Drawn, DrawKeepsLogo
<1>10. CASE term.same
  <2>1. term.row = con.row /\ term.col = con.col /\ term.row \in TermRows /\ term.col \in Nat
    BY <1>2, <1>10 DEF ConsoleInv, CursorFollows, TermTyped
  <2>2. TermTyped(s) /\ s.text = term.text
    <3>1. CASE term.col > 0
      BY <1>2, <2>1, <3>1 DEF TermTyped
    <3>2. CASE ~(term.col > 0) /\ term.row > 0
      <4> DEFINE v == [term EXCEPT !.col = Cols - 1]
      <4>1. TermTyped(v) /\ v.text = term.text
        BY <1>2 DEF TermTyped
      <4>2. s = [v EXCEPT !.row = term.row - 1]
        BY <3>2
      <4>3. term.row - 1 \in TermRows
        BY <1>4, <2>1, <3>2
      <4> HIDE DEF v, s
      <4> QED BY <4>1, <4>2, <4>3 DEF TermTyped
    <3>3. CASE ~(term.col > 0) /\ ~(term.row > 0)
      BY <1>2, <3>3
    <3> QED BY <3>1, <3>2, <3>3
  <2>3. con # origin => s.row = con'.row /\ s.col = con'.col
    <3>1. con # origin => con.col > 0 \/ con.row > 0
      BY <1>2, <1>5
    <3> QED BY <1>2, <1>5, <1>6, <2>1, <3>1 DEF TermTyped
  <2>4. TermBack(term) = Wrote(s, Erased)
    BY DEF TermBack, Wrote
  <2> HIDE DEF s
  <2> DEFINE w == Wrote(s, Erased)
  <2>5. /\ TermTyped(w) /\ w.row = s.row /\ w.col = s.col
    BY <1>8, <2>2, CellWritten
  <2>6. con # origin => Shows(ddram', w.text)
    <3>1. ASSUME con # origin PROVE Agree(ddram, con', s)
      BY <1>2, <1>6, <1>10, <2>2, <2>3, <3>1 DEF Agree, ConsoleInv
    <3>2. ASSUME con # origin PROVE Agree(ddram', con', w)
      BY <1>1, <1>2, <1>8, <3>1, <3>2, CharAgrees
    <3> QED BY <3>2 DEF Agree
  <2> HIDE DEF w
  <2>7. term' = [w EXCEPT !.same = (con # origin)]
    BY <1>1, <1>10, <2>4 DEF w
  <2>8. (con # origin) \in BOOLEAN
    OBVIOUS
  <2>9. /\ TermTyped(term') /\ term'.row = w.row /\ term'.col = w.col /\ term'.text = w.text
        /\ term'.same = (con # origin)
    BY <2>5, <2>7, <2>8 DEF TermTyped
  <2> HIDE DEF origin
  <2> QED BY <1>2, <1>3, <1>6, <1>7, <1>9, <2>3, <2>5, <2>6, <2>9, StepKeeps
<1>11. CASE ~term.same
  BY <1>1, <1>2, <1>3, <1>6, <1>7, <1>9, <1>11, StepKeeps
<1> QED BY <1>10, <1>11

LEMMA ConsoleGoesOn == ASSUME LcdSizes, ConsoleInv, [Next]_vars PROVE ConsoleInv'
<1>1. CASE Next
  BY <1>1, Loads, Returns, Feeds, Tabs, Backs, Chars DEF Next
<1>2. CASE UNCHANGED vars
  <2>1. /\ lcd' = lcd /\ con' = con /\ ddram' = ddram /\ term' = term
    BY <1>2 DEF vars
  <2> QED
    BY <2>1, StepKeeps DEF ConsoleInv, ConsoleTyped, CursorFollows, InReach
<1> QED BY <1>1, <1>2

\* lcd_putc: what was printed is what the display shows, row by row, but where a step back
\* left no space and after the odd tabs and steps back ShowsText names, and the logo stays,
\* but the one the font of 16 lines scrolls into, for every size of the display, tab and
\* logo, and any number of characters.
THEOREM ConsoleShowsText == ASSUME LcdSizes PROVE Spec => [](LcdTypeOK /\ ShowsText)
<1>1. Init => ConsoleInv
  BY Starts
<1>2. ConsoleInv /\ [Next]_vars => ConsoleInv'
  BY ConsoleGoesOn
<1>3. ConsoleInv => LcdTypeOK /\ ShowsText
  <2> SUFFICES ASSUME ConsoleInv PROVE LcdTypeOK /\ ShowsText
    OBVIOUS
  <2>1. /\ lcd \in [build : Builds, logo : BOOLEAN, loaded : BOOLEAN, n : 0..MaxChars]
        /\ con \in [row : TermRows, col : Nat] /\ DisplayTyped(ddram) /\ TermTyped(term)
        /\ (lcd.logo => lcd.build.reserve > 0) /\ Cols \in Nat /\ Tab \in Nat
        /\ (con.col <= Cols \/ con.col <= Tabbed(Cols))
    BY DEF ConsoleInv, ConsoleTyped, InReach, LcdSizes
  <2>2. con.col \in 0..(Cols + Tab)
    BY <2>1, TabReach
  <2>3. LcdTypeOK
    BY <2>1, <2>2 DEF LcdTypeOK, DisplayTyped, AllPages, Columns
  <2>4. term.same => Shows(ddram, term.text)
    BY DEF ConsoleInv
  <2>5. ASSUME lcd.logo, NEW p \in 0..(Pages - lcd.build.reserve * Font - 1),
               Font = 1 \/ p < RowsOffset
        PROVE  ddram[p] = [col \in 0..(Cols - 1) |-> Logo(p)]
    <3>1. /\ RowsOffset \in Nat /\ RowsOffset * Font = Pages - lcd.build.reserve * Font
      BY <2>1, <2>5, ConsoleAtEnd
    <3>2. p \in TopPages
      BY <2>5, <3>1 DEF TopPages
    <3> QED BY <2>5, <3>2 DEF ConsoleInv, LogoStays, Columns
  <2> QED BY <2>3, <2>4, <2>5 DEF ShowsText, Shows, Columns, Halves
<1> QED BY <1>1, <1>2, <1>3, PTL DEF Spec
=============================================================================
