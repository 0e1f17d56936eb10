----------------------------- MODULE MCBurnFlash -----------------------------
(* Small instances of BurnFlash: three sectors of two cells, the last two the  *)
(* boot loader, of which the chip protects nothing, all, or the last.          *)
EXTENDS BurnFlash

TwoBits == {"d7", "d0"}
MCStart == <<4, 6, 8>>
MCMark  == {"d7"}
A       == {"d0"}
MCLoaders == { <<MCMark, A, A, A>>, <<MCMark, {}, {}, A>> }
MCFactory == [c \in 4 .. 9 |-> CASE c = 6 -> MCMark [] c > 6 -> A [] OTHER -> Erased]

Image(fault, start, erase, data) ==
    [fault |-> fault, start |-> start, erase |-> erase, data |-> data]

Full     == Image(0, 4, 6, <<A, {}, MCMark, {}, {}, A>>)      \* the whole flash
Body     == Image(0, 4, 2, <<{}>>)                              \* ends within a word
NoLoader == Image(0, 6, 4, <<A, A, A, A>>)
Broken   == Image(2, 4, 6, <<A>>)
\* Headers that do not agree with the flash or with the data.
NoErase  == Image(0, 5, 0, <<{"d7"}>>)                      \* starts within a word
Spill    == Image(0, 4, 2, <<A, A, MCMark, A>>)
Wrapped  == Image(0, 9, 2, <<A>>)
Tiny     == Image(0, 8, 2, <<A>>)
Nothing  == Image(0, 0, 0, <<>>)
\* Erasing nothing first: the second cannot be written over the first.
OnTop == { Image(0, 4, 0, << {}, {} >>), Image(0, 4, 0, <<A, {}>>) }

NoProtection == { {} }
MCProtections == { {}, {3}, {2, 3} }
MCTorn == { {}, Erased }
ProperImages == {Full, Body, NoLoader, Broken}
AllImages == ProperImages \cup {NoErase, Spill, Wrapped, Tiny, Nothing}
=============================================================================
