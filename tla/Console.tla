--------------------------------- MODULE Console ---------------------------------
(***************************************************************************)
(* The Amiga's text console and keyboard (src/amiga/conio.c) as operators. *)
(*                                                                         *)
(* A console is a record.  What the bitmap shows in a cell (px) and what   *)
(* the console believes it wrote there (cell) are kept apart, because the  *)
(* cursor block is painted over a character and taken away again by        *)
(* drawing what was believed to be under it.  A cell is a character and    *)
(* whether it is reversed.                                                 *)
(***************************************************************************)
EXTENDS Integers, Sequences, SequencesExt, TLC

CONSTANTS Columns, Rows    \* SCREEN_WIDTH, SCREEN_HEIGHT

ASSUME GridAssumption == Columns \in 1 .. 255 /\ Rows \in 1 .. 255

Space == " "
NewLine == "\n"
Blank == <<Space, FALSE>>
Block == <<Space, TRUE>>
Grid == (0 .. Columns - 1) \X (0 .. Rows - 1)
Empty == [p \in Grid |-> Blank]

\* File-scope state before the screen is open.
Closed ==
  [ready |-> FALSE, x |-> 0, y |-> 0, rev |-> FALSE, shown |-> FALSE,
   on |-> FALSE, at |-> <<0, 0>>, saved |-> Blank, cell |-> Empty, px |-> Empty]

Here(c) == <<c.x, c.y>>

\* render_cell: nothing outside the grid, nothing without a screen.
RenderCell(c, p, v) == IF c.ready /\ p \in Grid THEN [c EXCEPT !.px[p] = v] ELSE c

\* (mutant) the block is only forgotten
CursorErase_Leaves(c) == [c EXCEPT !.on = FALSE]

CursorErase(c) ==
  IF c.on THEN [RenderCell(c, c.at, c.saved) EXCEPT !.on = FALSE] ELSE c

CursorDraw(c) ==
  IF c.shown /\ c.ready /\ ~c.on /\ Here(c) \in Grid
  THEN [c EXCEPT !.at = Here(c), !.saved = c.cell[Here(c)], !.px[Here(c)] = Block, !.on = TRUE]
  ELSE c

Clear(c) ==
  IF c.ready THEN [CursorErase(c) EXCEPT !.px = Empty, !.cell = Empty, !.x = 0, !.y = 0] ELSE c

\* A line ends at the right edge; at the last row there is no further one.
NextLine(c) == [c EXCEPT !.x = 0, !.y = IF c.y < Rows - 1 THEN c.y + 1 ELSE Rows - 1]

DrawChar(c, ch) ==
  IF Here(c) \notin Grid THEN c
  ELSE IF ch = NewLine THEN NextLine(c)
  ELSE LET v == <<ch, c.rev>>
           d == [RenderCell(c, Here(c), v) EXCEPT !.cell[Here(c)] = v]
       IN  IF c.x < Columns - 1 THEN [d EXCEPT !.x = c.x + 1] ELSE NextLine(d)

-----------------------------------------------------------------------------
(* The functions of conio.h.                                               *)

\* Coordinates are uint8_t.
GotoXY(c, x, y) == CursorDraw([CursorErase(c) EXCEPT !.x = x % 256, !.y = y % 256])
GotoX(c, x) == GotoXY(c, x, c.y)

PutC(c, ch) == CursorDraw(DrawChar(CursorErase(c), ch))
PutS(c, s) ==
  LET drawn[k \in 0 .. Len(s)] == IF k = 0 THEN CursorErase(c) ELSE DrawChar(drawn[k - 1], s[k])
  IN  CursorDraw(drawn[Len(s)])
PutSXY(c, x, y, s) == PutS(GotoXY(c, x, y), s)

Revers(c, on) == IF on = c.rev THEN c ELSE CursorDraw([CursorErase(c) EXCEPT !.rev = on])

Cursor(c, on) ==
  IF on = c.shown THEN c
  ELSE LET d == [(IF on THEN c ELSE CursorErase(c)) EXCEPT !.shown = on]
       IN  IF on THEN CursorDraw(d) ELSE d

-----------------------------------------------------------------------------
(* The keyboard: messages of the window's port.                            *)

None == "none"

RowQ == <<"q", "w", "e", "r", "t", "y", "u", "i", "o", "p">>
RowA == <<"a", "s", "d", "f", "g", "h", "j", "k", "l">>
RowZ == <<"z", "x", "c", "v", "b", "n", "m">>
UpperQ == <<"Q", "W", "E", "R", "T", "Y", "U", "I", "O", "P">>
UpperA == <<"A", "S", "D", "F", "G", "H", "J", "K", "L">>
UpperZ == <<"Z", "X", "C", "V", "B", "N", "M">>
Digits == <<"1", "2", "3", "4", "5", "6", "7", "8", "9", "0">>

\* Keys with a character of their own, and with another one under shift.  The
\* grave accent goes by its name: in a TLA+ string it is a quote.
Signs ==
  [code \in {0} \cup 11 .. 13 \cup 26 .. 27 \cup 41 .. 42 \cup 56 .. 58 |->
     CASE code = 0  -> <<"grave", "~">>
       [] code = 11 -> <<"-", "_">>
       [] code = 12 -> <<"=", "+">>
       [] code = 13 -> <<"\\", "|">>
       [] code = 26 -> <<"[", "{">>
       [] code = 27 -> <<"]", "}">>
       [] code = 41 -> <<";", ":">>
       [] code = 42 -> <<"'", "\"">>
       [] code = 56 -> <<",", "<">>
       [] code = 57 -> <<".", ">">>
       [] code = 58 -> <<"/", "?">>]

Controls == <<Space, "del", "\t", "enter", "enter", "stop">>

\* rawkey_to_ascii: a digit has no character under shift, and the release of
\* a key none at all.
RawKey(m) ==
  LET Of(row, upper, first) == IF m.shift THEN upper[m.code - first + 1] ELSE row[m.code - first + 1]
  IN  CASE m.up -> None
        [] ~m.up /\ m.code \in 1 .. 10 -> IF m.shift THEN None ELSE Digits[m.code]
        [] ~m.up /\ m.code \in 16 .. 25 -> Of(RowQ, UpperQ, 16)
        [] ~m.up /\ m.code \in 32 .. 40 -> Of(RowA, UpperA, 32)
        [] ~m.up /\ m.code \in 49 .. 55 -> Of(RowZ, UpperZ, 49)
        [] ~m.up /\ m.code \in DOMAIN Signs -> Signs[m.code][IF m.shift THEN 2 ELSE 1]
        [] ~m.up /\ m.code \in 64 .. 69 -> Controls[m.code - 63]
        [] OTHER -> None

\* The messages of a port from the first that is a character on.
Mappable(port) == {k \in 1 .. Len(port) : RawKey(port[k]) # None}
FromKey(port) ==
  IF Mappable(port) = {} THEN <<>>
  ELSE SubSeq(port, CHOOSE k \in Mappable(port) : \A n \in Mappable(port) : k <= n, Len(port))

IsPrint(ch) == ch \notin {None, "del", "\t", "enter", "stop"}
=============================================================================
