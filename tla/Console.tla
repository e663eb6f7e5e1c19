-------------------------------- MODULE Console --------------------------------
(* The text console (gui/framebuffer.rs): cells in rows and columns, a place  *)
(* to write and a blinking cursor there.  A row that is full is left only     *)
(* when the next character comes.                                             *)
EXTENDS Integers, Sequences, SequencesExt

CONSTANTS Columns, Lines   \* cols and rows of the screen

ASSUME ConsoleAssumption == Columns \in Nat \ {0} /\ Lines \in Nat \ {0, 1}

Blank == " "
Block == "block"      \* the cursor when it is on
Newline == "newline"
Rubout == "rubout"    \* 0x08

BlankLine == [x \in 0 .. Columns - 1 |-> Blank]
(* clear *)
Cleared == [cell |-> [y \in 0 .. Lines - 1 |-> BlankLine], col |-> 0, row |-> 0, cursor |-> FALSE]

(* draw_glyph and fill_cell: what lies behind the edge is not drawn. *)
Draw(s, ch) == IF s.col < Columns THEN [s EXCEPT !.cell[s.row][s.col] = ch] ELSE s

ToNewline(s) ==
  IF s.row + 1 < Lines THEN [s EXCEPT !.col = 0, !.row = @ + 1]
  ELSE [s EXCEPT !.col = 0,
                 !.cell = [y \in 0 .. Lines - 1 |-> IF y = Lines - 1 THEN BlankLine ELSE s.cell[y + 1]]]

(* Mistake: a character is rubbed out only in the row of the cursor. *)
BackInRow(s) == IF s.col > 0 THEN [s EXCEPT !.col = @ - 1] ELSE s
Back(s) ==
  IF s.col > 0 THEN [s EXCEPT !.col = @ - 1]
  ELSE IF s.row > 0 THEN [s EXCEPT !.row = @ - 1, !.col = Columns - 1]
  ELSE s

WriteChar(s, ch) ==
  CASE ch = Newline -> ToNewline(s)
    [] ch = Rubout  -> Draw(Back(s), Blank)
    [] OTHER        -> LET at == IF s.col >= Columns THEN ToNewline(s) ELSE s
                       IN  [Draw(at, ch) EXCEPT !.col = @ + 1]

(* toggle_cursor and hide_cursor; everything printed hides the cursor first. *)
ToggleCursor(s) == [Draw(s, IF s.cursor THEN Blank ELSE Block) EXCEPT !.cursor = ~@]
HideCursor(s) == IF s.cursor THEN ToggleCursor(s) ELSE s
Put(s, chars) ==
  LET shown[k \in 0 .. Len(chars)] ==
        IF k = 0 THEN HideCursor(s) ELSE WriteChar(shown[k - 1], chars[k])
  IN  shown[Len(chars)]
================================================================================
