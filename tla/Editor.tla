-------------------------------- MODULE Editor --------------------------------
(* The editor of the console (apps/editor.rs): a grid of characters, how many *)
(* of each row are in use, and a cursor that two modes move.  Behind the end  *)
(* of a line and below the last one the grid keeps what was there before.     *)
(* Typing a command behind the colon is one step with running it.             *)
EXTENDS Integers, Sequences

CONSTANTS
  ROWS, COLS,   \* rows of the grid and characters of a row
  Chars, Space, \* characters, Space among them
  Typed,        \* those the user types
  MaxEdits      \* bound: changes of the text

ASSUME EditorAssumption ==
  /\ ROWS \in Nat \ {0} /\ COLS \in Nat \ {0} /\ MaxEdits \in Nat
  /\ Space \in Chars /\ Typed \subseteq Chars

VARIABLES
  grid, len,  \* grid and line_len
  n,          \* n_lines
  r, c,       \* cur_r and cur_c
  mode,       \* "closed": no editor runs
  pending,    \* a d has been typed
  dirty,
  edits       \* bound

evars == <<grid, len, n, r, c, mode, pending, dirty, edits>>

Rows == 0 .. ROWS - 1
Cols == 0 .. COLS - 1
BlankRow == [i \in Cols |-> Space]
EmptyGrid == [i \in Rows |-> BlankRow]
NoLen == [i \in Rows |-> 0]

Smaller(a, b) == IF a < b THEN a ELSE b
SatSub(a, b) == IF a < b THEN 0 ELSE a - b

EditorInit ==
  /\ grid = EmptyGrid /\ len = NoLen /\ n = 1 /\ r = 0 /\ c = 0
  /\ mode = "closed" /\ pending = FALSE /\ dirty = FALSE /\ edits = 0

-------------------------------------------------------------------------------
(* load.  A file is the sequence of its lines; no bytes, no line. *)

(* The row of the last line read; a line end on the last row stops there. *)
LastRow(file) == Smaller(SatSub(Len(file), 1), ROWS - 1)

(* What does not fit is left out: of a long line its end, of a long file the  *)
(* lines below the grid and the text of the last row.                         *)
LoadedLen(file) ==
  [i \in Rows |-> IF i < Len(file) /\ (i < ROWS - 1 \/ Len(file) <= ROWS)
                  THEN Smaller(Len(file[i + 1]), COLS) ELSE 0]
LoadedGrid(file) ==
  [i \in Rows |-> [j \in Cols |->
     IF i < Len(file) /\ j < Len(file[i + 1]) THEN file[i + 1][j + 1] ELSE Space]]

Load(file) ==
  /\ mode = "closed" /\ mode' = "normal"
  /\ grid' = LoadedGrid(file) /\ len' = LoadedLen(file) /\ n' = LastRow(file) + 1
  /\ r' = 0 /\ c' = 0 /\ pending' = FALSE /\ dirty' = FALSE
  /\ UNCHANGED edits

(* save: the lines in use, as far as they are.  FILE_MAX_BYTES holds them all. *)
SavedText ==
  LET line(i) == [j \in 1 .. len[i - 1] |-> grid[i - 1][j - 1]]
  IN  IF n = 1 /\ len[0] = 0 THEN <<>> ELSE [i \in 1 .. n |-> line(i)]

-------------------------------------------------------------------------------
(* Moving and changing modes. *)

Cursor(row, col) == r' = row /\ c' = col
KeepText == UNCHANGED <<grid, len, n, dirty, edits>>

ClampedUnclamped(m, row, col, rowLen) == col   \* Mistake: the cursor stays where it was.
(* clamp_cursor: the column for row, of which rowLen characters are in use. *)
Clamped(m, row, col, rowLen) ==
  Smaller(col, IF m = "insert" THEN rowLen ELSE SatSub(rowLen, 1))

Moved(row, col) == Cursor(row, col) /\ UNCHANGED <<mode, pending>> /\ KeepText
NormalKey == mode = "normal" /\ ~pending

Left == c > 0 /\ Moved(r, c - 1)
Right == c + 1 < len[r] /\ Moved(r, c + 1)
Down == r + 1 < n /\ Moved(r + 1, Clamped(mode, r + 1, c, len[r + 1]))
Up == r > 0 /\ Moved(r - 1, Clamped(mode, r - 1, c, len[r - 1]))
LineStart == Moved(r, 0)
LineEnd == Moved(r, SatSub(len[r], 1))

(* i, a, A and I. *)
ToInsert(col) == mode' = "insert" /\ Cursor(r, col) /\ UNCHANGED pending /\ KeepText
EnterInsert ==
  \/ ToInsert(c)
  \/ ToInsert(IF len[r] > 0 THEN c + 1 ELSE c)
  \/ ToInsert(len[r])
  \/ ToInsert(0)

Colon == mode' = "command" /\ Cursor(r, c) /\ UNCHANGED pending /\ KeepText
WaitSecond == pending' = TRUE /\ Cursor(r, c) /\ UNCHANGED mode /\ KeepText

(* Esc while inserting. *)
Escape ==
  /\ mode = "insert" /\ mode' = "normal"
  /\ Cursor(r, Clamped("normal", r, SatSub(c, 1), len[r]))
  /\ UNCHANGED pending /\ KeepText

-------------------------------------------------------------------------------
(* Changing the text.  A change is counted and marks the text. *)

(* Mistake: a change is not marked. *)
ChangeUnmarked(newGrid, newLen, newN) ==
  /\ edits < MaxEdits /\ edits' = edits + 1
  /\ grid' = newGrid /\ len' = newLen /\ n' = newN
  /\ dirty' = dirty
Change(newGrid, newLen, newN) ==
  /\ edits < MaxEdits /\ edits' = edits + 1
  /\ grid' = newGrid /\ len' = newLen /\ n' = newN
  /\ dirty' = TRUE

InsertChar(ch) ==
  /\ mode = "insert" /\ len[r] < COLS
  /\ Change([grid EXCEPT ![r] = [j \in Cols |->
               IF j = c THEN ch ELSE IF j > c /\ j <= len[r] THEN @[j - 1] ELSE @[j]]],
            [len EXCEPT ![r] = @ + 1], n)
  /\ Cursor(r, c + 1) /\ UNCHANGED <<mode, pending>>

(* The lines below the cursor move down by one, from the last upwards. *)
DownFrom(f, row) == [i \in Rows |-> IF i > row /\ i <= n THEN f[i - 1] ELSE f[i]]
(* Mistake: the last line does not move. *)
UpFromShort(f, row) == [i \in Rows |-> IF i >= row /\ i < n - 2 THEN f[i + 1] ELSE f[i]]
(* The lines below row move up by one; the last stays behind in its row. *)
UpFrom(f, row) == [i \in Rows |-> IF i >= row /\ i < n - 1 THEN f[i + 1] ELSE f[i]]

InsertNewline ==
  LET tailLen == len[r] - c
      tail == [j \in Cols |-> IF j < tailLen THEN grid[r][c + j] ELSE Space]
  IN  /\ mode = "insert" /\ n < ROWS
      /\ Change([DownFrom(grid, r) EXCEPT ![r + 1] = tail],
                [DownFrom(len, r) EXCEPT ![r + 1] = tailLen, ![r] = c], n + 1)
      /\ Cursor(r + 1, 0) /\ UNCHANGED <<mode, pending>>

(* One character of row r goes; the rest of the line moves left. *)
Closed(line, at, lineLen) ==
  [j \in Cols |-> IF j >= at /\ j < lineLen - 1 THEN line[j + 1]
                  ELSE IF j = lineLen - 1 THEN Space ELSE line[j]]

Backspace ==
  /\ mode = "insert" /\ c > 0
  /\ Change([grid EXCEPT ![r] = Closed(@, c - 1, len[r])], [len EXCEPT ![r] = @ - 1], n)
  /\ Cursor(r, c - 1) /\ UNCHANGED <<mode, pending>>

Joins(prevLen, curLen) == prevLen + curLen <= COLS

(* At the start of a line it joins the line before, when both fit in a row. *)
JoinLines ==
  LET prev == len[r - 1]
      joined == [j \in Cols |-> IF j >= prev /\ j < prev + len[r] THEN grid[r][j - prev]
                                ELSE grid[r - 1][j]]
  IN  /\ mode = "insert" /\ c = 0 /\ r > 0 /\ Joins(prev, len[r])
      /\ Change(UpFrom([grid EXCEPT ![r - 1] = joined], r),
                UpFrom([len EXCEPT ![r - 1] = prev + len[r]], r), n - 1)
      /\ Cursor(r - 1, prev) /\ UNCHANGED <<mode, pending>>

(* x *)
DeleteChar ==
  /\ c < len[r]
  /\ Change([grid EXCEPT ![r] = Closed(@, c, len[r])], [len EXCEPT ![r] = @ - 1], n)
  /\ Cursor(r, IF c > 0 /\ c >= len[r] - 1 THEN SatSub(len[r] - 1, 1) ELSE c)
  /\ UNCHANGED <<mode, pending>>

(* o: also without room for a line the mode changes. *)
OpenLineBelow ==
  /\ IF n >= ROWS THEN Cursor(r, c) /\ KeepText
     ELSE /\ Change([DownFrom(grid, r) EXCEPT ![r + 1] = BlankRow],
                    [DownFrom(len, r) EXCEPT ![r + 1] = 0], n + 1)
          /\ Cursor(r + 1, 0)
  /\ mode' = "insert" /\ UNCHANGED pending

(* dd; the cursor is clamped afterwards. *)
DeleteLine ==
  /\ IF n <= 1
     THEN /\ Change([grid EXCEPT ![0] = BlankRow], [len EXCEPT ![0] = 0], n)
          /\ Cursor(r, 0)
     ELSE /\ Change(UpFrom(grid, r), UpFrom(len, r), n - 1)
          /\ Cursor(Smaller(r, n - 2), 0)
  /\ UNCHANGED mode

(* dw: to the end of the word and over the spaces behind it. *)
WordEnd(end) ==
  /\ \A j \in c .. end - 1 : \A k \in c .. j : grid[r][j] # Space => grid[r][k] # Space
  /\ end < len[r] => grid[r][end] # Space /\ \E j \in c .. end - 1 : grid[r][j] = Space
DeleteWord ==
  /\ c < len[r]
  /\ \E end \in c + 1 .. len[r] :
       LET del == end - c IN
       /\ WordEnd(end)
       /\ Change([grid EXCEPT ![r] = [j \in Cols |->
                    IF j >= c /\ j < len[r] - del THEN @[j + del]
                    ELSE IF j >= len[r] - del /\ j < len[r] THEN Space ELSE @[j]]],
                 [len EXCEPT ![r] = @ - del], n)
       /\ Cursor(r, Clamped(mode, r, c, len[r] - del))
  /\ UNCHANGED mode

(* Any other key after a d, or dw with no character under the cursor. *)
NoSecond == Cursor(r, Clamped(mode, r, c, len[r])) /\ UNCHANGED mode /\ KeepText

-------------------------------------------------------------------------------

HandleNormal ==
  /\ NormalKey
  /\ \/ Left \/ Right \/ Down \/ Up \/ LineStart \/ LineEnd
     \/ EnterInsert \/ OpenLineBelow \/ DeleteChar \/ WaitSecond \/ Colon

HandleSecond ==
  /\ mode = "normal" /\ pending /\ pending' = FALSE
  /\ DeleteLine \/ DeleteWord \/ NoSecond

HandleInsert ==
  Escape \/ InsertNewline \/ Backspace \/ JoinLines \/ \E ch \in Typed : InsertChar(ch)

(* handle_command: Esc or a word that is no command. *)
Command(isDirty) ==
  /\ mode = "command" /\ mode' = "normal" /\ dirty' = isDirty
  /\ UNCHANGED <<grid, len, n, r, c, pending, edits>>
NoCommand == Command(dirty)

(* w; what save wrote is SavedText. *)
SaveCommand == Command(FALSE)
(* q and q!, and wq and x once save has written: the editor is gone. *)
QuitCommand ==
  /\ mode = "command" /\ mode' = "closed"
  /\ grid' = EmptyGrid /\ len' = NoLen /\ n' = 1 /\ Cursor(0, 0)
  /\ dirty' = FALSE /\ UNCHANGED <<pending, edits>>

EditorKey == HandleNormal \/ HandleSecond \/ HandleInsert \/ NoCommand

(* By itself the editor is opened on any file. *)
EditorNext ==
  \/ EditorKey \/ SaveCommand \/ QuitCommand
  \/ \E file \in Seq(Seq(Chars)) : Load(file)
EditorSpec == EditorInit /\ [][EditorNext]_evars

-------------------------------------------------------------------------------
(* Properties. *)

(* The rows in use, their lengths and the cursor lie within the grid in every *)
(* mode: no key reads or writes outside the arrays, or counts below zero      *)
(* (len - c when a line is split, c - 1 and len - 1 when it shrinks).         *)
InBounds ==
  /\ n \in 1 .. ROWS /\ r \in 0 .. n - 1
  /\ len \in [Rows -> 0 .. COLS] /\ grid \in [Rows -> [Cols -> Chars]]
  /\ c \in Nat /\ IF mode = "insert" THEN c <= len[r] ELSE c <= SatSub(len[r], 1)

(* What the editor promises of a text is what the grid does (EditorText).     *)
TextLines == [i \in 1 .. n |-> [j \in 1 .. len[i - 1] |-> grid[i - 1][j - 1]]] \o <<>>
Text == INSTANCE EditorText WITH lines <- TextLines, row <- r + 1, col <- c + 1
ImplementsText == Text!TextSpec
================================================================================
