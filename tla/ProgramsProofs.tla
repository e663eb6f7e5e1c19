----------------------------- MODULE ProgramsProofs -----------------------------
(* Shell: the editor stays inside its arrays and does to a text what          *)
(* EditorText says, for every size of the grid and every file it is opened    *)
(* on; the Files window shows its folder, and what is not marked as changed   *)
(* is saved.                                                                  *)
(* Sound: a song is heard sample by sample and to its end, and nothing sounds *)
(* that nobody plays, for every length of the buffer that is a number of      *)
(* times 256 samples, all songs, and any order of samples, ticks, clicks.     *)
(* Script: what an expression is evaluated to is what it means, for all       *)
(* expressions, all numbers and all variables.                                *)
EXTENDS Shell, Sound, Script, FiniteSetTheorems, SequenceTheorems, WellFoundedInduction, TLAPS

(* The parts of InBounds a step has to give again. *)
RowsFit == n \in 1 .. ROWS /\ r \in 0 .. n - 1
TextFits == len \in [Rows -> 0 .. COLS] /\ grid \in [Rows -> [Cols -> Chars]]
ColumnFits(m, col, rowLen) == col \in Nat /\ IF m = "insert" THEN col <= rowLen ELSE col <= SatSub(rowLen, 1)

(* InBounds is these parts. *)
LEMMA Parts == InBounds <=> RowsFit /\ TextFits /\ ColumnFits(mode, c, len[r])
BY DEF InBounds, RowsFit, TextFits, ColumnFits

(* What the steps need to know of a state in bounds. *)
LEMMA Facts ==
  ASSUME InBounds
  PROVE  /\ ROWS \in Nat /\ COLS \in Nat /\ n \in Nat /\ r \in Nat /\ c \in Nat
         /\ 0 < n /\ n <= ROWS /\ r < n /\ r \in Rows
         /\ len \in [Rows -> 0 .. COLS] /\ grid \in [Rows -> [Cols -> Chars]]
         /\ len[r] \in Nat /\ len[r] <= COLS
         /\ Space \in Chars /\ Typed \subseteq Chars
BY EditorAssumption DEF InBounds, Rows

(* clamp_cursor gives a column the mode allows. *)
LEMMA ClampFits ==
  ASSUME NEW m, NEW row, NEW col \in Nat, NEW rowLen \in Nat
  PROVE  ColumnFits(m, Clamped(m, row, col, rowLen), rowLen)
BY DEF ColumnFits, Clamped, Smaller, SatSub

(* Rows that move by one are rows, and their lengths are lengths. *)
LEMMA MovedRows ==
  ASSUME n \in 1 .. ROWS, ROWS \in Nat, NEW row \in Nat, NEW g \in [Rows -> [Cols -> Chars]]
  PROVE  DownFrom(g, row) \in [Rows -> [Cols -> Chars]] /\ UpFrom(g, row) \in [Rows -> [Cols -> Chars]]
BY DEF DownFrom, UpFrom, Rows

LEMMA MovedLengths ==
  ASSUME n \in 1 .. ROWS, ROWS \in Nat, NEW row \in Nat, NEW l \in [Rows -> 0 .. COLS]
  PROVE  DownFrom(l, row) \in [Rows -> 0 .. COLS] /\ UpFrom(l, row) \in [Rows -> 0 .. COLS]
BY DEF DownFrom, UpFrom, Rows

(* A line that closes over a character is a line. *)
LEMMA ClosedLine ==
  ASSUME NEW line \in [Cols -> Chars], NEW at \in Nat, NEW lineLen \in Nat, lineLen <= COLS,
         COLS \in Nat, Space \in Chars
  PROVE  Closed(line, at, lineLen) \in [Cols -> Chars]
<1> SUFFICES ASSUME NEW j \in Cols
             PROVE  (IF j >= at /\ j < lineLen - 1 THEN line[j + 1]
                     ELSE IF j = lineLen - 1 THEN Space ELSE line[j]) \in Chars
  BY DEF Closed
<1>1. CASE j >= at /\ j < lineLen - 1
  <2>1. j + 1 \in Cols
    BY <1>1 DEF Cols
  <2> QED BY <1>1, <2>1
<1>2. CASE ~(j >= at /\ j < lineLen - 1)
  BY <1>2
<1> QED BY <1>1, <1>2

-------------------------------------------------------------------------------

(* Opening a file. *)
LEMMA LoadInBounds ==
  ASSUME NEW file \in Seq(Seq(Chars)), Load(file)
  PROVE  InBounds'
<1>1. ROWS \in Nat /\ ROWS > 0 /\ COLS \in Nat /\ Space \in Chars
  BY EditorAssumption
<1>2. Len(file) \in Nat /\ \A i \in 1 .. Len(file) : file[i] \in Seq(Chars)
  OBVIOUS
<1>3. RowsFit'
  BY <1>1, <1>2 DEF Load, RowsFit, LastRow, Smaller, SatSub
<1>4. LoadedLen(file) \in [Rows -> 0 .. COLS]
  <2> SUFFICES ASSUME NEW i \in Rows, i < Len(file)
               PROVE  Smaller(Len(file[i + 1]), COLS) \in 0 .. COLS
    BY <1>1 DEF LoadedLen
  <2>1. i + 1 \in 1 .. Len(file)
    BY <1>2 DEF Rows
  <2>2. Len(file[i + 1]) \in Nat
    BY <1>2, <2>1
  <2> QED BY <1>1, <2>2 DEF Smaller
<1>5. LoadedGrid(file) \in [Rows -> [Cols -> Chars]]
  <2> SUFFICES ASSUME NEW i \in Rows, NEW j \in Cols, i < Len(file), j < Len(file[i + 1])
               PROVE  file[i + 1][j + 1] \in Chars
    BY <1>1 DEF LoadedGrid
  <2>1. i + 1 \in 1 .. Len(file)
    BY <1>2 DEF Rows
  <2>2. file[i + 1] \in Seq(Chars)
    BY <1>2, <2>1
  <2>3. j + 1 \in 1 .. Len(file[i + 1])
    BY <2>2 DEF Cols
  <2> QED BY <2>2, <2>3
<1>6. TextFits'
  BY <1>4, <1>5 DEF Load, TextFits, Rows, Cols
<1>7. len'[r'] \in Nat
  BY <1>1, <1>6 DEF Load, TextFits, Rows
<1>8. ColumnFits(mode, c, len[r])'
  BY <1>7 DEF Load, ColumnFits, SatSub
<1> QED BY <1>3, <1>6, <1>8 DEF InBounds, RowsFit, TextFits, ColumnFits

-------------------------------------------------------------------------------

(* A step that leaves the text alone keeps it in bounds when the cursor is. *)
LEMMA OnlyCursor ==
  ASSUME InBounds, KeepText, RowsFit', ColumnFits(mode', c', len[r'])
  PROVE  InBounds'
<1>1. TextFits'
  BY DEF InBounds, KeepText, TextFits, Rows, Cols
<1>2. len' = len
  BY DEF KeepText
<1> QED BY <1>1, <1>2 DEF InBounds, RowsFit, TextFits, ColumnFits

(* A step that changes the text keeps it in bounds when the new text and the *)
(* new cursor are.                                                           *)
LEMMA NewText ==
  ASSUME grid' \in [Rows -> [Cols -> Chars]], len' \in [Rows -> 0 .. COLS],
         n' \in 1 .. ROWS, r' \in 0 .. n' - 1, ColumnFits(mode', c', len'[r'])
  PROVE  InBounds'
BY DEF InBounds, ColumnFits, Rows, Cols

(* The keys that move the cursor or change the mode. *)
LEMMA NormalKeepsText ==
  ASSUME InBounds, mode = "normal",
         \/ Left \/ Right \/ Down \/ Up \/ LineStart \/ LineEnd
         \/ EnterInsert \/ WaitSecond \/ Colon \/ NoSecond
  PROVE  InBounds'
<1> USE Facts
<1>1. n' = n /\ len' = len /\ KeepText
  BY DEF Left, Right, Down, Up, LineStart, LineEnd, EnterInsert, ToInsert, WaitSecond, Colon,
         NoSecond, Moved, KeepText
<1>2. c <= SatSub(len[r], 1)
  BY DEF InBounds
<1>3. RowsFit' /\ ColumnFits(mode', c', len[r'])
  <2>1. CASE Left \/ Right \/ LineStart \/ LineEnd
    BY <1>1, <1>2, <2>1
    DEF Left, Right, LineStart, LineEnd, Moved, Cursor, RowsFit, ColumnFits, SatSub
  <2>2. CASE Down
    <3>1. r + 1 \in Rows /\ len[r + 1] \in Nat
      BY <2>2 DEF Down, Rows
    <3>2. ColumnFits(mode, Clamped(mode, r + 1, c, len[r + 1]), len[r + 1])
      BY <3>1, ClampFits
    <3> QED BY <1>1, <2>2, <3>2 DEF Down, Moved, Cursor, RowsFit
  <2>3. CASE Up
    <3>1. r - 1 \in Rows /\ len[r - 1] \in Nat
      BY <2>3 DEF Up, Rows
    <3>2. ColumnFits(mode, Clamped(mode, r - 1, c, len[r - 1]), len[r - 1])
      BY <3>1, ClampFits
    <3> QED BY <1>1, <2>3, <3>2 DEF Up, Moved, Cursor, RowsFit
  <2>4. CASE EnterInsert
    BY <1>1, <1>2, <2>4 DEF EnterInsert, ToInsert, Cursor, RowsFit, ColumnFits, SatSub
  <2>5. CASE WaitSecond \/ Colon
    BY <1>1, <1>2, <2>5 DEF WaitSecond, Colon, Cursor, RowsFit, ColumnFits
  <2>6. CASE NoSecond
    <3>1. ColumnFits(mode, Clamped(mode, r, c, len[r]), len[r])
      BY ClampFits
    <3> QED BY <1>1, <2>6, <3>1 DEF NoSecond, Cursor, RowsFit
  <2> QED BY <2>1, <2>2, <2>3, <2>4, <2>5, <2>6
<1> QED BY <1>1, <1>3, OnlyCursor

LEMMA EscapeInBounds ==
  ASSUME InBounds, Escape
  PROVE  InBounds'
<1> USE Facts
<1>1. ColumnFits("normal", Clamped("normal", r, SatSub(c, 1), len[r]), len[r])
  BY ClampFits DEF SatSub
<1>2. RowsFit' /\ ColumnFits(mode', c', len[r']) /\ KeepText
  BY <1>1 DEF Escape, Cursor, RowsFit, KeepText
<1> QED BY <1>2, OnlyCursor

-------------------------------------------------------------------------------
(* The keys that change the text while it is inserted. *)

LEMMA InsertCharInBounds ==
  ASSUME InBounds, NEW ch \in Typed, InsertChar(ch)
  PROVE  InBounds'
<1> USE Facts
<1> DEFINE line == [j \in Cols |-> IF j = c THEN ch ELSE IF j > c /\ j <= len[r] THEN grid[r][j - 1]
                                   ELSE grid[r][j]]
<1>1. line \in [Cols -> Chars]
  <2> SUFFICES ASSUME NEW j \in Cols
               PROVE  (IF j = c THEN ch ELSE IF j > c /\ j <= len[r] THEN grid[r][j - 1]
                       ELSE grid[r][j]) \in Chars
    OBVIOUS
  <2>1. CASE j > c /\ j <= len[r]
    <3>1. j - 1 \in Cols
      BY <2>1 DEF Cols
    <3> QED BY <2>1, <3>1
  <2> QED BY <2>1
<1> HIDE DEF line
<1>2. /\ grid' = [grid EXCEPT ![r] = line] /\ len' = [len EXCEPT ![r] = @ + 1] /\ n' = n
      /\ len[r] < COLS /\ mode = "insert" /\ mode' = mode /\ r' = r /\ c' = c + 1
  BY DEF InsertChar, Change, Cursor, line
<1>3. [grid EXCEPT ![r] = line] \in [Rows -> [Cols -> Chars]]
  BY <1>1
<1>4. [len EXCEPT ![r] = @ + 1] \in [Rows -> 0 .. COLS]
  BY <1>2
<1>5. ColumnFits(mode', c', [len EXCEPT ![r] = @ + 1][r'])
  BY <1>2 DEF InBounds, ColumnFits
<1> QED BY <1>2, <1>3, <1>4, <1>5, NewText

LEMMA NewlineInBounds ==
  ASSUME InBounds, InsertNewline
  PROVE  InBounds'
<1> USE Facts
<1> DEFINE tailLen == len[r] - c
           tail == [j \in Cols |-> IF j < tailLen THEN grid[r][c + j] ELSE Space]
<1>1. tailLen \in 0 .. COLS
  BY DEF InsertNewline, InBounds
<1>2. tail \in [Cols -> Chars]
  <2> SUFFICES ASSUME NEW j \in Cols, j < tailLen
               PROVE  grid[r][c + j] \in Chars
    OBVIOUS
  <2>1. c + j \in Cols
    BY DEF Cols
  <2> QED BY <2>1
<1>3. /\ grid' = [DownFrom(grid, r) EXCEPT ![r + 1] = tail]
      /\ len' = [DownFrom(len, r) EXCEPT ![r + 1] = tailLen, ![r] = c] /\ n' = n + 1
      /\ n < ROWS /\ mode = "insert" /\ mode' = mode /\ r' = r + 1 /\ c' = 0
  BY DEF InsertNewline, Change, Cursor
<1> HIDE DEF tail, tailLen
<1>4. DownFrom(grid, r) \in [Rows -> [Cols -> Chars]] /\ DownFrom(len, r) \in [Rows -> 0 .. COLS]
  BY MovedRows, MovedLengths
<1>5. r + 1 \in Rows /\ c \in 0 .. COLS
  BY <1>3 DEF Rows, InBounds
<1>6. [DownFrom(grid, r) EXCEPT ![r + 1] = tail] \in [Rows -> [Cols -> Chars]]
  BY <1>2, <1>4
<1>7. [DownFrom(len, r) EXCEPT ![r + 1] = tailLen, ![r] = c] \in [Rows -> 0 .. COLS]
  BY <1>1, <1>4, <1>5
<1>8. [DownFrom(len, r) EXCEPT ![r + 1] = tailLen, ![r] = c][r + 1] \in Nat
  BY <1>5, <1>7
<1>9. ColumnFits(mode', c', [DownFrom(len, r) EXCEPT ![r + 1] = tailLen, ![r] = c][r'])
  BY <1>3, <1>8 DEF ColumnFits
<1> QED BY <1>3, <1>6, <1>7, <1>9, NewText

LEMMA BackspaceInBounds ==
  ASSUME InBounds, Backspace
  PROVE  InBounds'
<1> USE Facts
<1>1. /\ grid' = [grid EXCEPT ![r] = Closed(@, c - 1, len[r])] /\ len' = [len EXCEPT ![r] = @ - 1] /\ n' = n
      /\ c > 0 /\ mode = "insert" /\ mode' = mode /\ r' = r /\ c' = c - 1
  BY DEF Backspace, Change, Cursor
<1>2. c <= len[r]
  BY <1>1 DEF InBounds
<1>3. Closed(grid[r], c - 1, len[r]) \in [Cols -> Chars]
  BY <1>1, ClosedLine
<1>4. [grid EXCEPT ![r] = Closed(@, c - 1, len[r])] \in [Rows -> [Cols -> Chars]]
  BY <1>3
<1>5. [len EXCEPT ![r] = @ - 1] \in [Rows -> 0 .. COLS]
  BY <1>1, <1>2
<1>6. ColumnFits(mode', c', [len EXCEPT ![r] = @ - 1][r'])
  BY <1>1, <1>2 DEF ColumnFits
<1> QED BY <1>1, <1>4, <1>5, <1>6, NewText

LEMMA JoinInBounds ==
  ASSUME InBounds, JoinLines
  PROVE  InBounds'
<1> USE Facts
<1> DEFINE prev == len[r - 1]
           joined == [j \in Cols |-> IF j >= prev /\ j < prev + len[r] THEN grid[r][j - prev]
                                     ELSE grid[r - 1][j]]
           g == [grid EXCEPT ![r - 1] = joined]
           l == [len EXCEPT ![r - 1] = prev + len[r]]
<1>1. /\ grid' = UpFrom(g, r) /\ len' = UpFrom(l, r) /\ n' = n - 1
      /\ r > 0 /\ prev + len[r] <= COLS
      /\ mode = "insert" /\ mode' = mode /\ r' = r - 1 /\ c' = prev
  BY DEF JoinLines, Joins, Change, Cursor
<1>2. r - 1 \in Rows /\ prev \in Nat
  BY <1>1 DEF Rows
<1>3. joined \in [Cols -> Chars]
  <2> SUFFICES ASSUME NEW j \in Cols
               PROVE  (IF j >= prev /\ j < prev + len[r] THEN grid[r][j - prev]
                       ELSE grid[r - 1][j]) \in Chars
    OBVIOUS
  <2>1. CASE j >= prev /\ j < prev + len[r]
    <3>1. j - prev \in Cols
      BY <1>2, <2>1 DEF Cols
    <3> QED BY <2>1, <3>1
  <2> QED BY <1>2, <2>1
<1> HIDE DEF joined
<1>4. g \in [Rows -> [Cols -> Chars]]
  BY <1>2, <1>3
<1>5. l \in [Rows -> 0 .. COLS] /\ l[r - 1] = prev + len[r]
  BY <1>1, <1>2
<1> HIDE DEF g, l, prev
<1>6. UpFrom(g, r) \in [Rows -> [Cols -> Chars]] /\ UpFrom(l, r) \in [Rows -> 0 .. COLS]
  <2>1. n \in 1 .. ROWS
    OBVIOUS
  <2>2. UpFrom(g, r) \in [Rows -> [Cols -> Chars]]
    BY <1>4, <2>1, MovedRows
  <2>3. UpFrom(l, r) \in [Rows -> 0 .. COLS]
    BY <1>5, <2>1, MovedLengths
  <2> QED BY <2>2, <2>3
<1>7. UpFrom(l, r)[r - 1] = prev + len[r]
  BY <1>2, <1>5 DEF UpFrom
<1>8. ColumnFits(mode', c', UpFrom(l, r)[r'])
  BY <1>1, <1>2, <1>7 DEF ColumnFits
<1>9. n - 1 \in 1 .. ROWS /\ r' \in 0 .. n - 1 - 1
  BY <1>1
<1> QED BY <1>1, <1>6, <1>8, <1>9, NewText
-------------------------------------------------------------------------------
(* The keys that change the text otherwise. *)

LEMMA DeleteCharInBounds ==
  ASSUME InBounds, mode = "normal", DeleteChar
  PROVE  InBounds'
<1> USE Facts
<1>1. /\ grid' = [grid EXCEPT ![r] = Closed(@, c, len[r])] /\ len' = [len EXCEPT ![r] = @ - 1] /\ n' = n
      /\ c < len[r] /\ mode' = mode /\ r' = r
      /\ c' = IF c > 0 /\ c >= len[r] - 1 THEN SatSub(len[r] - 1, 1) ELSE c
  BY DEF DeleteChar, Change, Cursor
<1>2. Closed(grid[r], c, len[r]) \in [Cols -> Chars]
  BY ClosedLine
<1>3. [grid EXCEPT ![r] = Closed(@, c, len[r])] \in [Rows -> [Cols -> Chars]]
  BY <1>2
<1>4. [len EXCEPT ![r] = @ - 1] \in [Rows -> 0 .. COLS]
  BY <1>1
<1>5. ColumnFits(mode', c', [len EXCEPT ![r] = @ - 1][r'])
  BY <1>1 DEF ColumnFits, SatSub
<1> QED BY <1>1, <1>3, <1>4, <1>5, NewText

LEMMA OpenLineInBounds ==
  ASSUME InBounds, mode = "normal", OpenLineBelow
  PROVE  InBounds'
<1> USE Facts
<1>1. CASE n >= ROWS
  <2>1. RowsFit' /\ ColumnFits(mode', c', len[r']) /\ KeepText
    BY <1>1 DEF OpenLineBelow, Cursor, KeepText, RowsFit, ColumnFits, InBounds, SatSub
  <2> QED BY <2>1, OnlyCursor
<1>2. CASE n < ROWS
  <2>1. /\ grid' = [DownFrom(grid, r) EXCEPT ![r + 1] = BlankRow]
        /\ len' = [DownFrom(len, r) EXCEPT ![r + 1] = 0] /\ n' = n + 1
        /\ mode' = "insert" /\ r' = r + 1 /\ c' = 0
    BY <1>2 DEF OpenLineBelow, Change, Cursor
  <2>2. r + 1 \in Rows /\ BlankRow \in [Cols -> Chars]
    BY <1>2 DEF Rows, BlankRow
  <2>3. DownFrom(grid, r) \in [Rows -> [Cols -> Chars]] /\ DownFrom(len, r) \in [Rows -> 0 .. COLS]
    BY MovedRows, MovedLengths
  <2>4. grid' \in [Rows -> [Cols -> Chars]] /\ len' \in [Rows -> 0 .. COLS]
    BY <2>1, <2>2, <2>3
  <2>5. ColumnFits(mode', c', len'[r'])
    BY <2>1, <2>2, <2>4 DEF ColumnFits
  <2> QED BY <1>2, <2>1, <2>4, <2>5, NewText
<1> QED BY <1>1, <1>2

LEMMA DeleteLineInBounds ==
  ASSUME InBounds, mode = "normal", DeleteLine
  PROVE  InBounds'
<1> USE Facts
<1>1. CASE n <= 1
  <2>1. /\ grid' = [grid EXCEPT ![0] = BlankRow] /\ len' = [len EXCEPT ![0] = 0] /\ n' = n
        /\ mode' = mode /\ r' = r /\ c' = 0
    BY <1>1 DEF DeleteLine, Change, Cursor
  <2>2. BlankRow \in [Cols -> Chars]
    BY DEF BlankRow
  <2>3. grid' \in [Rows -> [Cols -> Chars]] /\ len' \in [Rows -> 0 .. COLS]
    <3>1. [grid EXCEPT ![0] = BlankRow] \in [Rows -> [Cols -> Chars]]
      BY <2>2
    <3>2. [len EXCEPT ![0] = 0] \in [Rows -> 0 .. COLS]
      <4>1. len \in [Rows -> 0 .. COLS] /\ 0 \in 0 .. COLS
        OBVIOUS
      <4> HIDE Facts
      <4> QED BY <4>1
    <3> QED BY <2>1, <3>1, <3>2
  <2>4. len'[r'] \in Nat
    BY <2>1, <2>3
  <2>5. ColumnFits(mode', c', len'[r'])
    BY <2>1, <2>4 DEF ColumnFits, SatSub
  <2> QED BY <2>1, <2>3, <2>5, NewText
<1>2. CASE n > 1
  <2>1. /\ grid' = UpFrom(grid, r) /\ len' = UpFrom(len, r) /\ n' = n - 1
        /\ mode' = mode /\ r' = Smaller(r, n - 2) /\ c' = 0
    BY <1>2 DEF DeleteLine, Change, Cursor
  <2>2. grid' \in [Rows -> [Cols -> Chars]] /\ len' \in [Rows -> 0 .. COLS]
    BY <2>1, MovedRows, MovedLengths
  <2>3. r' \in 0 .. n' - 1 /\ n' \in 1 .. ROWS /\ r' \in Rows
    BY <1>2, <2>1 DEF Smaller, Rows
  <2>4. ColumnFits(mode', c', len'[r'])
    BY <2>1, <2>2, <2>3 DEF ColumnFits, SatSub
  <2> QED BY <2>2, <2>3, <2>4, NewText
<1> QED BY <1>1, <1>2

LEMMA DeleteWordInBounds ==
  ASSUME InBounds, mode = "normal", DeleteWord
  PROVE  InBounds'
<1> USE Facts
<1>1. PICK end \in c + 1 .. len[r] :
        /\ Change([grid EXCEPT ![r] = [j \in Cols |->
                     IF j >= c /\ j < len[r] - (end - c) THEN @[j + (end - c)]
                     ELSE IF j >= len[r] - (end - c) /\ j < len[r] THEN Space ELSE @[j]]],
                  [len EXCEPT ![r] = @ - (end - c)], n)
        /\ Cursor(r, Clamped(mode, r, c, len[r] - (end - c)))
  BY DEF DeleteWord
<1> DEFINE del == end - c
           line == [j \in Cols |-> IF j >= c /\ j < len[r] - del THEN grid[r][j + del]
                                   ELSE IF j >= len[r] - del /\ j < len[r] THEN Space ELSE grid[r][j]]
<1>2. del \in 1 .. len[r] /\ len[r] - del \in Nat
  OBVIOUS
<1>3. line \in [Cols -> Chars]
  <2> SUFFICES ASSUME NEW j \in Cols, j >= c, j < len[r] - del
               PROVE  grid[r][j + del] \in Chars
    OBVIOUS
  <2>1. del \in Nat /\ j \in Nat /\ j + del < len[r]
    <3>1. del \in Nat /\ j \in Nat
      BY <1>2 DEF Cols
    <3> HIDE DEF del
    <3> QED BY <3>1
  <2> HIDE DEF del
  <2>2. j + del \in Cols
    BY <2>1 DEF Cols
  <2> QED BY <2>2
<1>4. /\ grid' = [grid EXCEPT ![r] = line] /\ len' = [len EXCEPT ![r] = @ - del] /\ n' = n
      /\ mode' = mode /\ r' = r /\ c' = Clamped(mode, r, c, len[r] - del)
  BY <1>1 DEF DeleteWord, Change, Cursor
<1> HIDE DEF line, del
<1>5. grid' \in [Rows -> [Cols -> Chars]] /\ len' \in [Rows -> 0 .. COLS]
  BY <1>2, <1>3, <1>4
<1>6. ColumnFits(mode', c', len[r] - del)
  BY <1>2, <1>4, ClampFits
<1>7. len'[r'] = len[r] - del
  BY <1>4
<1> QED BY <1>4, <1>5, <1>6, <1>7, NewText

-------------------------------------------------------------------------------

LEMMA InitInBounds == EditorInit => InBounds
BY EditorAssumption DEF EditorInit, InBounds, EmptyGrid, BlankRow, NoLen, Rows, Cols, SatSub

LEMMA NextInBounds == InBounds /\ [EditorNext]_evars => InBounds'
<1> SUFFICES ASSUME InBounds, [EditorNext]_evars PROVE InBounds'
  OBVIOUS
<1>1. CASE HandleNormal
  BY <1>1, NormalKeepsText, DeleteCharInBounds, OpenLineInBounds DEF HandleNormal, NormalKey
<1>2. CASE HandleSecond
  BY <1>2, NormalKeepsText, DeleteLineInBounds, DeleteWordInBounds DEF HandleSecond
<1>3. CASE HandleInsert
  BY <1>3, EscapeInBounds, NewlineInBounds, BackspaceInBounds, JoinInBounds, InsertCharInBounds
  DEF HandleInsert
<1>4. CASE NoCommand \/ SaveCommand
  BY <1>4 DEF NoCommand, SaveCommand, Command, InBounds, Rows, Cols
<1>5. CASE QuitCommand
  BY <1>5, EditorAssumption
  DEF QuitCommand, Cursor, InBounds, EmptyGrid, BlankRow, NoLen, Rows, Cols, SatSub
<1>6. CASE \E file \in Seq(Seq(Chars)) : Load(file)
  BY <1>6, LoadInBounds
<1>7. CASE UNCHANGED evars
  BY <1>7 DEF evars, InBounds, Rows, Cols
<1> QED BY <1>1, <1>2, <1>3, <1>4, <1>5, <1>6, <1>7 DEF EditorNext, EditorKey

(* No key reads or writes outside of the grid, on any file and in any order, *)
(* and no count goes below zero: InBounds is inductive (apps/editor.rs).      *)
THEOREM EditorStaysInBounds == EditorSpec => []InBounds
BY InitInBounds, NextInBounds, PTL DEF EditorSpec

-------------------------------------------------------------------------------
(* The files the editor, the shell and the Files window work on. *)

Live == Tree!Live
Texts == [dir: BOOLEAN, parent: Tree!Ids, name: Names \cup {"/"}, content: TextFiles]

TreeKept == IsTree(node) /\ cwd \in Live

LEMMA SameFiles ==
  ASSUME UNCHANGED <<node, cwd>>
  PROVE  /\ TreeKept' <=> TreeKept
         /\ \A name : Tree!Named(name)' = Tree!Named(name)
         /\ Listing' = Listing
<1>1. Live' = Live /\ \A d : Tree!Children(d)' = Tree!Children(d)
  BY DEF Live, Tree!Live, Tree!Children
<1>2. \A name : Tree!Named(name)' = Tree!Named(name)
  BY <1>1 DEF Tree!Named, Tree!Children, Tree!Live
<1>3. TreeKept' <=> TreeKept
  BY <1>1 DEF TreeKept
<1>4. Listing' = Listing
  BY <1>1 DEF Listing, Entry
<1> QED BY <1>2, <1>3, <1>4

(* create and mkdir, and cp where it creates its target. *)
LEMMA AddKeeps ==
  ASSUME TreeKept, NEW name \in Names, NEW isDir \in BOOLEAN, NEW text \in TextFiles, Tree!Named(name) = {},
         NEW i \in Tree!Ids \ Tree!Live,
         node' = [j \in Tree!Live \cup {i} |->
                    IF j = i THEN [dir |-> isDir, parent |-> cwd, name |-> name, content |-> text]
                    ELSE node[j]],
         cwd' = cwd
  PROVE  TreeKept'
<1> DEFINE new == [dir |-> isDir, parent |-> cwd, name |-> name, content |-> text]
<1>1. /\ Live' = Live \cup {i} /\ i \notin Live /\ i \in Tree!Ids /\ DOMAIN node' = Live'
      /\ DOMAIN node = Live /\ node'[i] = new
      /\ \A j \in Live : node'[j] = node[j]
  BY DEF Live, Tree!Live
<1>2. new \in Texts /\ new.parent = cwd /\ new.name = name
  BY DEF Texts, TreeKept, IsTree, Live, Tree!Live
<1> HIDE DEF new
<1>3. node \in [Live -> Texts] /\ Live \subseteq Tree!Ids
  BY <1>1 DEF TreeKept, IsTree, Texts
<1>4. node' \in [Live' -> Texts]
  BY <1>1, <1>2, <1>3 DEF new, Live, Tree!Live
<1>5. \A j \in Live : ~(node[j].parent = cwd /\ node[j].name = name)
  BY DEF Tree!Named, Tree!Children, Live
<1>6. Tree!Root \in Live' /\ node'[Tree!Root].parent = Tree!Root /\ Tree!Root \in Live
  BY <1>1 DEF TreeKept, IsTree
<1>7. \A j \in Live' : node'[j].parent \in Live'
  <2>1. cwd \in Live /\ \A j \in Live : node[j].parent \in Live
    BY <1>1 DEF TreeKept, IsTree
  <2> QED BY <1>1, <1>2, <2>1
<1>8. \A j, k \in Live' : node'[j].parent = node'[k].parent /\ node'[j].name = node'[k].name => j = k
  BY <1>1, <1>2, <1>5 DEF TreeKept, IsTree
<1>9. IsTree(node')
  <2>1. DOMAIN node' \subseteq Tree!Ids
    BY <1>1, <1>3
  <2>2. Live' = DOMAIN node'
    BY <1>1
  <2> QED BY <1>4, <1>6, <1>7, <1>8, <2>1, <2>2, SMTT(30) DEF IsTree, Texts
<1>10. cwd' \in Live'
  BY <1>1 DEF TreeKept
<1> QED BY <1>9, <1>10 DEF TreeKept

LEMMA AddedKeeps ==
  ASSUME TreeKept, NEW name \in Names, NEW isDir, Tree!Add(name, isDir), isDir \in BOOLEAN
  PROVE  TreeKept'
<1>1. PICK i \in Tree!Ids \ Tree!Live :
        node' = [j \in Tree!Live \cup {i} |-> IF j = i THEN Tree!NewNode(name, isDir) ELSE node[j]]
  BY DEF Tree!Add
<1>2. Tree!Nothing = <<>> /\ <<>> \in TextFiles
  <2>1. <<>> \in Seq(Seq(Chars)) /\ <<>> # <<<<>>>>
    OBVIOUS
  <2> QED BY <2>1 DEF Tree!Nothing, TextFiles
<1> QED BY <1>1, <1>2, AddKeeps DEF Tree!Add, Tree!NewNode

LEMMA WriteKeeps ==
  ASSUME TreeKept, NEW text \in TextFiles, NEW i \in Live, node' = [node EXCEPT ![i].content = text], cwd' = cwd
  PROVE  /\ TreeKept' /\ Live' = Live /\ node'[i].content = text /\ node'[i].dir = node[i].dir
         /\ \A name : Tree!Named(name)' = Tree!Named(name)
         /\ \A j \in Live : j # i => node'[j] = node[j]
<1>1. node \in [Live -> Texts] /\ DOMAIN node = Live
  BY DEF TreeKept, IsTree, Texts, Live, Tree!Live
<1>2. PICK new : new = [node[i] EXCEPT !.content = text]
  OBVIOUS
<1>3. /\ new \in Texts /\ new.dir = node[i].dir /\ new.parent = node[i].parent /\ new.name = node[i].name
      /\ new.content = text
  BY <1>1, <1>2 DEF Texts
<1>4. node' = [node EXCEPT ![i] = new]
  BY <1>1, <1>2
<1>5. /\ node' \in [Live -> Texts] /\ DOMAIN node' = Live /\ node'[i] = new
      /\ \A j \in Live : j # i => node'[j] = node[j]
  BY <1>1, <1>3, <1>4
<1>6. Live' = Live
  BY <1>5 DEF Live, Tree!Live
<1>7. \A j \in Live : node'[j].parent = node[j].parent /\ node'[j].name = node[j].name
  BY <1>3, <1>5
<1>8. \A name : Tree!Named(name)' = Tree!Named(name)
  BY <1>5, <1>7, <1>1 DEF Tree!Named, Tree!Children, Tree!Live
<1>9. TreeKept'
  BY <1>1, <1>5, <1>6, <1>7 DEF TreeKept, IsTree, Texts
<1> QED BY <1>3, <1>5, <1>6, <1>8, <1>9

LEMMA RemoveKeeps ==
  ASSUME TreeKept, NEW name, Tree!Remove(name)
  PROVE  TreeKept'
<1>1. PICK i \in Tree!Named(name) : Tree!Children(i) = {} /\ node' = [j \in Tree!Live \ {i} |-> node[j]]
  BY DEF Tree!Remove
<1>2. /\ i \in Live /\ node[i].parent = cwd /\ cwd' = cwd /\ DOMAIN node = Live
      /\ \A j \in Live : node[j].parent # i
      /\ Live' = Live \ {i} /\ DOMAIN node' = Live' /\ \A j \in Live' : node'[j] = node[j]
  BY <1>1 DEF Tree!Named, Tree!Children, Live, Tree!Live, Tree!Remove
<1>3. node \in [Live -> Texts] /\ Live \subseteq Tree!Ids /\ i # cwd /\ i # Tree!Root
  BY <1>2 DEF TreeKept, IsTree, Texts
<1>4. node' \in [Live' -> Texts]
  BY <1>1, <1>2, <1>3 DEF Live, Tree!Live
<1>5. IsTree(node')
  <2>1. DOMAIN node' \subseteq Tree!Ids /\ Tree!Root \in DOMAIN node' /\ node'[Tree!Root].parent = Tree!Root
    BY <1>2, <1>3 DEF TreeKept, IsTree
  <2>2. \A j \in DOMAIN node' : node'[j].parent \in DOMAIN node'
    BY <1>2 DEF TreeKept, IsTree
  <2>3. \A j, k \in DOMAIN node' : node'[j].parent = node'[k].parent /\ node'[j].name = node'[k].name => j = k
    BY <1>2 DEF TreeKept, IsTree
  <2> QED BY <1>2, <1>4, <2>1, <2>2, <2>3 DEF IsTree, Texts
<1>6. cwd' \in Live'
  BY <1>2, <1>3 DEF TreeKept
<1> QED BY <1>5, <1>6 DEF TreeKept

LEMMA GoKeeps ==
  ASSUME TreeKept, Tree!GoRoot \/ Tree!GoUp \/ \E name : Tree!GoInto(name)
  PROVE  TreeKept'
<1>1. node' = node /\ Live' = Live /\ DOMAIN node = Live
  BY DEF Tree!GoRoot, Tree!GoUp, Tree!GoInto, Live, Tree!Live
<1>2. cwd' \in Live
  BY <1>1 DEF Tree!GoRoot, Tree!GoUp, Tree!GoInto, Tree!Named, Tree!Children, TreeKept, IsTree, Live
<1> QED BY <1>1, <1>2 DEF TreeKept

-------------------------------------------------------------------------------
(* The Files window. *)

IsWindow == files = [open |-> files.open, entries |-> files.entries,
                     selected |-> files.selected, prompt |-> files.prompt]

LEMMA RefreshFresh ==
  ASSUME IsWindow, Refresh
  PROVE  IsWindow' /\ ListFresh'
BY DEF IsWindow, Refresh, Refreshed, ListFresh

LEMMA AskedFresh ==
  ASSUME IsWindow, ListFresh, NEW kind, Asked(kind)
  PROVE  IsWindow' /\ ListFresh'
<1>1. /\ files'.open = files.open /\ files'.entries = files.entries /\ files'.selected = files.selected
      /\ IsWindow' /\ UNCHANGED <<node, cwd>>
  BY DEF Asked, IsWindow
<1>2. Listing' = Listing
  BY <1>1, SameFiles
<1> QED BY <1>1, <1>2 DEF ListFresh

LEMMA WindowKeeps ==
  ASSUME TreeKept, IsWindow, ListFresh, FilesNext
  PROVE  TreeKept' /\ IsWindow' /\ ListFresh'
<1>1. CASE OpenFiles
  <2>1. /\ files' = [open |-> TRUE, entries |-> Listing, selected |-> 0, prompt |-> "none"]
        /\ UNCHANGED <<node, cwd>>
    BY <1>1 DEF OpenFiles, NoFiles
  <2>2. Listing' = Listing /\ TreeKept'
    BY <2>1, SameFiles
  <2> QED BY <2>1, <2>2 DEF IsWindow, ListFresh
<1>2. CASE CloseFiles
  <2>1. TreeKept'
    BY <1>2, SameFiles DEF CloseFiles
  <2> QED BY <1>2, <2>1 DEF CloseFiles, NoFiles, IsWindow, ListFresh
<1>3. CASE NewButton \/ ClickBeside
  <2>1. PICK kind : Asked(kind)
    BY <1>3 DEF NewButton, ClickBeside
  <2>2. TreeKept'
    BY <2>1, SameFiles DEF Asked
  <2> QED BY <2>1, <2>2, AskedFresh
<1>4. CASE NameEntered
  <2>1. PICK name \in Names :
          IF CanAdd(name) THEN Tree!Add(name, files.prompt = "dir") /\ Refresh ELSE Asked("none")
    BY <1>4 DEF NameEntered
  <2>2. CASE CanAdd(name)
    <3>1. Tree!Add(name, files.prompt = "dir") /\ Refresh
      BY <2>1, <2>2
    <3>2. TreeKept'
      BY <3>1, AddedKeeps
    <3> QED BY <3>1, <3>2, RefreshFresh
  <2>3. CASE ~CanAdd(name)
    <3>1. Asked("none")
      BY <2>1, <2>3
    <3>2. TreeKept'
      BY <3>1, SameFiles DEF Asked
    <3> QED BY <3>1, <3>2, AskedFresh
  <2> QED BY <2>2, <2>3
<1>5. CASE DeleteButton
  <2>1. Refresh /\ TreeKept'
    BY <1>5, RemoveKeeps DEF DeleteButton
  <2> QED BY <2>1, RefreshFresh
<1>6. CASE UpButton
  <2>1. Refresh /\ TreeKept'
    BY <1>6, GoKeeps DEF UpButton
  <2> QED BY <2>1, RefreshFresh
<1>7. CASE RowClick
  <2>1. PICK row \in 1 .. Len(files.entries) :
          IF files.entries[row].dir THEN Tree!GoInto(files.entries[row].name) /\ Refresh
          ELSE files' = [files EXCEPT !.selected = row] /\ UNCHANGED <<node, cwd>>
    BY <1>7 DEF RowClick
  <2>2. CASE files.entries[row].dir
    <3>1. Refresh /\ TreeKept'
      BY <2>1, <2>2, GoKeeps
    <3> QED BY <3>1, RefreshFresh
  <2>3. CASE ~files.entries[row].dir
    <3>1. /\ files' = [files EXCEPT !.selected = row] /\ UNCHANGED <<node, cwd>>
          /\ row <= Len(files.entries)
      BY <2>1, <2>3
    <3>2. /\ files'.open = files.open /\ files'.entries = files.entries /\ files'.selected = row
          /\ IsWindow'
      BY <3>1 DEF IsWindow
    <3>3. Listing' = Listing /\ TreeKept'
      BY <3>1, SameFiles
    <3> QED BY <2>3, <3>1, <3>2, <3>3 DEF ListFresh
  <2> QED BY <2>2, <2>3
<1> QED BY <1>1, <1>2, <1>3, <1>4, <1>5, <1>6, <1>7 DEF FilesNext

-------------------------------------------------------------------------------
(* Loading and saving. *)

LEMMA SequenceIs ==
  ASSUME NEW S, NEW s \in Seq(S)
  PROVE  s = [j \in 1 .. Len(s) |-> s[j]]
OBVIOUS

LEMMA FunctionIsSequence ==
  ASSUME NEW S, NEW m \in Nat, NEW f \in [1 .. m -> S]
  PROVE  f \in Seq(S) /\ Len(f) = m
OBVIOUS

LEMMA SavedIsText ==
  ASSUME InBounds
  PROVE  SavedText \in TextFiles
<1> USE Facts
<1>1. CASE n = 1 /\ len[0] = 0
  <2>1. <<>> \in Seq(Seq(Chars)) /\ <<>> # <<<<>>>>
    OBVIOUS
  <2> QED BY <1>1, <2>1 DEF SavedText, TextFiles
<1>2. CASE ~(n = 1 /\ len[0] = 0)
  <2> DEFINE line(i) == [j \in 1 .. len[i - 1] |-> grid[i - 1][j - 1]]
             text == [i \in 1 .. n |-> line(i)]
  <2>1. SavedText = text
    BY <1>2 DEF SavedText
  <2>2. ASSUME NEW i \in 1 .. n  PROVE line(i) \in Seq(Chars) /\ Len(line(i)) = len[i - 1]
    <3>1. i - 1 \in Rows /\ len[i - 1] \in 0 .. COLS
      BY DEF Rows
    <3>2. ASSUME NEW j \in 1 .. len[i - 1]  PROVE grid[i - 1][j - 1] \in Chars
      <4>1. j - 1 \in Cols
        BY <3>1 DEF Cols
      <4> QED BY <3>1, <4>1
    <3>3. PICK m : m = len[i - 1]
      OBVIOUS
    <3>4. m \in Nat
      BY <3>1, <3>3
    <3>5. [j \in 1 .. m |-> grid[i - 1][j - 1]] \in Seq(Chars) /\ Len([j \in 1 .. m |-> grid[i - 1][j - 1]]) = m
      <4>1. [j \in 1 .. m |-> grid[i - 1][j - 1]] \in [1 .. m -> Chars]
        BY <3>2, <3>3
      <4> QED BY <3>4, <4>1, FunctionIsSequence
    <3> QED BY <3>3, <3>5
  <2> HIDE DEF line
  <2>3. text \in Seq(Seq(Chars)) /\ Len(text) = n
    BY <2>2
  <2>4. text # <<<<>>>>
    <3> SUFFICES ASSUME text = <<<<>>>>  PROVE FALSE
      OBVIOUS
    <3>1. n = 1 /\ text[1] = <<>>
      BY <2>3
    <3>2. Len(line(1)) = len[1 - 1] /\ text[1] = line(1)
      BY <2>2, <3>1
    <3> QED BY <1>2, <3>1, <3>2
  <2> QED BY <2>1, <2>3, <2>4 DEF TextFiles
<1> QED BY <1>1, <1>2

LEMMA LoadShows ==
  ASSUME NEW file \in TextFiles, Fits(file), Load(file)
  PROVE  SavedText' = file
<1>1. /\ grid' = LoadedGrid(file) /\ len' = LoadedLen(file) /\ n' = LastRow(file) + 1
  BY DEF Load
<1>2. ROWS \in Nat /\ ROWS > 0 /\ COLS \in Nat
  BY EditorAssumption
<1>3. /\ file \in Seq(Seq(Chars)) /\ file # <<<<>>>> /\ Len(file) \in Nat /\ Len(file) <= ROWS
      /\ \A i \in 1 .. Len(file) : file[i] \in Seq(Chars) /\ Len(file[i]) \in Nat /\ Len(file[i]) <= COLS
  BY DEF TextFiles, Fits
<1>4. CASE file = <<>>
  <2>1. Len(file) = 0
    BY <1>4
  <2>2. n' = 1 /\ len'[0] = 0
    BY <1>1, <1>2, <2>1 DEF LastRow, Smaller, SatSub, LoadedLen, Rows
  <2> QED BY <1>4, <2>2 DEF SavedText
<1>5. CASE file # <<>>
  <2>1. Len(file) > 0 /\ n' = Len(file)
    <3>1. Len(file) > 0
      BY <1>3, <1>5
    <3> QED BY <1>1, <1>2, <1>3, <3>1 DEF LastRow, Smaller, SatSub
  <2>2. ASSUME NEW i \in 1 .. Len(file)
        PROVE  len'[i - 1] = Len(file[i]) /\ \A j \in 1 .. Len(file[i]) : grid'[i - 1][j - 1] = file[i][j]
    <3>1. i - 1 \in Rows /\ i - 1 < Len(file) /\ (i - 1) + 1 = i
      BY <1>2, <1>3 DEF Rows
    <3>2. len'[i - 1] = Smaller(Len(file[i]), COLS)
      BY <1>1, <1>3, <3>1 DEF LoadedLen
    <3>3. len'[i - 1] = Len(file[i])
      BY <1>2, <1>3, <3>2 DEF Smaller
    <3>4. ASSUME NEW j \in 1 .. Len(file[i])  PROVE grid'[i - 1][j - 1] = file[i][j]
      <4>1. j - 1 \in Cols /\ j - 1 < Len(file[i]) /\ (j - 1) + 1 = j
        BY <1>2, <1>3 DEF Cols
      <4> QED BY <1>1, <3>1, <4>1 DEF LoadedGrid
    <3> QED BY <3>3, <3>4
  <2>3. ~(n' = 1 /\ len'[0] = 0)
    <3> SUFFICES ASSUME n' = 1, len'[0] = 0  PROVE FALSE
      OBVIOUS
    <3>1. Len(file) = 1 /\ Len(file[1]) = 0
      BY <2>1, <2>2
    <3>2. file[1] = <<>>
      BY <1>3, <3>1
    <3> QED BY <1>3, <3>1, <3>2
  <2>4. SavedText' = [i \in 1 .. n' |-> [j \in 1 .. len'[i - 1] |-> grid'[i - 1][j - 1]]]
    BY <2>3 DEF SavedText
  <2>5. ASSUME NEW i \in 1 .. Len(file)
        PROVE  [j \in 1 .. len'[i - 1] |-> grid'[i - 1][j - 1]] = file[i]
    <3>1. [j \in 1 .. len'[i - 1] |-> grid'[i - 1][j - 1]] = [j \in 1 .. Len(file[i]) |-> file[i][j]]
      BY <2>2
    <3> QED BY <1>3, <3>1, SequenceIs
  <2>6. SavedText' = [i \in 1 .. Len(file) |-> file[i]]
    BY <2>1, <2>4, <2>5
  <2> QED BY <1>3, <2>6, SequenceIs
<1> QED BY <1>4, <1>5

-------------------------------------------------------------------------------
(* Every step of the shell and what it started. *)

ShellInv ==
  /\ InBounds /\ TreeKept /\ IsWindow /\ (mode # "closed" => ~files.open)
  /\ ListFresh /\ UnmarkedIsSaved

LEMMA InitShellInv == ShellInit => ShellInv
<1> SUFFICES ASSUME ShellInit  PROVE ShellInv
  OBVIOUS
<1>1. InBounds /\ mode = "closed"
  BY InitInBounds DEF ShellInit, EditorInit
<1>2. TreeKept
  BY DisksAssumption DEF ShellInit, TreeKept, Live, Tree!Live, IsTree
<1>3. IsWindow /\ ~files.open
  BY DEF ShellInit, FilesInit, NoFiles, IsWindow
<1> QED BY <1>1, <1>2, <1>3 DEF ShellInv, ListFresh, UnmarkedIsSaved

(* A key changes the text only together with its mark. *)
LEMMA KeyMarks ==
  ASSUME EditorKey
  PROVE  /\ mode # "closed" /\ mode' # "closed"
         /\ ~dirty' => ~dirty /\ UNCHANGED <<grid, len, n>>
<1>1. CASE HandleNormal
  <2>1. mode = "normal" /\ mode' \in {"normal", "insert", "command"}
    BY <1>1 DEF HandleNormal, NormalKey, Left, Right, Down, Up, LineStart, LineEnd, Moved, EnterInsert, ToInsert,
      OpenLineBelow, DeleteChar, WaitSecond, Colon
  <2>2. KeepText \/ dirty'
    BY <1>1 DEF HandleNormal, Left, Right, Down, Up, LineStart, LineEnd, Moved, EnterInsert, ToInsert,
      OpenLineBelow, DeleteChar, WaitSecond, Colon, Change
  <2> QED BY <2>1, <2>2 DEF KeepText
<1>2. CASE HandleSecond
  <2>1. mode = "normal" /\ mode' = mode
    BY <1>2 DEF HandleSecond, DeleteLine, DeleteWord, NoSecond
  <2>2. KeepText \/ dirty'
    BY <1>2 DEF HandleSecond, DeleteLine, DeleteWord, NoSecond, Change
  <2> QED BY <2>1, <2>2 DEF KeepText
<1>3. CASE HandleInsert
  <2>1. mode = "insert" /\ mode' \in {"insert", "normal"}
    BY <1>3 DEF HandleInsert, Escape, InsertNewline, Backspace, JoinLines, InsertChar
  <2>2. KeepText \/ dirty'
    BY <1>3 DEF HandleInsert, Escape, InsertNewline, Backspace, JoinLines, InsertChar, Change
  <2> QED BY <2>1, <2>2 DEF KeepText
<1>4. CASE NoCommand
  BY <1>4 DEF NoCommand, Command
<1> QED BY <1>1, <1>2, <1>3, <1>4 DEF EditorKey

(* What the commands of the shell do to the files. *)
LEMMA CommandKeeps ==
  ASSUME TreeKept, FileCommand
  PROVE  TreeKept'
<1>1. ASSUME NEW name \in Names, Mkdir(name) \/ Touch(name)
      PROVE  TreeKept'
  BY <1>1, AddedKeeps DEF Mkdir, Touch
<1>2. ASSUME NEW name \in Names, Rm(name) \/ Cd(name)
      PROVE  TreeKept'
  BY <1>2, RemoveKeeps, GoKeeps DEF Rm, Cd
<1>3. ASSUME NEW src \in Names, NEW dst \in Names, Cp(src, dst)
      PROVE  TreeKept'
  <2>1. PICK i \in Tree!Named(src) :
          IF Tree!Named(dst) # {} THEN Tree!Write(dst, node[i].content)
          ELSE /\ \E j \in Tree!Ids \ Tree!Live :
                    node' = [k \in Tree!Live \cup {j} |->
                               IF k = j THEN [dir |-> FALSE, parent |-> cwd, name |-> dst, content |-> node[i].content]
                               ELSE node[k]]
               /\ UNCHANGED cwd
    BY <1>3 DEF Cp
  <2>2. node[i].content \in TextFiles
    BY DEF Tree!Named, Tree!Children, Tree!Live, TreeKept, IsTree
  <2>3. CASE Tree!Named(dst) # {}
    <3>1. Tree!Write(dst, node[i].content)
      BY <2>1, <2>3
    <3>2. PICK j \in Live : node' = [node EXCEPT ![j].content = node[i].content] /\ cwd' = cwd
      BY <3>1 DEF Tree!Write, Tree!Named, Tree!Children, Live
    <3> QED BY <2>2, <3>2, WriteKeeps
  <2>4. CASE Tree!Named(dst) = {}
    <3>1. PICK j \in Tree!Ids \ Tree!Live :
            node' = [k \in Tree!Live \cup {j} |->
                       IF k = j THEN [dir |-> FALSE, parent |-> cwd, name |-> dst, content |-> node[i].content]
                       ELSE node[k]]
      BY <2>1, <2>4
    <3>2. cwd' = cwd
      BY <2>1, <2>4
    <3> QED BY <2>2, <2>4, <3>1, <3>2, AddKeeps
  <2> QED BY <2>3, <2>4
<1>4. CASE Tree!GoRoot \/ Tree!GoUp
  BY <1>4, GoKeeps
<1> QED BY <1>1, <1>2, <1>3, <1>4 DEF FileCommand

(* save *)
LEMMA SavedKeeps ==
  ASSUME InBounds, TreeKept, Write, edited' = edited
  PROVE  /\ TreeKept'
         /\ \A i \in Tree!Named(edited)' : ~node'[i].dir => node'[i].content = SavedText
<1>1. \A i \in Tree!Named(edited) : i \in Live /\ node[i].parent = cwd /\ node[i].name = edited
  BY DEF Tree!Named, Tree!Children, Live
<1>2. CASE \E i \in Tree!Named(edited) : ~node[i].dir
  <2>1. PICK i \in Tree!Named(edited) : node' = [node EXCEPT ![i].content = SavedText] /\ cwd' = cwd
    BY <1>2 DEF Write, Tree!Write
  <2>2. PICK text : text = SavedText
    OBVIOUS
  <2>3. text \in TextFiles
    BY <2>2, SavedIsText
  <2>4. /\ TreeKept' /\ node'[i].content = text
        /\ \A name : Tree!Named(name)' = Tree!Named(name)
    BY <1>1, <2>1, <2>2, <2>3, WriteKeeps
  <2>5. \A j \in Tree!Named(edited) : j = i
    BY <1>1 DEF TreeKept, IsTree, Live, Tree!Live
  <2>6. Tree!Named(edited)' = Tree!Named(edited)
    BY <2>1, <2>4 DEF Tree!Named, Tree!Children, Tree!Live
  <2> QED BY <2>2, <2>4, <2>5, <2>6
<1>3. CASE ~\E i \in Tree!Named(edited) : ~node[i].dir
  <2>1. UNCHANGED <<node, cwd>>
    BY <1>3 DEF Write
  <2>2. Tree!Named(edited)' = Tree!Named(edited)
    BY <2>1 DEF Tree!Named, Tree!Children, Tree!Live
  <2> QED BY <1>3, <2>1, <2>2, SameFiles
<1> QED BY <1>2, <1>3

(* Saving when the editor is left: its name is gone with it. *)
LEMMA WriteKeepsTree ==
  ASSUME InBounds, TreeKept, Write
  PROVE  TreeKept'
<1>1. CASE \E i \in Tree!Named(edited) : ~node[i].dir
  <2>1. PICK i \in Tree!Named(edited) : node' = [node EXCEPT ![i].content = SavedText] /\ cwd' = cwd
    BY <1>1 DEF Write, Tree!Write
  <2>2. i \in Live
    BY DEF Tree!Named, Tree!Children, Live
  <2> QED BY <2>1, <2>2, SavedIsText, WriteKeeps
<1>2. CASE ~\E i \in Tree!Named(edited) : ~node[i].dir
  BY <1>2, SameFiles DEF Write
<1> QED BY <1>1, <1>2

LEMMA ReadIsText ==
  ASSUME TreeKept, NEW i \in Live
  PROVE  ReadOf(i) \in TextFiles
<1>1. <<>> \in Seq(Seq(Chars)) /\ <<>> # <<<<>>>>
  OBVIOUS
<1>2. node[i].content \in TextFiles
  BY DEF TreeKept, IsTree, Live, Tree!Live
<1> QED BY <1>1, <1>2 DEF ReadOf, TextFiles

LEMMA NoText == <<>> \in TextFiles
<1>1. <<>> \in Seq(Seq(Chars)) /\ <<>> # <<<<>>>>
  OBVIOUS
<1> QED BY <1>1 DEF TextFiles

LEMMA NamedAreLive ==
  ASSUME NEW name
  PROVE  \A i \in Tree!Named(name) : i \in Live /\ node[i].parent = cwd /\ node[i].name = name
BY DEF Tree!Named, Tree!Children, Live

LEMMA OneOfAName ==
  ASSUME TreeKept, NEW name, NEW i \in Tree!Named(name), NEW j \in Tree!Named(name)
  PROVE  i = j
BY NamedAreLive DEF TreeKept, IsTree, Live, Tree!Live

(* What starting the editor does. *)
LEMMA EditKeeps ==
  ASSUME TreeKept, NEW name \in Names, Edit(name)
  PROVE  /\ TreeKept' /\ \E file \in TextFiles : Load(file)
         /\ \A i \in Tree!Named(name)' : ~node'[i].dir /\ Fits(node'[i].content) => SavedText' = node'[i].content
<1>1. CASE Tree!Named(name) # {}
  <2>1. PICK i \in Tree!Named(name) : Load(ReadOf(i)) /\ UNCHANGED <<node, cwd>>
    BY <1>1 DEF Edit
  <2>2. PICK file : file = ReadOf(i)
    OBVIOUS
  <2>3. file \in TextFiles /\ Load(file)
    BY <2>1, <2>2, NamedAreLive, ReadIsText
  <2>4. TreeKept' /\ Tree!Named(name)' = Tree!Named(name)
    BY <2>1, SameFiles
  <2>5. ASSUME NEW j \in Tree!Named(name)', ~node'[j].dir, Fits(node'[j].content)
        PROVE  SavedText' = node'[j].content
    <3>1. j = i /\ node' = node
      BY <2>1, <2>4, OneOfAName
    <3>2. file = node'[j].content
      BY <2>2, <2>5, <3>1 DEF ReadOf
    <3>3. Fits(file)
      BY <2>5, <3>2
    <3> QED BY <2>3, <3>2, <3>3, LoadShows
  <2> QED BY <2>3, <2>4, <2>5
<1>2. CASE Tree!Named(name) = {}
  <2>1. Tree!Add(name, FALSE) /\ Load(<<>>)
    BY <1>2 DEF Edit
  <2>2. TreeKept'
    BY <2>1, AddedKeeps
  <2>3. PICK i \in Tree!Ids \ Tree!Live :
          /\ node' = [j \in Tree!Live \cup {i} |-> IF j = i THEN Tree!NewNode(name, FALSE) ELSE node[j]]
          /\ cwd' = cwd
    BY <2>1 DEF Tree!Add
  <2>4. /\ node'[i].content = <<>> /\ \A j \in Tree!Live : node'[j] = node[j]
        /\ DOMAIN node' = Tree!Live \cup {i}
    BY <2>3 DEF Tree!NewNode, Tree!Nothing
  <2>5. \A j \in Tree!Named(name)' : j = i
    BY <1>2, <2>3, <2>4 DEF Tree!Named, Tree!Children, Tree!Live
  <2>6. Fits(<<>>)
    <3>1. Len(<<>>) = 0 /\ \A j \in 1 .. 0 : FALSE
      OBVIOUS
    <3> QED BY <3>1, EditorAssumption DEF Fits
  <2>7. SavedText' = <<>>
    BY <2>1, <2>6, NoText, LoadShows
  <2> QED BY <2>1, <2>2, <2>4, <2>5, <2>7, NoText
<1> QED BY <1>1, <1>2

LEMMA NextShellInv == ShellInv /\ [ShellNext]_shvars => ShellInv'
<1> SUFFICES ASSUME ShellInv, [ShellNext]_shvars  PROVE ShellInv'
  OBVIOUS
<1> USE DEF ShellInv
<1>1. CASE FileCommand
  <2>1. TreeKept'
    BY <1>1, CommandKeeps
  <2>2. mode = "closed" /\ mode' = "closed" /\ ~files.open /\ files' = files /\ UNCHANGED evars
    BY <1>1 DEF FileCommand, NoProgramRuns, KeepPrograms, evars
  <2>3. InBounds'
    BY <2>2, NextInBounds
  <2> QED BY <2>1, <2>2, <2>3 DEF IsWindow, ListFresh, UnmarkedIsSaved
<1>2. CASE EditKey
  <2>1. UNCHANGED <<node, cwd, files, edited>> /\ EditorKey
    BY <1>2 DEF EditKey, wvars
  <2>2. /\ mode # "closed" /\ mode' # "closed"
        /\ ~dirty' => ~dirty /\ UNCHANGED <<grid, len, n>>
    BY <2>1, KeyMarks
  <2>3. InBounds'
    BY <2>1, NextInBounds DEF EditorNext
  <2>4. TreeKept' /\ \A name : Tree!Named(name)' = Tree!Named(name)
    BY <2>1, SameFiles
  <2>5. UnmarkedIsSaved'
    <3> SUFFICES ASSUME ~dirty'
                 PROVE  \A i \in Tree!Named(edited)' :
                          ~node'[i].dir /\ Fits(node'[i].content) => SavedText' = node'[i].content
      BY DEF UnmarkedIsSaved
    <3>1. SavedText' = SavedText
      BY <2>2 DEF SavedText
    <3>2. Tree!Named(edited)' = Tree!Named(edited)
      BY <2>1 DEF Tree!Named, Tree!Children, Tree!Live
    <3> QED BY <2>1, <2>2, <3>1, <3>2 DEF UnmarkedIsSaved
  <2> QED BY <2>1, <2>2, <2>3, <2>4, <2>5 DEF IsWindow, ListFresh
<1>3. CASE SaveKey
  <2>1. SaveCommand /\ Write /\ UNCHANGED <<edited, files>>
    BY <1>3 DEF SaveKey
  <2>2. mode = "command" /\ mode' = "normal" /\ UNCHANGED <<grid, len, n>>
    BY <2>1 DEF SaveCommand, Command
  <2>3. InBounds'
    BY <2>1, NextInBounds DEF EditorNext
  <2>4. /\ TreeKept'
        /\ \A i \in Tree!Named(edited)' : ~node'[i].dir => node'[i].content = SavedText
    BY <2>1, SavedKeeps
  <2>5. SavedText' = SavedText
    BY <2>2 DEF SavedText
  <2> QED BY <2>1, <2>2, <2>3, <2>4, <2>5 DEF IsWindow, ListFresh, UnmarkedIsSaved
<1>4. CASE Quit
  <2>1. QuitCommand /\ mode' = "closed" /\ UNCHANGED <<node, cwd, files>> /\ mode # "closed"
    BY <1>4 DEF Quit, QuitCommand, wvars
  <2>2. InBounds'
    BY <2>1, NextInBounds DEF EditorNext
  <2>3. TreeKept'
    BY <2>1, SameFiles
  <2> QED BY <2>1, <2>2, <2>3 DEF IsWindow, ListFresh, UnmarkedIsSaved
<1>5. CASE SaveAndQuit
  <2>1. QuitCommand /\ mode' = "closed" /\ Write /\ UNCHANGED files /\ mode # "closed"
    BY <1>5 DEF SaveAndQuit, QuitCommand
  <2>2. InBounds'
    BY <2>1, NextInBounds DEF EditorNext
  <2>3. TreeKept'
    BY <2>1, WriteKeepsTree
  <2> QED BY <2>1, <2>2, <2>3 DEF IsWindow, ListFresh, UnmarkedIsSaved
<1>6. CASE Window
  <2>1. mode = "closed" /\ mode' = "closed" /\ FilesNext /\ UNCHANGED evars
    BY <1>6 DEF Window, evars
  <2>2. InBounds'
    BY <2>1, NextInBounds
  <2>3. TreeKept' /\ IsWindow' /\ ListFresh'
    BY <2>1, WindowKeeps
  <2> QED BY <2>1, <2>2, <2>3 DEF UnmarkedIsSaved
<1>7. ASSUME NEW name \in Names, Edit(name)
      PROVE  ShellInv'
  <2>1. files' = files /\ ~files.open /\ edited' = name
    BY <1>7 DEF Edit, NoProgramRuns
  <2>2. /\ TreeKept' /\ \E file \in TextFiles : Load(file)
        /\ \A i \in Tree!Named(name)' : ~node'[i].dir /\ Fits(node'[i].content) => SavedText' = node'[i].content
    BY <1>7, EditKeeps
  <2>3. InBounds'
    BY <2>2, NextInBounds DEF EditorNext, TextFiles
  <2>4. UnmarkedIsSaved'
    <3>1. Tree!Named(edited)' = Tree!Named(name)'
      BY <2>1 DEF Tree!Named, Tree!Children, Tree!Live
    <3> QED BY <2>2, <3>1 DEF UnmarkedIsSaved
  <2> QED BY <2>1, <2>2, <2>3, <2>4 DEF IsWindow, ListFresh
<1>8. CASE UNCHANGED shvars
  <2>1. UNCHANGED <<node, cwd, files, edited>> /\ UNCHANGED evars
    BY <1>8 DEF shvars, wvars
  <2>2. InBounds'
    BY <2>1, NextInBounds
  <2>3. TreeKept' /\ Listing' = Listing
    BY <2>1, SameFiles
  <2>4. Tree!Named(edited)' = Tree!Named(edited)
    BY <2>1 DEF Tree!Named, Tree!Children, Tree!Live
  <2>5. SavedText' = SavedText /\ mode' = mode /\ dirty' = dirty
    BY <2>1 DEF SavedText, evars
  <2> QED BY <2>1, <2>2, <2>3, <2>4, <2>5 DEF IsWindow, ListFresh, UnmarkedIsSaved
<1> QED BY <1>1, <1>2, <1>3, <1>4, <1>5, <1>6, <1>7, <1>8 DEF ShellNext

LEMMA ShellInvHolds == ShellSpec => []ShellInv
BY InitShellInv, NextShellInv, PTL DEF ShellSpec

(* Whatever is clicked and typed, and whatever the shell did before: the      *)
(* window shows the folder it stands in as it is on the disk, and the row     *)
(* that is marked is a file, so Delete removes what the user marked (refresh  *)
(* in gui/widgets/files.rs, kcore/fs.rs).                                     *)
THEOREM ListFreshTheorem == ShellSpec => []ListFresh
<1>1. ShellInv => ListFresh
  BY DEF ShellInv
<1> QED BY <1>1, ShellInvHolds, PTL

(* A text of any size, edited by any keys and saved any number of times: as   *)
(* long as it is not marked as changed it is what the file holds, if the file *)
(* has room in the grid (dirty, save and load in apps/editor.rs).             *)
THEOREM UnmarkedIsSavedTheorem == ShellSpec => []UnmarkedIsSaved
<1>1. ShellInv => UnmarkedIsSaved
  BY DEF ShellInv
<1> QED BY <1>1, ShellInvHolds, PTL

-------------------------------------------------------------------------------
(* The editor implements the text of EditorText. *)

(* The text of a row, and of the first k rows. *)
RowText(g, l, i) == [j \in 1 .. l[i] |-> g[i][j - 1]]
TextOf(g, l, k) == [i \in 1 .. k |-> RowText(g, l, i - 1)] \o <<>>

(* It is the characters of the row that are in use, *)
LEMMA RowTextIs ==
  ASSUME NEW g \in [Rows -> [Cols -> Chars]], NEW l \in [Rows -> 0 .. COLS], NEW i \in Rows
  PROVE  /\ RowText(g, l, i) \in Seq(Chars) /\ Len(RowText(g, l, i)) = l[i]
         /\ \A j \in 1 .. l[i] : RowText(g, l, i)[j] = g[i][j - 1]
<1>1. COLS \in Nat /\ l[i] \in Nat /\ l[i] <= COLS /\ g[i] \in [Cols -> Chars]
  BY EditorAssumption
<1>2. ASSUME NEW j \in 1 .. l[i]  PROVE g[i][j - 1] \in Chars
  <2>1. j - 1 \in Cols
    BY <1>1 DEF Cols
  <2> QED BY <1>1, <2>1
<1>3. PICK k, s : k = l[i] /\ s = [j \in 1 .. k |-> g[i][j - 1]]
  OBVIOUS
<1>4. k \in Nat /\ \A j \in 1 .. k : g[i][j - 1] \in Chars
  BY <1>1, <1>2, <1>3
<1>5. s \in Seq(Chars) /\ Len(s) = k
  BY <1>3, <1>4
<1>6. RowText(g, l, i) = s
  BY <1>3 DEF RowText
<1> QED BY <1>3, <1>5, <1>6

(* and the text is one line for each of these rows. *)
LEMMA TextOfIs ==
  ASSUME NEW g \in [Rows -> [Cols -> Chars]], NEW l \in [Rows -> 0 .. COLS], NEW k \in 0 .. ROWS
  PROVE  /\ TextOf(g, l, k) \in Seq(Seq(Chars)) /\ Len(TextOf(g, l, k)) = k
         /\ \A i \in 1 .. k : TextOf(g, l, k)[i] = RowText(g, l, i - 1)
<1> DEFINE t == [i \in 1 .. k |-> RowText(g, l, i - 1)]
<1>1. k \in Nat /\ \A i \in 1 .. k : i - 1 \in Rows
  BY EditorAssumption DEF Rows
<1>2. \A i \in 1 .. k : RowText(g, l, i - 1) \in Seq(Chars)
  BY <1>1, RowTextIs
<1>3. t \in Seq(Seq(Chars)) /\ Len(t) = k
  BY <1>1, <1>2, IsASeq
<1>4. t \o <<>> = t
  <2> HIDE DEF t
  <2> QED BY <1>3, ConcatEmptySeq
<1> QED BY <1>3, <1>4 DEF TextOf

(* Where the rows of a text lie in memory does not matter. *)
LEMMA SameText ==
  ASSUME NEW g \in [Rows -> [Cols -> Chars]], NEW l \in [Rows -> 0 .. COLS], NEW k \in 0 .. ROWS,
         NEW t \in Seq(Seq(Chars)), Len(t) = k, \A i \in 1 .. k : RowText(g, l, i - 1) = t[i]
  PROVE  TextOf(g, l, k) = t
<1>1. PICK u : u = TextOf(g, l, k)
  OBVIOUS
<1>2. u \in Seq(Seq(Chars)) /\ Len(u) = k /\ \A i \in 1 .. k : u[i] = t[i]
  BY <1>1, TextOfIs
<1>3. u = t
  BY <1>2, SeqEqual
<1> QED BY <1>1, <1>3

(* Nor what a row holds behind the end of its line. *)
LEMMA SameRow ==
  ASSUME NEW g \in [Rows -> [Cols -> Chars]], NEW l \in [Rows -> 0 .. COLS], NEW i \in Rows,
         NEW s \in Seq(Chars), Len(s) = l[i], \A j \in 1 .. l[i] : s[j] = g[i][j - 1]
  PROVE  RowText(g, l, i) = s
<1>1. PICK u : u = RowText(g, l, i)
  OBVIOUS
<1>2. u \in Seq(Chars) /\ Len(u) = l[i] /\ \A j \in 1 .. l[i] : u[j] = s[j]
  BY <1>1, RowTextIs
<1>3. u = s
  BY <1>2, SeqEqual
<1> QED BY <1>1, <1>3

(* What EditorText sees of an editor in bounds. *)
LEMMA TextIs ==
  ASSUME InBounds
  PROVE  /\ TextLines = TextOf(grid, len, n) /\ TextLines \in Seq(Seq(Chars)) /\ Len(TextLines) = n
         /\ \A i \in 1 .. n : /\ TextLines[i] = RowText(grid, len, i - 1) /\ TextLines[i] \in Seq(Chars)
                              /\ Len(TextLines[i]) = len[i - 1]
                              /\ \A j \in 1 .. len[i - 1] : TextLines[i][j] = grid[i - 1][j - 1]
         /\ Text!Line = TextLines[r + 1] /\ Text!Line \in Seq(Chars) /\ Len(Text!Line) = len[r]
         /\ \A j \in 1 .. len[r] : Text!Line[j] = grid[r][j - 1]
<1>1. TextLines = TextOf(grid, len, n)
  BY DEF TextLines, TextOf, RowText
<1>2. n \in 0 .. ROWS /\ grid \in [Rows -> [Cols -> Chars]] /\ len \in [Rows -> 0 .. COLS] /\ r \in Rows
      /\ r + 1 \in 1 .. n /\ r + 1 - 1 = r /\ r \in Nat
  BY Facts
<1>3. \A i \in 1 .. n : i - 1 \in Rows
  BY <1>2, EditorAssumption DEF Rows
<1>4. \A i \in 1 .. n : /\ TextLines[i] = RowText(grid, len, i - 1) /\ TextLines[i] \in Seq(Chars)
                        /\ Len(TextLines[i]) = len[i - 1]
                        /\ \A j \in 1 .. len[i - 1] : TextLines[i][j] = grid[i - 1][j - 1]
  <2>1. TAKE i \in 1 .. n
  <2>2. TextLines[i] = RowText(grid, len, i - 1)
    BY <1>1, <1>2, TextOfIs
  <2>3. i - 1 \in Rows
    BY <1>3
  <2> HIDE DEF TextLines
  <2> QED BY <1>2, <2>2, <2>3, RowTextIs
<1>5. Text!Line = TextLines[r + 1]
  BY DEF Text!Line
<1>6. Text!Line \in Seq(Chars) /\ Len(Text!Line) = len[r] /\ \A j \in 1 .. len[r] : Text!Line[j] = grid[r][j - 1]
  <2>1. PICK i : i = r + 1
    OBVIOUS
  <2>2. i \in 1 .. n /\ i - 1 = r /\ Text!Line = TextLines[i]
    BY <1>2, <1>5, <2>1
  <2> HIDE DEF TextLines, Text!Line
  <2> QED BY <1>4, <2>2
<1> QED BY <1>1, <1>2, <1>4, <1>5, <1>6, TextOfIs

(* The operators on sequences. *)
LEMMA Inserted ==
  ASSUME NEW S, NEW s \in Seq(S), NEW i \in 1 .. Len(s) + 1, NEW e \in S
  PROVE  /\ Text!InsertAt(s, i, e) \in Seq(S) /\ Len(Text!InsertAt(s, i, e)) = Len(s) + 1
         /\ \A k \in 1 .. i - 1 : Text!InsertAt(s, i, e)[k] = s[k]
         /\ Text!InsertAt(s, i, e)[i] = e
         /\ \A k \in i + 1 .. Len(s) + 1 : Text!InsertAt(s, i, e)[k] = s[k - 1]
<1>12. PICK t : t = Text!InsertAt(s, i, e)
  OBVIOUS
<1>0. PICK a, b : a = SubSeq(s, 1, i - 1) /\ b = SubSeq(s, i, Len(s))
  OBVIOUS
<1>1. Len(s) \in Nat /\ i \in Int /\ i >= 1 /\ i <= Len(s) + 1
  OBVIOUS
<1>2. a \in Seq(S) /\ Len(a) = i - 1 /\ \A k \in 1 .. i - 1 : a[k] = s[k]
  BY <1>0, <1>1, SubSeqProperties
<1>3. b \in Seq(S) /\ Len(b) = Len(s) - i + 1 /\ \A k \in 1 .. Len(s) - i + 1 : b[k] = s[i + k - 1]
  BY <1>0, <1>1, SubSeqProperties
<1>4. <<e>> \in Seq(S) /\ Len(<<e>>) = 1 /\ <<e>>[1] = e
  OBVIOUS
<1>5. /\ a \o <<e>> \in Seq(S) /\ Len(a \o <<e>>) = i
      /\ \A k \in 1 .. i : (a \o <<e>>)[k] = IF k < i THEN s[k] ELSE e
  BY <1>1, <1>2, <1>4, ConcatProperties
<1>6. PICK ae \in Seq(S) : ae = a \o <<e>>
  BY <1>5
<1>7. /\ ae \o b \in Seq(S) /\ Len(ae \o b) = Len(s) + 1
      /\ \A k \in 1 .. Len(s) + 1 : (ae \o b)[k] = IF k <= i THEN ae[k] ELSE b[k - i]
  <2>1. ae \in Seq(S) /\ Len(ae) = i
    BY <1>5, <1>6
  <2>2. Len(ae) + Len(b) = Len(s) + 1
    BY <1>1, <1>3, <2>1
  <2> QED BY <1>3, <2>1, <2>2, ConcatProperties
<1>8. ASSUME NEW k \in 1 .. Len(s) + 1, k > i  PROVE b[k - i] = s[k - 1]
  <2>1. k - i \in 1 .. Len(s) - i + 1 /\ i + (k - i) - 1 = k - 1
    BY <1>1, <1>8
  <2> QED BY <1>3, <2>1
<1>9. t = ae \o b
  BY <1>0, <1>6, <1>12 DEF Text!InsertAt
<1>10. ASSUME NEW k \in 1 .. Len(s) + 1
       PROVE  t[k] = IF k < i THEN s[k] ELSE IF k = i THEN e ELSE s[k - 1]
  <2>1. CASE k <= i
    <3>1. k \in 1 .. i
      BY <1>1, <2>1
    <3>2. t[k] = IF k < i THEN s[k] ELSE e
      BY <1>5, <1>6, <1>7, <1>9, <2>1, <3>1
    <3> QED BY <1>1, <2>1, <3>2
  <2>2. CASE k > i
    <3>1. t[k] = s[k - 1] /\ ~(k < i) /\ k # i
      BY <1>1, <1>7, <1>8, <1>9, <2>2
    <3> QED BY <3>1
  <2> QED BY <1>1, <2>1, <2>2
<1> QED BY <1>7, <1>9, <1>10, <1>12

(* What is left of s without its elements from i up to, but not with, j. *)
Without(s, i, j) == SubSeq(s, 1, i - 1) \o SubSeq(s, j, Len(s))

(* The elements behind the gap close up. *)
LEMMA Cut ==
  ASSUME NEW S, NEW s \in Seq(S), NEW i \in 1 .. Len(s) + 1, NEW j \in i .. Len(s) + 1
  PROVE  /\ Without(s, i, j) \in Seq(S) /\ Len(Without(s, i, j)) = Len(s) - (j - i)
         /\ \A k \in 1 .. i - 1 : Without(s, i, j)[k] = s[k]
         /\ \A k \in i .. Len(s) - (j - i) : Without(s, i, j)[k] = s[k + (j - i)]
<1>12. PICK t : t = Without(s, i, j)
  OBVIOUS
<1>0. PICK a, b : a = SubSeq(s, 1, i - 1) /\ b = SubSeq(s, j, Len(s))
  OBVIOUS
<1>1. Len(s) \in Nat /\ i \in Int /\ i >= 1 /\ i <= Len(s) + 1 /\ j \in Int /\ i <= j /\ j <= Len(s) + 1
  OBVIOUS
<1>2. a \in Seq(S) /\ Len(a) = i - 1 /\ \A k \in 1 .. i - 1 : a[k] = s[k]
  BY <1>0, <1>1, SubSeqProperties
<1>3. b \in Seq(S) /\ Len(b) = Len(s) - j + 1 /\ \A k \in 1 .. Len(s) - j + 1 : b[k] = s[j + k - 1]
  BY <1>0, <1>1, SubSeqProperties
<1>4. /\ t \in Seq(S) /\ Len(t) = Len(s) - (j - i)
      /\ \A k \in 1 .. Len(s) - (j - i) : t[k] = IF k <= i - 1 THEN a[k] ELSE b[k - (i - 1)]
  <2>1. Len(a) + Len(b) = Len(s) - (j - i)
    BY <1>1, <1>2, <1>3
  <2>2. /\ a \o b \in Seq(S) /\ Len(a \o b) = Len(a) + Len(b)
        /\ \A k \in 1 .. Len(a) + Len(b) : (a \o b)[k] = IF k <= Len(a) THEN a[k] ELSE b[k - Len(a)]
    BY <1>2, <1>3, ConcatProperties
  <2>3. t = a \o b
    BY <1>0, <1>12 DEF Without
  <2> QED BY <1>2, <2>1, <2>2, <2>3
<1>5. ASSUME NEW k \in 1 .. Len(s) - (j - i), k >= i  PROVE b[k - (i - 1)] = s[k + (j - i)]
  <2>1. k - (i - 1) \in 1 .. Len(s) - j + 1 /\ j + (k - (i - 1)) - 1 = k + (j - i)
    BY <1>1, <1>5
  <2> QED BY <1>3, <2>1
<1>6. ASSUME NEW k \in 1 .. Len(s) - (j - i)  PROVE t[k] = IF k < i THEN s[k] ELSE s[k + (j - i)]
  <2>1. CASE k < i
    <3>1. k \in 1 .. i - 1 /\ k <= i - 1
      BY <1>1, <2>1
    <3> QED BY <1>2, <1>4, <2>1, <3>1
  <2>2. CASE ~(k < i)
    <3>1. k >= i /\ ~(k <= i - 1)
      BY <1>1, <2>2
    <3> QED BY <1>4, <1>5, <2>2, <3>1
  <2> QED BY <2>1, <2>2
<1>7. \A k \in 1 .. i - 1 : k \in 1 .. Len(s) - (j - i) /\ k < i
  BY <1>1
<1>8. \A k \in i .. Len(s) - (j - i) : k \in 1 .. Len(s) - (j - i) /\ ~(k < i)
  BY <1>1
<1>9. \A k \in 1 .. i - 1 : t[k] = s[k]
  BY <1>6, <1>7
<1>10. \A k \in i .. Len(s) - (j - i) : t[k] = s[k + (j - i)]
  BY <1>6, <1>8
<1> QED BY <1>4, <1>9, <1>10, <1>12

(* With one element removed the ones behind it move up by one. *)
LEMMA Removed ==
  ASSUME NEW S, NEW s \in Seq(S), NEW i \in 1 .. Len(s)
  PROVE  /\ Text!RemoveAt(s, i) \in Seq(S) /\ Len(Text!RemoveAt(s, i)) = Len(s) - 1
         /\ \A k \in 1 .. i - 1 : Text!RemoveAt(s, i)[k] = s[k]
         /\ \A k \in i .. Len(s) - 1 : Text!RemoveAt(s, i)[k] = s[k + 1]
<1>12. PICK t : t = Text!RemoveAt(s, i)
  OBVIOUS
<1>1. PICK j : j = i + 1
  OBVIOUS
<1>2. i \in 1 .. Len(s) + 1 /\ j \in i .. Len(s) + 1 /\ j - i = 1
  BY <1>1
<1>3. t = Without(s, i, j)
  BY <1>1, <1>12 DEF Text!RemoveAt, Without
<1>4. /\ t \in Seq(S) /\ Len(t) = Len(s) - (j - i)
      /\ \A k \in 1 .. i - 1 : t[k] = s[k]
      /\ \A k \in i .. Len(s) - (j - i) : t[k] = s[k + (j - i)]
  BY <1>2, <1>3, Cut
<1> QED BY <1>2, <1>4, <1>12

(* The element i of s becomes two. *)
Twofold(s, i, x, y) == SubSeq(s, 1, i - 1) \o <<x, y>> \o SubSeq(s, i + 1, Len(s))

(* The elements behind the two move down by one. *)
LEMMA Doubled ==
  ASSUME NEW S, NEW s \in Seq(S), NEW i \in 1 .. Len(s), NEW x \in S, NEW y \in S
  PROVE  /\ Twofold(s, i, x, y) \in Seq(S) /\ Len(Twofold(s, i, x, y)) = Len(s) + 1
         /\ \A k \in 1 .. i - 1 : Twofold(s, i, x, y)[k] = s[k]
         /\ Twofold(s, i, x, y)[i] = x /\ Twofold(s, i, x, y)[i + 1] = y
         /\ \A k \in i + 2 .. Len(s) + 1 : Twofold(s, i, x, y)[k] = s[k - 1]
<1>12. PICK t : t = Twofold(s, i, x, y)
  OBVIOUS
<1>0. PICK a, b, xy : a = SubSeq(s, 1, i - 1) /\ b = SubSeq(s, i + 1, Len(s)) /\ xy = <<x, y>>
  OBVIOUS
<1>1. Len(s) \in Nat /\ i \in Int /\ i >= 1 /\ i <= Len(s)
  OBVIOUS
<1>2. a \in Seq(S) /\ Len(a) = i - 1 /\ \A k \in 1 .. i - 1 : a[k] = s[k]
  BY <1>0, <1>1, SubSeqProperties
<1>3. b \in Seq(S) /\ Len(b) = Len(s) - i /\ \A k \in 1 .. Len(s) - i : b[k] = s[i + k]
  <2>1. PICK j : j = i + 1
    OBVIOUS
  <2>2. /\ b \in Seq(S) /\ Len(b) = IF j <= Len(s) THEN Len(s) - j + 1 ELSE 0
        /\ \A k \in 1 .. Len(s) - j + 1 : b[k] = s[j + k - 1]
    BY <1>0, <1>1, <2>1, SubSeqProperties
  <2>3. Len(b) = Len(s) - i
    BY <1>1, <2>1, <2>2
  <2>4. ASSUME NEW k \in 1 .. Len(s) - i  PROVE b[k] = s[i + k]
    <3>1. k \in 1 .. Len(s) - j + 1 /\ j + k - 1 = i + k
      BY <1>1, <2>1
    <3> QED BY <2>2, <3>1
  <2> QED BY <2>2, <2>3, <2>4
<1>4. xy \in Seq(S) /\ Len(xy) = 2 /\ xy[1] = x /\ xy[2] = y
  BY <1>0
<1>5. PICK c2 : c2 = a \o xy
  OBVIOUS
<1>9. t = c2 \o b
  BY <1>0, <1>5, <1>12 DEF Twofold
<1>6. /\ c2 \in Seq(S) /\ Len(c2) = i + 1
      /\ \A k \in 1 .. i + 1 : c2[k] = IF k <= i - 1 THEN a[k] ELSE xy[k - (i - 1)]
  <2>1. Len(a) + Len(xy) = i + 1
    BY <1>1, <1>2, <1>4
  <2>2. /\ c2 \in Seq(S) /\ Len(c2) = Len(a) + Len(xy)
        /\ \A k \in 1 .. Len(a) + Len(xy) : c2[k] = IF k <= Len(a) THEN a[k] ELSE xy[k - Len(a)]
    BY <1>2, <1>4, <1>5, ConcatProperties
  <2> QED BY <1>2, <2>1, <2>2
<1>7. /\ t \in Seq(S) /\ Len(t) = Len(s) + 1
      /\ \A k \in 1 .. Len(s) + 1 : t[k] = IF k <= i + 1 THEN c2[k] ELSE b[k - (i + 1)]
  <2>1. Len(c2) + Len(b) = Len(s) + 1
    BY <1>1, <1>3, <1>6
  <2>2. /\ t \in Seq(S) /\ Len(t) = Len(c2) + Len(b)
        /\ \A k \in 1 .. Len(c2) + Len(b) : t[k] = IF k <= Len(c2) THEN c2[k] ELSE b[k - Len(c2)]
    <3>1. c2 \in Seq(S) /\ b \in Seq(S)
      BY <1>3, <1>6
    <3> QED BY <1>9, <3>1, ConcatProperties
  <2> QED BY <1>6, <2>1, <2>2
<1>8. ASSUME NEW k \in 1 .. Len(s) + 1
      PROVE  t[k] = IF k < i THEN s[k] ELSE IF k = i THEN x ELSE IF k = i + 1 THEN y ELSE s[k - 1]
  <2>1. CASE k < i
    <3>1. k \in 1 .. i + 1 /\ k <= i - 1 /\ k \in 1 .. i - 1
      BY <1>1, <2>1
    <3> QED BY <1>2, <1>6, <1>7, <2>1, <3>1
  <2>2. CASE k = i
    <3>1. k \in 1 .. i + 1 /\ ~(k <= i - 1) /\ k - (i - 1) = 1 /\ k <= i + 1
      BY <1>1, <2>2
    <3>2. t[k] = c2[k] /\ c2[k] = xy[1]
      BY <1>6, <1>7, <3>1
    <3> QED BY <1>1, <1>4, <2>2, <3>2
  <2>3. CASE k = i + 1
    <3>1. k \in 1 .. i + 1 /\ ~(k <= i - 1) /\ k - (i - 1) = 2 /\ k <= i + 1 /\ ~(k < i) /\ k # i
      BY <1>1, <2>3
    <3> QED BY <1>4, <1>6, <1>7, <2>3, <3>1
  <2>4. CASE k > i + 1
    <3>1. ~(k <= i + 1) /\ k - (i + 1) \in 1 .. Len(s) - i /\ i + (k - (i + 1)) = k - 1 /\ ~(k < i) /\ k # i /\ k # i + 1
      BY <1>1, <2>4
    <3>2. t[k] = b[k - (i + 1)] /\ b[k - (i + 1)] = s[k - 1]
      BY <1>3, <1>7, <3>1
    <3> QED BY <3>1, <3>2
  <2>5. k < i \/ k = i \/ k = i + 1 \/ k > i + 1
    BY <1>1
  <2> QED BY <2>1, <2>2, <2>3, <2>4, <2>5
<1> QED BY <1>7, <1>8, <1>12

-------------------------------------------------------------------------------
(* The step gives the text t. *)
LEMMA NewLines ==
  ASSUME InBounds', NEW t \in Seq(Seq(Chars)), Len(t) = n', \A i \in 1 .. n' : RowText(grid', len', i - 1) = t[i]
  PROVE  TextLines' = t
<1>1. n' \in 0 .. ROWS /\ grid' \in [Rows -> [Cols -> Chars]] /\ len' \in [Rows -> 0 .. COLS]
  <2>1. n' \in 0 .. ROWS
    BY EditorAssumption DEF InBounds
  <2> QED BY <2>1 DEF InBounds, Rows, Cols
<1>2. TextLines' = TextOf(grid', len', n')
  BY DEF TextLines, TextOf, RowText
<1> QED BY <1>1, <1>2, SameText

(* A step that changes the row of the cursor. *)
LEMMA OneLine ==
  ASSUME InBounds, InBounds', n' = n, NEW line \in Seq(Chars), RowText(grid', len', r) = line,
         \A i \in Rows \ {r} : grid'[i] = grid[i] /\ len'[i] = len[i]
  PROVE  Text!SetLine(line)
<1>1. PICK t : t = [TextLines EXCEPT ![r + 1] = line]
  OBVIOUS
<1>2. n \in Nat /\ r \in Nat /\ r + 1 \in 1 .. n /\ n <= ROWS /\ ROWS \in Nat
  BY Facts
<1>3. t \in Seq(Seq(Chars)) /\ Len(t) = n /\ \A i \in 1 .. n : t[i] = IF i = r + 1 THEN line ELSE TextLines[i]
  <2> HIDE DEF TextLines
  <2> QED BY <1>1, <1>2, TextIs, ExceptSeq
<1>4. ASSUME NEW i \in 1 .. n  PROVE RowText(grid', len', i - 1) = t[i]
  <2>1. CASE i = r + 1
    BY <1>2, <1>3, <2>1
  <2>2. CASE i # r + 1
    <3>1. i - 1 \in Rows \ {r}
      BY <1>2, <2>2 DEF Rows
    <3>2. RowText(grid', len', i - 1) = RowText(grid, len, i - 1)
      BY <3>1 DEF RowText
    <3> QED BY <1>3, <2>2, <3>2, TextIs
  <2> QED BY <2>1, <2>2
<1>5. TextLines' = t
  BY <1>3, <1>4, NewLines
<1> QED BY <1>1, <1>5 DEF Text!SetLine

-------------------------------------------------------------------------------
(* The keys, one by one: what each does to the grid is what it does to the text. *)

(* A character is put into the line at the cursor. *)
LEMMA InsertIs ==
  ASSUME InBounds, InBounds', NEW ch \in Typed, InsertChar(ch)
  PROVE  Text!Insert
<1> USE Facts
<1>1. /\ grid' = [grid EXCEPT ![r] = [j \in Cols |->
                    IF j = c THEN ch ELSE IF j > c /\ j <= len[r] THEN @[j - 1] ELSE @[j]]]
      /\ len' = [len EXCEPT ![r] = @ + 1] /\ n' = n
      /\ mode = "insert" /\ mode' = mode /\ len[r] < COLS /\ r' = r /\ c' = c + 1
  BY DEF InsertChar, Change, Cursor
<1>2. c <= len[r]
  BY <1>1 DEF InBounds
<1>3. PICK line : line = Text!InsertAt(Text!Line, c + 1, ch)
  OBVIOUS
<1>4. /\ line \in Seq(Chars) /\ Len(line) = len[r] + 1
      /\ \A j \in 1 .. c : line[j] = Text!Line[j]
      /\ line[c + 1] = ch
      /\ \A j \in c + 2 .. len[r] + 1 : line[j] = Text!Line[j - 1]
  <2>1. c + 1 \in 1 .. len[r] + 1 /\ ch \in Chars
    BY <1>2
  <2>2. PICK s, i : s = Text!Line /\ i = c + 1
    OBVIOUS
  <2>3. s \in Seq(Chars) /\ Len(s) = len[r] /\ i \in 1 .. Len(s) + 1 /\ line = Text!InsertAt(s, i, ch)
    BY <1>3, <2>1, <2>2, TextIs
  <2>4. /\ line \in Seq(Chars) /\ Len(line) = Len(s) + 1
        /\ \A k \in 1 .. i - 1 : line[k] = s[k]
        /\ line[i] = ch
        /\ \A k \in i + 1 .. Len(s) + 1 : line[k] = s[k - 1]
    <3>1. ch \in Chars /\ s \in Seq(Chars) /\ i \in 1 .. Len(s) + 1
      BY <2>1, <2>3
    <3>2. /\ Text!InsertAt(s, i, ch) \in Seq(Chars) /\ Len(Text!InsertAt(s, i, ch)) = Len(s) + 1
          /\ \A k \in 1 .. i - 1 : Text!InsertAt(s, i, ch)[k] = s[k]
          /\ Text!InsertAt(s, i, ch)[i] = ch
          /\ \A k \in i + 1 .. Len(s) + 1 : Text!InsertAt(s, i, ch)[k] = s[k - 1]
      BY <3>1, Inserted
    <3> QED BY <2>3, <3>2
  <2>5. i - 1 = c /\ i + 1 = c + 2
    <3>1. c \in Nat /\ i = c + 1
      BY <2>2
    <3> QED BY <3>1
  <2> QED BY <2>2, <2>3, <2>4, <2>5
<1>5. \A j \in 1 .. len[r] + 1 : line[j] = grid'[r][j - 1]
  <2>1. TAKE j \in 1 .. len[r] + 1
  <2>2. j - 1 \in Cols
    BY <1>1 DEF Cols
  <2>3. grid'[r][j - 1] = IF j - 1 = c THEN ch
                          ELSE IF j - 1 > c /\ j - 1 <= len[r] THEN grid[r][j - 1 - 1] ELSE grid[r][j - 1]
    BY <1>1, <2>2
  <2>4. CASE j <= c
    <3>1. j \in 1 .. len[r] /\ j \in 1 .. c /\ j - 1 # c /\ ~(j - 1 > c)
      BY <1>2, <2>4
    <3> QED BY <1>4, <2>3, <3>1, TextIs
  <2>5. CASE j = c + 1
    BY <1>4, <2>3, <2>5
  <2>6. CASE j > c + 1
    <3>1. j - 1 \in 1 .. len[r] /\ j - 1 > c /\ j - 1 <= len[r] /\ j - 1 # c /\ j \in c + 2 .. len[r] + 1
      BY <2>6
    <3>2. grid'[r][j - 1] = grid[r][j - 1 - 1] /\ line[j] = Text!Line[j - 1]
      BY <1>4, <2>3, <3>1
    <3> QED BY <3>1, <3>2, TextIs
  <2> QED BY <2>4, <2>5, <2>6
<1>6. RowText(grid', len', r) = line
  <2>1. len'[r] = len[r] + 1 /\ grid' \in [Rows -> [Cols -> Chars]] /\ len' \in [Rows -> 0 .. COLS]
    BY <1>1 DEF InBounds, Rows, Cols
  <2>2. r \in Rows /\ line \in Seq(Chars) /\ Len(line) = len'[r] /\ \A j \in 1 .. len'[r] : line[j] = grid'[r][j - 1]
    BY <1>4, <1>5, <2>1
  <2> HIDE Facts
  <2> QED BY <2>1, <2>2, SameRow
<1>7. Text!SetLine(line)
  BY <1>1, <1>4, <1>6, OneLine
<1>8. /\ mode = "insert" /\ Len(Text!Line) < COLS /\ ch \in Chars
      /\ c' + 1 = c + 1 + 1 /\ r' + 1 = r + 1 /\ mode' = mode
  BY <1>1, TextIs
<1> QED BY <1>3, <1>7, <1>8 DEF Text!Insert

(* One character less in the row of the cursor. *)
LEMMA ClosedIs ==
  ASSUME InBounds, InBounds', NEW at \in Nat, at < len[r], NEW p, p = at + 1,
         grid' = [grid EXCEPT ![r] = Closed(@, at, len[r])], len' = [len EXCEPT ![r] = @ - 1], n' = n
  PROVE  /\ Text!SetLine(Text!RemoveAt(Text!Line, p))
         /\ Text!RemoveAt(Text!Line, p) \in Seq(Chars)
         /\ Len(Text!RemoveAt(Text!Line, p)) = len[r] - 1
<1> USE Facts
<1>1. PICK s, line : s = Text!Line /\ line = Text!RemoveAt(s, p)
  OBVIOUS
<1>2. s \in Seq(Chars) /\ Len(s) = len[r] /\ p \in 1 .. Len(s) /\ p - 1 = at
  <2>1. s \in Seq(Chars) /\ Len(s) = len[r]
    BY <1>1, TextIs
  <2> QED BY <2>1
<1>3. /\ line \in Seq(Chars) /\ Len(line) = len[r] - 1
      /\ \A j \in 1 .. at : line[j] = s[j]
      /\ \A j \in p .. len[r] - 1 : line[j] = s[j + 1]
  <2>1. /\ Text!RemoveAt(s, p) \in Seq(Chars) /\ Len(Text!RemoveAt(s, p)) = Len(s) - 1
        /\ \A j \in 1 .. p - 1 : Text!RemoveAt(s, p)[j] = s[j]
        /\ \A j \in p .. Len(s) - 1 : Text!RemoveAt(s, p)[j] = s[j + 1]
    BY <1>2, Removed
  <2> QED BY <1>1, <1>2, <2>1
<1>4. \A j \in 1 .. len[r] : s[j] = grid[r][j - 1]
  BY <1>1, TextIs
<1>5. ASSUME NEW j \in 1 .. len[r] - 1  PROVE line[j] = grid'[r][j - 1]
  <2>1. j - 1 \in Cols /\ j \in Int /\ j < len[r] /\ j - 1 # len[r] - 1
    BY DEF Cols
  <2>2. grid'[r][j - 1] = IF j - 1 >= at /\ j - 1 < len[r] - 1 THEN grid[r][j - 1 + 1] ELSE grid[r][j - 1]
    BY <2>1 DEF Closed
  <2>3. CASE j <= at
    <3>1. j \in 1 .. at /\ j \in 1 .. len[r] /\ ~(j - 1 >= at)
      BY <2>1, <2>3
    <3> QED BY <1>3, <1>4, <2>2, <3>1
  <2>4. CASE j > at
    <3>1. j \in p .. len[r] - 1 /\ j + 1 \in 1 .. len[r] /\ j + 1 - 1 = j - 1 + 1 /\ j - 1 >= at /\ j - 1 < len[r] - 1
      BY <2>1, <2>4
    <3>2. line[j] = grid[r][j + 1 - 1]
      BY <1>3, <1>4, <3>1
    <3> QED BY <2>2, <3>1, <3>2
  <2> QED BY <2>1, <2>3, <2>4
<1>6. RowText(grid', len', r) = line
  <2>1. len'[r] = len[r] - 1 /\ grid' \in [Rows -> [Cols -> Chars]] /\ len' \in [Rows -> 0 .. COLS]
    BY DEF InBounds, Rows, Cols
  <2> QED BY <1>3, <1>5, <2>1, SameRow
<1>7. Text!SetLine(line)
  BY <1>3, <1>6, OneLine
<1> QED BY <1>1, <1>3, <1>7

(* On the character or before it: the columns of both. *)
LEMMA OnCharIs ==
  ASSUME NEW s \in Seq(Chars), NEW col \in Nat
  PROVE  /\ \A row : Clamped("normal", row, col, Len(s)) + 1 = Text!OnChar(s, col + 1)
         /\ SatSub(Len(s), 1) + 1 = Text!OnChar(s, Len(s))
         /\ s # <<>> <=> Len(s) > 0
<1>1. PICK m \in Nat : m = Len(s)
  OBVIOUS
<1>2. s = <<>> <=> m = 0
  BY <1>1, EmptySeq
<1>3. Smaller(col, SatSub(m, 1)) + 1 = IF m = 0 THEN 1 ELSE IF col + 1 > m THEN m ELSE col + 1
  BY DEF Smaller, SatSub
<1>4. SatSub(m, 1) + 1 = IF m = 0 THEN 1 ELSE IF m > m THEN m ELSE m
  BY DEF SatSub
<1> QED BY <1>1, <1>2, <1>3, <1>4 DEF Clamped, Text!OnChar

(* Backspace takes the character before the cursor out of the line, *)
LEMMA BackspaceIs ==
  ASSUME InBounds, InBounds', Backspace
  PROVE  Text!Erase
<1> USE Facts
<1>1. /\ grid' = [grid EXCEPT ![r] = Closed(@, c - 1, len[r])] /\ len' = [len EXCEPT ![r] = @ - 1] /\ n' = n
      /\ c > 0 /\ mode = "insert" /\ mode' = mode /\ r' = r /\ c' = c - 1
  BY DEF Backspace, Change, Cursor
<1>2. c <= len[r]
  BY <1>1 DEF InBounds
<1>3. c - 1 \in Nat /\ c - 1 < len[r] /\ c + 1 - 1 = c - 1 + 1
  BY <1>1, <1>2
<1>4. Text!SetLine(Text!RemoveAt(Text!Line, c + 1 - 1))
  BY <1>1, <1>3, ClosedIs
<1>5. c + 1 > 1 /\ c' + 1 = c + 1 - 1 /\ r' + 1 = r + 1
  BY <1>1
<1> QED BY <1>1, <1>4, <1>5 DEF Text!Erase

(* and x the one under it. *)
LEMMA DeleteCharIs ==
  ASSUME InBounds, InBounds', mode = "normal", DeleteChar
  PROVE  Text!DeleteChar
<1> USE Facts
<1>1. /\ grid' = [grid EXCEPT ![r] = Closed(@, c, len[r])] /\ len' = [len EXCEPT ![r] = @ - 1] /\ n' = n
      /\ c < len[r] /\ mode' = mode /\ r' = r
      /\ c' = IF c > 0 /\ c >= len[r] - 1 THEN SatSub(len[r] - 1, 1) ELSE c
  BY DEF DeleteChar, Change, Cursor
<1>2. PICK line : line = Text!RemoveAt(Text!Line, c + 1)
  OBVIOUS
<1>3. Text!SetLine(line) /\ line \in Seq(Chars) /\ Len(line) = len[r] - 1
  BY <1>1, <1>2, ClosedIs
<1>4. c' = Smaller(c, SatSub(Len(line), 1))
  <2>1. Len(line) = len[r] - 1
    BY <1>3
  <2> HIDE <1>2
  <2> QED BY <1>1, <2>1 DEF Smaller, SatSub
<1>5. c' + 1 = Text!OnChar(line, c + 1)
  BY <1>3, <1>4, OnCharIs DEF Clamped
<1>6. Text!Line # <<>>
  BY <1>1, TextIs
<1>7. r' + 1 = r + 1
  BY <1>1
<1> QED BY <1>1, <1>2, <1>3, <1>5, <1>6, <1>7 DEF Text!DeleteChar

(* A row that lies where another lay. *)
LEMMA MovedRow ==
  ASSUME NEW i, NEW k, grid'[i] = grid[k], len'[i] = len[k]
  PROVE  RowText(grid', len', i) = RowText(grid, len, k)
BY DEF RowText

(* Enter makes two lines of one: what is before the cursor and the rest. *)
LEMMA SplitIs ==
  ASSUME InBounds, InBounds', InsertNewline
  PROVE  Text!SplitLine
<1>0. /\ n \in Nat /\ r \in Nat /\ c \in Nat /\ len[r] \in Nat /\ ROWS \in Nat /\ COLS \in Nat
      /\ 0 < n /\ n <= ROWS /\ r < n /\ len[r] <= COLS /\ r \in Rows
      /\ len \in [Rows -> 0 .. COLS] /\ grid \in [Rows -> [Cols -> Chars]]
  BY Facts
<1> DEFINE tailLen == len[r] - c
           tail == [j \in Cols |-> IF j < tailLen THEN grid[r][c + j] ELSE Space]
<1>1. /\ grid' = [DownFrom(grid, r) EXCEPT ![r + 1] = tail]
      /\ len' = [DownFrom(len, r) EXCEPT ![r + 1] = tailLen, ![r] = c] /\ n' = n + 1
      /\ n < ROWS /\ mode = "insert" /\ mode' = mode /\ r' = r + 1 /\ c' = 0
  BY DEF InsertNewline, Change, Cursor
<1>2. c <= len[r]
  BY <1>0, <1>1 DEF InBounds
<1>3. \A k \in Rows :
        /\ k # r + 1 => grid'[k] = IF k > r /\ k <= n THEN grid[k - 1] ELSE grid[k]
        /\ k # r + 1 /\ k # r => len'[k] = IF k > r /\ k <= n THEN len[k - 1] ELSE len[k]
  BY <1>0, <1>1 DEF DownFrom
<1>4. r + 1 \in Rows /\ grid'[r + 1] = tail /\ len'[r + 1] = tailLen /\ len'[r] = c /\ grid'[r] = grid[r]
  <2>1. r + 1 \in Rows /\ r + 1 # r
    BY <1>0, <1>1 DEF Rows
  <2>2. len'[r + 1] = tailLen /\ len'[r] = c
    BY <1>0, <1>1, <2>1 DEF DownFrom
  <2>3. grid'[r + 1] = tail
    BY <1>0, <1>1, <2>1 DEF DownFrom
  <2> QED BY <1>0, <1>3, <2>1, <2>2, <2>3
<1>5. grid' \in [Rows -> [Cols -> Chars]] /\ len' \in [Rows -> 0 .. COLS]
  BY DEF InBounds, Rows, Cols
<1>6. PICK line, first, rest : line = Text!Line /\ first = SubSeq(line, 1, (c + 1) - 1) /\ rest = SubSeq(line, c + 1, Len(line))
  OBVIOUS
<1>7. line \in Seq(Chars) /\ Len(line) = len[r] /\ \A j \in 1 .. len[r] : line[j] = grid[r][j - 1]
  BY <1>6, TextIs
<1>8. first \in Seq(Chars) /\ Len(first) = c /\ \A j \in 1 .. c : first[j] = line[j]
  <2>1. first = SubSeq(line, 1, c)
    BY <1>0, <1>6
  <2> QED BY <1>0, <1>2, <1>7, <2>1, SubSeqProperties
<1>9. rest \in Seq(Chars) /\ Len(rest) = tailLen /\ \A j \in 1 .. tailLen : rest[j] = line[c + j]
  <2>1. PICK p : p = c + 1
    OBVIOUS
  <2>2. p \in Int /\ p >= 1 /\ p <= len[r] + 1 /\ len[r] - p + 1 = tailLen
    BY <1>0, <1>2, <2>1
  <2>3. /\ rest \in Seq(Chars) /\ Len(rest) = IF p <= len[r] THEN len[r] - p + 1 ELSE 0
        /\ \A j \in 1 .. len[r] - p + 1 : rest[j] = line[(p + j) - 1]
    <3>1. rest = SubSeq(line, p, len[r])
      BY <1>6, <1>7, <2>1
    <3>2. \A j \in p .. len[r] : line[j] \in Chars
      BY <1>0, <1>7, <2>2
    <3> QED BY <1>0, <2>2, <3>1, <3>2, SubSeqProperties
  <2>4. Len(rest) = tailLen
    BY <1>0, <1>2, <2>1, <2>2, <2>3
  <2>5. \A j \in 1 .. tailLen : (p + j) - 1 = c + j
    BY <1>0, <2>1
  <2> QED BY <2>2, <2>3, <2>4, <2>5
<1> HIDE DEF tail
<1>10. RowText(grid', len', r) = first
  <2>1. \A j \in 1 .. c : first[j] = grid'[r][j - 1]
    BY <1>0, <1>2, <1>4, <1>7, <1>8
  <2>2. r \in Rows /\ len'[r] = c
    BY <1>0, <1>4
  <2>3. Len(first) = len'[r] /\ \A j \in 1 .. len'[r] : first[j] = grid'[r][j - 1]
    BY <1>8, <2>1, <2>2
  <2> QED BY <1>5, <1>8, <2>2, <2>3, SameRow
<1>11. RowText(grid', len', r + 1) = rest
  <2>1. ASSUME NEW j \in 1 .. tailLen  PROVE rest[j] = grid'[r + 1][j - 1]
    <3>1. j - 1 \in Cols /\ j - 1 < tailLen /\ c + j \in 1 .. len[r] /\ (c + j) - 1 = c + (j - 1)
      BY <1>0, <1>2 DEF Cols
    <3>2. tail[j - 1] = grid[r][c + (j - 1)]
      BY <3>1 DEF tail
    <3>3. rest[j] = grid[r][(c + j) - 1]
      BY <1>7, <1>9, <3>1
    <3> QED BY <1>4, <3>1, <3>2, <3>3
  <2>2. Len(rest) = len'[r + 1] /\ \A j \in 1 .. len'[r + 1] : rest[j] = grid'[r + 1][j - 1]
    BY <1>4, <1>9, <2>1
  <2> QED BY <1>4, <1>5, <1>9, <2>2, SameRow
<1>12. PICK t, p : t = Twofold(TextLines, p, first, rest) /\ p = r + 1
  OBVIOUS
<1>13. /\ t \in Seq(Seq(Chars)) /\ Len(t) = n + 1
       /\ \A k \in 1 .. r : t[k] = TextLines[k]
       /\ t[r + 1] = first /\ t[r + 2] = rest
       /\ \A k \in r + 3 .. n + 1 : t[k] = TextLines[k - 1]
  <2>1. TextLines \in Seq(Seq(Chars)) /\ Len(TextLines) = n /\ p \in 1 .. n
    BY <1>0, <1>12, TextIs
  <2>2. /\ Twofold(TextLines, p, first, rest) \in Seq(Seq(Chars)) /\ Len(Twofold(TextLines, p, first, rest)) = n + 1
        /\ \A k \in 1 .. p - 1 : Twofold(TextLines, p, first, rest)[k] = TextLines[k]
        /\ Twofold(TextLines, p, first, rest)[p] = first /\ Twofold(TextLines, p, first, rest)[p + 1] = rest
        /\ \A k \in p + 2 .. n + 1 : Twofold(TextLines, p, first, rest)[k] = TextLines[k - 1]
    <3>1. first \in Seq(Chars) /\ rest \in Seq(Chars)
      BY <1>8, <1>9
    <3>2. PICK u : u = TextLines
      OBVIOUS
    <3>3. u \in Seq(Seq(Chars)) /\ Len(u) = n /\ p \in 1 .. Len(u)
      BY <2>1, <3>2
    <3>4. /\ Twofold(u, p, first, rest) \in Seq(Seq(Chars)) /\ Len(Twofold(u, p, first, rest)) = Len(u) + 1
          /\ \A k \in 1 .. p - 1 : Twofold(u, p, first, rest)[k] = u[k]
          /\ Twofold(u, p, first, rest)[p] = first /\ Twofold(u, p, first, rest)[p + 1] = rest
          /\ \A k \in p + 2 .. Len(u) + 1 : Twofold(u, p, first, rest)[k] = u[k - 1]
      <4>1. PICK S : S = Seq(Chars)
        OBVIOUS
      <4>2. u \in Seq(S) /\ first \in S /\ rest \in S /\ p \in 1 .. Len(u)
        BY <3>1, <3>3, <4>1
      <4>3. Twofold(u, p, first, rest) \in Seq(S) /\ Len(Twofold(u, p, first, rest)) = Len(u) + 1
        BY <4>2, Doubled
      <4>4. \A k \in 1 .. p - 1 : Twofold(u, p, first, rest)[k] = u[k]
        BY <4>2, Doubled
      <4>5. Twofold(u, p, first, rest)[p] = first /\ Twofold(u, p, first, rest)[p + 1] = rest
        BY <4>2, Doubled
      <4>6. \A k \in p + 2 .. Len(u) + 1 : Twofold(u, p, first, rest)[k] = u[k - 1]
        BY <4>2, Doubled
      <4> QED BY <4>1, <4>3, <4>4, <4>5, <4>6
    <3> QED BY <3>2, <3>3, <3>4
  <2>3. p - 1 = r /\ p + 1 = r + 2 /\ p + 2 = r + 3
    BY <1>0, <1>12
  <2> HIDE DEF TextLines
  <2> QED BY <1>12, <2>2, <2>3
<1>14. ASSUME NEW k \in 1 .. n + 1  PROVE RowText(grid', len', k - 1) = t[k]
  <2>0. k \in Nat /\ k >= 1 /\ k <= n + 1
    BY <1>0
  <2>1. CASE k < r + 1
    <3>1. k - 1 \in Rows /\ k \in 1 .. r /\ k \in 1 .. n /\ k - 1 # r + 1 /\ k - 1 # r /\ ~(k - 1 > r)
      BY <1>0, <2>0, <2>1 DEF Rows
    <3>2. RowText(grid', len', k - 1) = RowText(grid, len, k - 1)
      BY <1>3, <3>1, MovedRow
    <3> QED BY <1>13, <3>1, <3>2, TextIs
  <2>2. CASE k = r + 1
    <3>1. k - 1 = r
      BY <1>0, <2>2
    <3> QED BY <1>10, <1>13, <2>2, <3>1
  <2>3. CASE k = r + 2
    <3>1. k - 1 = r + 1
      BY <1>0, <2>3
    <3> QED BY <1>11, <1>13, <2>3, <3>1
  <2>4. CASE k > r + 2
    <3>0. k - 1 \in Nat /\ k - 1 <= n /\ k - 1 > r + 1 /\ k - 1 <= ROWS - 1
      BY <1>0, <1>1, <2>0, <2>4
    <3>1. /\ k - 1 \in Rows /\ k \in r + 3 .. n + 1 /\ k - 1 \in 1 .. n /\ k - 1 # r + 1 /\ k - 1 # r
          /\ k - 1 > r /\ k - 1 <= n
      BY <1>0, <2>0, <3>0 DEF Rows
    <3>2. RowText(grid', len', k - 1) = RowText(grid, len, k - 1 - 1)
      BY <1>3, <3>1, MovedRow
    <3> QED BY <1>13, <3>1, <3>2, TextIs
  <2> QED BY <1>0, <2>0, <2>1, <2>2, <2>3, <2>4
<1>15. TextLines' = t
  BY <1>1, <1>13, <1>14, NewLines
<1>16. TextLines' = SubSeq(TextLines, 1, (r + 1) - 1)
                    \o <<SubSeq(Text!Line, 1, (c + 1) - 1), SubSeq(Text!Line, c + 1, Len(Text!Line))>>
                    \o SubSeq(TextLines, r + 1 + 1, Len(TextLines))
  <2>1. TextLines' = Twofold(TextLines, r + 1, SubSeq(Text!Line, 1, (c + 1) - 1),
                             SubSeq(Text!Line, c + 1, Len(Text!Line)))
    BY <1>6, <1>12, <1>15
  <2> QED BY <2>1 DEF Twofold
<1>17. Len(TextLines) < ROWS /\ r' + 1 = r + 1 + 1 /\ c' + 1 = 1
  BY <1>0, <1>1, TextIs
<1> QED BY <1>1, <1>16, <1>17, Zenon DEF Text!SplitLine

(* The lines from row p on move up by one. *)
LEMMA LinesUp ==
  ASSUME InBounds', NEW t \in Seq(Seq(Chars)), NEW p \in 1 .. Len(t), n' = Len(t) - 1,
         \A k \in 1 .. p - 1 : RowText(grid', len', k - 1) = t[k],
         \A k \in p .. Len(t) - 1 : RowText(grid', len', k - 1) = t[k + 1]
  PROVE  TextLines' = Text!RemoveAt(t, p)
<1>1. PICK S, u : S = Seq(Chars) /\ u = Text!RemoveAt(t, p)
  OBVIOUS
<1>2. t \in Seq(S) /\ Len(t) \in Nat /\ p \in Nat
  BY <1>1
<1>3. u \in Seq(S) /\ Len(u) = Len(t) - 1
  BY <1>1, <1>2, Removed
<1>4. \A k \in 1 .. p - 1 : u[k] = t[k]
  BY <1>1, <1>2, Removed
<1>5. \A k \in p .. Len(t) - 1 : u[k] = t[k + 1]
  BY <1>1, <1>2, Removed
<1>6. ASSUME NEW k \in 1 .. n'  PROVE RowText(grid', len', k - 1) = u[k]
  <2>1. k \in 1 .. p - 1 \/ k \in p .. Len(t) - 1
    BY <1>2
  <2> QED BY <1>4, <1>5, <2>1
<1> QED BY <1>1, <1>3, <1>6, NewLines

(* dd takes the line out of the text, the only one is emptied. *)
LEMMA DeleteLineIs ==
  ASSUME InBounds, InBounds', mode = "normal", DeleteLine
  PROVE  Text!DeleteLine
<1>0. /\ n \in Nat /\ r \in Nat /\ ROWS \in Nat
      /\ 0 < n /\ n <= ROWS /\ r < n /\ r \in Rows
      /\ len \in [Rows -> 0 .. COLS] /\ grid \in [Rows -> [Cols -> Chars]]
  BY Facts
<1>1. mode' = mode /\ c' = 0 /\ mode = "normal"
  BY DEF DeleteLine, Cursor
<1>2. TextLines \in Seq(Seq(Chars)) /\ Len(TextLines) = n
  BY TextIs
<1>3. CASE n <= 1
  <2>1. len' = [len EXCEPT ![0] = 0] /\ n' = n /\ r' = r /\ n = 1 /\ r = 0 /\ len'[0] = 0
    BY <1>0, <1>3 DEF DeleteLine, Change, Cursor, Rows
  <2>2. RowText(grid', len', 0) = <<>>
    BY <2>1 DEF RowText
  <2>3. PICK t : t = <<<<>>>>
    OBVIOUS
  <2>4. t \in Seq(Seq(Chars)) /\ Len(t) = 1 /\ t[1] = <<>>
    BY <2>3
  <2>5. ASSUME NEW k \in 1 .. n'  PROVE RowText(grid', len', k - 1) = t[k]
    <3>1. k = 1 /\ k - 1 = 0
      BY <2>1
    <3> QED BY <2>2, <2>4, <3>1
  <2>6. TextLines' = <<<<>>>>
    BY <2>1, <2>3, <2>4, <2>5, NewLines
  <2> QED BY <1>1, <1>2, <2>1, <2>6 DEF Text!DeleteLine
<1>4. CASE ~(n <= 1)
  <2>1. grid' = UpFrom(grid, r) /\ len' = UpFrom(len, r) /\ n' = n - 1 /\ r' = Smaller(r, n - 2)
    BY <1>4 DEF DeleteLine, Change, Cursor
  <2>2. PICK p : p = r + 1
    OBVIOUS
  <2>3. p \in 1 .. n /\ p - 1 = r
    BY <1>0, <2>2
  <2>4. ASSUME NEW k \in 1 .. p - 1  PROVE RowText(grid', len', k - 1) = TextLines[k]
    <3>1. k - 1 \in Rows /\ ~(k - 1 >= r) /\ k \in 1 .. n
      BY <1>0, <2>3 DEF Rows
    <3>2. grid'[k - 1] = grid[k - 1] /\ len'[k - 1] = len[k - 1]
      BY <2>1, <3>1 DEF UpFrom
    <3> QED BY <3>1, <3>2, MovedRow, TextIs
  <2>5. ASSUME NEW k \in p .. n - 1  PROVE RowText(grid', len', k - 1) = TextLines[k + 1]
    <3>1. k - 1 \in Rows /\ k - 1 >= r /\ k - 1 < n - 1 /\ k + 1 \in 1 .. n /\ (k - 1) + 1 = (k + 1) - 1
      BY <1>0, <2>3 DEF Rows
    <3>2. grid'[k - 1] = grid[(k + 1) - 1] /\ len'[k - 1] = len[(k + 1) - 1]
      BY <2>1, <3>1 DEF UpFrom
    <3>3. RowText(grid', len', k - 1) = RowText(grid, len, (k + 1) - 1)
      BY <3>2, MovedRow
    <3> QED BY <3>1, <3>3, TextIs
  <2>6. TextLines' = Text!RemoveAt(TextLines, r + 1)
    <3>1. PICK t : t = TextLines
      OBVIOUS
    <3>2. t \in Seq(Seq(Chars)) /\ Len(t) = n /\ p \in 1 .. Len(t) /\ n' = Len(t) - 1
      BY <1>2, <2>1, <2>3, <3>1
    <3>3. \A k \in 1 .. p - 1 : RowText(grid', len', k - 1) = t[k]
      BY <2>4, <3>1
    <3>4. \A k \in p .. Len(t) - 1 : RowText(grid', len', k - 1) = t[k + 1]
      BY <2>5, <3>1, <3>2
    <3>5. TextLines' = Text!RemoveAt(t, p)
      BY <3>2, <3>3, <3>4, LinesUp
    <3> QED BY <2>2, <3>1, <3>5
  <2>7. r' + 1 = IF r + 1 = n THEN (r + 1) - 1 ELSE r + 1
    BY <1>0, <1>4, <2>1 DEF Smaller
  <2> QED BY <1>1, <1>2, <1>4, <2>6, <2>7 DEF Text!DeleteLine
<1> QED BY <1>3, <1>4

(* Backspace at the start of a line appends it to the one before. *)
LEMMA JoinIs ==
  ASSUME InBounds, InBounds', JoinLines
  PROVE  Text!Erase
<1>0. /\ n \in Nat /\ r \in Nat /\ ROWS \in Nat /\ COLS \in Nat
      /\ 0 < n /\ n <= ROWS /\ r < n /\ r \in Rows /\ len[r] \in Nat
      /\ len \in [Rows -> 0 .. COLS] /\ grid \in [Rows -> [Cols -> Chars]]
  BY Facts
<1> DEFINE prev == len[r - 1]
           joined == [j \in Cols |-> IF j >= prev /\ j < prev + len[r] THEN grid[r][j - prev]
                                     ELSE grid[r - 1][j]]
           g == [grid EXCEPT ![r - 1] = joined]
           l == [len EXCEPT ![r - 1] = prev + len[r]]
<1>1. /\ grid' = UpFrom(g, r) /\ len' = UpFrom(l, r) /\ n' = n - 1
      /\ r > 0 /\ prev + len[r] <= COLS /\ c = 0
      /\ mode = "insert" /\ mode' = mode /\ r' = r - 1 /\ c' = prev
  BY DEF JoinLines, Joins, Change, Cursor
<1>2. r - 1 \in Rows /\ prev \in Nat /\ r \in 1 .. n /\ r # r - 1
  BY <1>0, <1>1 DEF Rows
<1>3. \A k \in Rows : /\ g[k] = IF k = r - 1 THEN joined ELSE grid[k]
                      /\ l[k] = IF k = r - 1 THEN prev + len[r] ELSE len[k]
  BY <1>0, <1>2
<1> HIDE DEF g, l, joined
<1>4. \A k \in Rows : /\ grid'[k] = IF k >= r /\ k < n - 1 THEN g[k + 1] ELSE g[k]
                      /\ len'[k] = IF k >= r /\ k < n - 1 THEN l[k + 1] ELSE l[k]
  BY <1>1 DEF UpFrom
<1>5. PICK up, line, both : up = TextLines[r] /\ line = Text!Line /\ both = up \o line
  OBVIOUS
<1>6. /\ line \in Seq(Chars) /\ Len(line) = len[r]
      /\ \A j \in 1 .. len[r] : line[j] = grid[r][j - 1]
  BY <1>5, TextIs
<1>7. /\ up \in Seq(Chars) /\ Len(up) = prev
      /\ \A j \in 1 .. prev : up[j] = grid[r - 1][j - 1]
  BY <1>2, <1>5, TextIs
<1> HIDE DEF prev
<1>8. /\ both \in Seq(Chars) /\ Len(both) = prev + len[r]
      /\ \A j \in 1 .. prev + len[r] : both[j] = IF j <= prev THEN up[j] ELSE line[j - prev]
  <2>1. /\ both \in Seq(Chars) /\ Len(both) = Len(up) + Len(line)
        /\ \A j \in 1 .. Len(up) + Len(line) : both[j] = IF j <= Len(up) THEN up[j] ELSE line[j - Len(up)]
    <3>1. up \in Seq(Chars) /\ line \in Seq(Chars)
      BY <1>6, <1>7
    <3> QED BY <1>5, <3>1, ConcatProperties
  <2> QED BY <1>6, <1>7, <2>1
<1>9. ASSUME NEW j \in 1 .. prev + len[r]  PROVE both[j] = joined[j - 1]
  <2>1. j - 1 \in Cols
    BY <1>0, <1>1, <1>2 DEF Cols
  <2>2. joined[j - 1] = IF j - 1 >= prev /\ j - 1 < prev + len[r] THEN grid[r][(j - 1) - prev] ELSE grid[r - 1][j - 1]
    BY <2>1 DEF joined
  <2>3. CASE j <= prev
    <3>1. j \in 1 .. prev /\ ~(j - 1 >= prev)
      BY <1>0, <1>2, <2>3
    <3>2. both[j] = grid[r - 1][j - 1]
      BY <1>7, <1>8, <2>3, <3>1
    <3> QED BY <2>2, <3>1, <3>2
  <2>4. CASE ~(j <= prev)
    <3>1. j - prev \in 1 .. len[r] /\ (j - prev) - 1 = (j - 1) - prev /\ j - 1 >= prev /\ j - 1 < prev + len[r]
      BY <1>0, <1>2, <2>4
    <3>2. both[j] = grid[r][(j - prev) - 1]
      BY <1>6, <1>8, <2>4, <3>1
    <3> QED BY <2>2, <3>1, <3>2
  <2> QED BY <2>3, <2>4
<1>10. RowText(grid', len', r - 1) = both
  <2>1. ~(r - 1 >= r)
    BY <1>0
  <2>2. grid'[r - 1] = joined /\ len'[r - 1] = prev + len[r]
    BY <1>2, <1>3, <1>4, <2>1
  <2>3. grid' \in [Rows -> [Cols -> Chars]] /\ len' \in [Rows -> 0 .. COLS]
    BY DEF InBounds, Rows, Cols
  <2>4. Len(both) = len'[r - 1] /\ \A j \in 1 .. len'[r - 1] : both[j] = grid'[r - 1][j - 1]
    BY <1>8, <1>9, <2>2
  <2> QED BY <1>2, <1>8, <2>3, <2>4, SameRow
<1>11. PICK t, p : t = [TextLines EXCEPT ![r] = both] /\ p = r + 1
  OBVIOUS
<1>12. t \in Seq(Seq(Chars)) /\ Len(t) = n /\ t[r] = both /\ \A k \in 1 .. n : k # r => t[k] = TextLines[k]
  <2>1. TextLines \in Seq(Seq(Chars)) /\ Len(TextLines) = n
    BY TextIs
  <2> QED BY <1>0, <1>2, <1>8, <1>11, <2>1, ExceptSeq
<1>13. p \in 1 .. n /\ p - 1 = r
  BY <1>0, <1>11
<1>14. ASSUME NEW k \in 1 .. p - 1  PROVE RowText(grid', len', k - 1) = t[k]
  <2>1. CASE k = r
    BY <1>10, <1>12, <2>1
  <2>2. CASE k # r
    <3>1. k - 1 \in Rows /\ ~(k - 1 >= r) /\ k \in 1 .. n /\ k - 1 # r - 1
      BY <1>0, <1>13, <2>2 DEF Rows
    <3>2. grid'[k - 1] = grid[k - 1] /\ len'[k - 1] = len[k - 1]
      BY <1>3, <1>4, <3>1
    <3>3. RowText(grid', len', k - 1) = RowText(grid, len, k - 1)
      BY <3>2, MovedRow
    <3>4. TextLines[k] = RowText(grid, len, k - 1)
      BY <3>1, TextIs
    <3> QED BY <1>12, <2>2, <3>1, <3>3, <3>4
  <2> QED BY <2>1, <2>2
<1>15. ASSUME NEW k \in p .. n - 1  PROVE RowText(grid', len', k - 1) = t[k + 1]
  <2>1. /\ k - 1 \in Rows /\ k - 1 >= r /\ k - 1 < n - 1 /\ k + 1 \in 1 .. n /\ (k - 1) + 1 = (k + 1) - 1
        /\ (k + 1) - 1 \in Rows /\ (k + 1) - 1 # r - 1 /\ k + 1 # r
    BY <1>0, <1>13 DEF Rows
  <2>2. grid'[k - 1] = grid[(k + 1) - 1] /\ len'[k - 1] = len[(k + 1) - 1]
    BY <1>3, <1>4, <2>1
  <2>3. RowText(grid', len', k - 1) = RowText(grid, len, (k + 1) - 1)
    BY <2>2, MovedRow
  <2> QED BY <1>12, <2>1, <2>3, TextIs
<1>16. TextLines' = Text!RemoveAt(t, p)
  BY <1>1, <1>12, <1>13, <1>14, <1>15, LinesUp
<1>17. t = Text!ReplaceAt(TextLines, (r + 1) - 1, TextLines[(r + 1) - 1] \o Text!Line)
  <2>1. (r + 1) - 1 = r
    BY <1>0
  <2> QED BY <1>5, <1>11, <2>1 DEF Text!ReplaceAt
<1>18. /\ c + 1 = 1 /\ r + 1 > 1 /\ Len(TextLines[(r + 1) - 1]) + Len(Text!Line) <= COLS
       /\ r' + 1 = (r + 1) - 1 /\ c' + 1 = Len(TextLines[(r + 1) - 1]) + 1
  <2>1. (r + 1) - 1 = r
    BY <1>0
  <2> QED BY <1>0, <1>1, <1>5, <1>6, <1>7, <2>1
<1> QED BY <1>1, <1>11, <1>16, <1>17, <1>18 DEF Text!Erase

(* The lines below row p move down by one, and an empty one comes there. *)
LEMMA OpenLineIs ==
  ASSUME InBounds, InBounds', mode = "normal", OpenLineBelow
  PROVE  Text!OpenLine
<1>0. /\ n \in Nat /\ r \in Nat /\ ROWS \in Nat
      /\ 0 < n /\ n <= ROWS /\ r < n /\ r \in Rows
      /\ len \in [Rows -> 0 .. COLS] /\ grid \in [Rows -> [Cols -> Chars]]
  BY Facts
<1>1. mode' = "insert"
  BY DEF OpenLineBelow
<1>2. TextLines \in Seq(Seq(Chars)) /\ Len(TextLines) = n
  BY TextIs
<1>3. CASE n >= ROWS
  <2>1. grid' = grid /\ len' = len /\ n' = n /\ r' = r /\ c' = c /\ n = ROWS
    BY <1>0, <1>3 DEF OpenLineBelow, KeepText, Cursor
  <2>2. TextLines' = TextLines
    BY <2>1 DEF TextLines
  <2> QED BY <1>1, <1>2, <2>1, <2>2 DEF Text!OpenLine
<1>4. CASE ~(n >= ROWS)
  <2>1. /\ grid' = [DownFrom(grid, r) EXCEPT ![r + 1] = BlankRow] /\ len' = [DownFrom(len, r) EXCEPT ![r + 1] = 0]
        /\ n' = n + 1 /\ r' = r + 1 /\ c' = 0
    BY <1>4 DEF OpenLineBelow, Change, Cursor
  <2>2. r + 1 \in Rows
    BY <1>0, <1>4 DEF Rows
  <2>3. \A k \in Rows :
          k # r + 1 => /\ grid'[k] = IF k > r /\ k <= n THEN grid[k - 1] ELSE grid[k]
                       /\ len'[k] = IF k > r /\ k <= n THEN len[k - 1] ELSE len[k]
    BY <2>1, <2>2 DEF DownFrom
  <2>4. RowText(grid', len', r + 1) = <<>>
    <3>1. len'[r + 1] = 0
      BY <2>1, <2>2 DEF DownFrom
    <3> QED BY <3>1 DEF RowText
  <2>5. PICK S, t, p, e : S = Seq(Chars) /\ t = TextLines /\ p = (r + 1) + 1 /\ e = <<>>
    OBVIOUS
  <2>6. t \in Seq(S) /\ Len(t) = n /\ p \in 1 .. Len(t) + 1 /\ e \in S /\ p - 1 = r + 1
    BY <1>0, <1>2, <2>5
  <2>7. PICK u : u = Text!InsertAt(t, p, e)
    OBVIOUS
  <2>8. u \in Seq(S) /\ Len(u) = Len(t) + 1
    BY <2>6, <2>7, Inserted
  <2>9. \A k \in 1 .. p - 1 : u[k] = t[k]
    BY <2>6, <2>7, Inserted
  <2>10. u[p] = e
    BY <2>6, <2>7, Inserted
  <2>11. \A k \in p + 1 .. Len(t) + 1 : u[k] = t[k - 1]
    <3>1. \A k \in p + 1 .. Len(t) + 1 : Text!InsertAt(t, p, e)[k] = t[k - 1]
      <4>1. t \in Seq(S) /\ p \in 1 .. Len(t) + 1 /\ e \in S
        BY <2>6
      <4> QED BY <4>1, Inserted
    <3> QED BY <2>7, <3>1
  <2>12. ASSUME NEW k \in 1 .. n + 1  PROVE RowText(grid', len', k - 1) = u[k]
    <3>0. k \in Nat /\ 1 <= k /\ k <= n + 1 /\ p \in Nat
      BY <1>0, <2>5
    <3>1. CASE k < p
      <4>1. /\ k - 1 \in Rows /\ k - 1 # r + 1 /\ ~(k - 1 > r) /\ k \in 1 .. p - 1 /\ k \in 1 .. n
        BY <1>0, <2>6, <3>0, <3>1 DEF Rows
      <4>2. RowText(grid', len', k - 1) = RowText(grid, len, k - 1)
        BY <2>3, <4>1, MovedRow
      <4> QED BY <2>5, <2>9, <4>1, <4>2, TextIs
    <3>2. CASE k = p
      <4>1. k - 1 = r + 1
        BY <2>6, <3>2
      <4> QED BY <2>4, <2>5, <2>10, <3>2, <4>1
    <3>3. CASE k > p
      <4>1. /\ k - 1 \in Rows /\ k - 1 # r + 1 /\ k - 1 > r /\ k - 1 <= n /\ k - 1 \in 1 .. n
            /\ k \in p + 1 .. Len(t) + 1
        BY <1>0, <1>4, <2>6, <3>0, <3>3 DEF Rows
      <4>2. RowText(grid', len', k - 1) = RowText(grid, len, (k - 1) - 1)
        BY <2>3, <4>1, MovedRow
      <4> QED BY <2>5, <2>11, <4>1, <4>2, TextIs
    <3> QED BY <3>0, <3>1, <3>2, <3>3
  <2>13. TextLines' = u
    <3>1. u \in Seq(Seq(Chars)) /\ Len(u) = n' /\ \A k \in 1 .. n' : RowText(grid', len', k - 1) = u[k]
      BY <2>1, <2>5, <2>6, <2>8, <2>12
    <3> QED BY <3>1, NewLines
  <2>14. TextLines' = Text!InsertAt(TextLines, (r + 1) + 1, <<>>)
    BY <2>5, <2>7, <2>13
  <2>15. Len(TextLines) # ROWS /\ r' + 1 = (r + 1) + 1 /\ c' + 1 = 1
    BY <1>0, <1>2, <1>4, <2>1
  <2> QED BY <1>1, <2>14, <2>15 DEF Text!OpenLine
<1> QED BY <1>3, <1>4

(* A set of numbers has a smallest: the first space of a word's rest. *)
LEMMA HasSmallest ==
  ASSUME NEW S \in SUBSET Nat, S # {}
  PROVE  \E m \in S : \A j \in S : m <= j
<1>1. PICK R : R = {ss \in Nat \X Nat : ss[1] < ss[2]}
  OBVIOUS
<1>2. IsWellFoundedOn(R, Nat)
  BY <1>1, NatLessThanWellFounded DEF OpToRel
<1>3. PICK m \in S : \A j \in S : ~(<<j, m>> \in R)
  BY <1>2, WFMin
<1>4. ASSUME NEW j \in S  PROVE m <= j
  <2>1. <<j, m>> \notin R
    BY <1>3
  <2>2. ~(j < m)
    BY <1>1, <2>1
  <2> QED BY <2>2
<1> QED BY <1>4

(* dw takes the rest of a word and the spaces behind it out of the line. *)
LEMMA DeleteWordIs ==
  ASSUME InBounds, InBounds', mode = "normal", DeleteWord
  PROVE  Text!DeleteWord
<1>0. /\ n \in Nat /\ r \in Nat /\ c \in Nat /\ ROWS \in Nat /\ COLS \in Nat
      /\ r \in Rows /\ len[r] \in Nat /\ len[r] <= COLS
      /\ len \in [Rows -> 0 .. COLS] /\ grid \in [Rows -> [Cols -> Chars]]
  BY Facts
<1>1. c < len[r] /\ mode' = mode /\ mode = "normal"
  BY DEF DeleteWord
<1>2. PICK end \in c + 1 .. len[r] :
        /\ WordEnd(end)
        /\ Change([grid EXCEPT ![r] = [j \in Cols |->
                     IF j >= c /\ j < len[r] - (end - c) THEN @[j + (end - c)]
                     ELSE IF j >= len[r] - (end - c) /\ j < len[r] THEN Space ELSE @[j]]],
                  [len EXCEPT ![r] = @ - (end - c)], n)
        /\ Cursor(r, Clamped(mode, r, c, len[r] - (end - c)))
  BY DEF DeleteWord
<1>3. PICK del : del = end - c
  OBVIOUS
<1>4. del \in Nat /\ del >= 1 /\ del <= len[r] - c /\ end \in Nat /\ c < end /\ end <= len[r] /\ end = c + del
  BY <1>0, <1>1, <1>3
<1>5. PICK s, p, q : s = Text!Line /\ p = c + 1 /\ q = end + 1
  OBVIOUS
<1>6. s \in Seq(Chars) /\ Len(s) = len[r] /\ \A j \in 1 .. len[r] : s[j] = grid[r][j - 1]
  BY <1>5, TextIs
<1>7. PICK line : line = Without(s, p, q)
  OBVIOUS
<1>8. p \in 1 .. Len(s) + 1 /\ q \in p .. Len(s) + 1 /\ q - p = del /\ p - 1 = c
  BY <1>0, <1>4, <1>5, <1>6
<1>9. line \in Seq(Chars) /\ Len(line) = len[r] - del
  <2>1. Without(s, p, q) \in Seq(Chars) /\ Len(Without(s, p, q)) = Len(s) - (q - p)
    BY <1>6, <1>8, Cut
  <2> QED BY <1>6, <1>7, <1>8, <2>1
<1>10. \A j \in 1 .. c : line[j] = s[j]
  <2>1. \A j \in 1 .. p - 1 : Without(s, p, q)[j] = s[j]
    BY <1>6, <1>8, Cut
  <2> QED BY <1>7, <1>8, <2>1
<1>11. \A j \in p .. len[r] - del : line[j] = s[j + del]
  <2>1. \A j \in p .. Len(s) - (q - p) : Without(s, p, q)[j] = s[j + (q - p)]
    <3>1. s \in Seq(Chars)
      BY <1>6
    <3> QED BY <1>8, <3>1, Cut
  <2> QED BY <1>6, <1>7, <1>8, <2>1
<1>12. /\ grid' = [grid EXCEPT ![r] = [j \in Cols |->
                     IF j >= c /\ j < len[r] - del THEN @[j + del]
                     ELSE IF j >= len[r] - del /\ j < len[r] THEN Space ELSE @[j]]]
       /\ len' = [len EXCEPT ![r] = @ - del] /\ n' = n /\ r' = r
       /\ c' = Clamped("normal", r, c, len[r] - del)
  BY <1>1, <1>2, <1>3 DEF Change, Cursor
<1>13. ASSUME NEW j \in 1 .. len[r] - del  PROVE line[j] = grid'[r][j - 1]
  <2>1. j - 1 \in Cols /\ j - 1 < len[r] - del
    BY <1>0, <1>4 DEF Cols
  <2>2. grid'[r][j - 1] = IF j - 1 >= c THEN grid[r][(j - 1) + del] ELSE grid[r][j - 1]
    <3>1. ~(j - 1 >= len[r] - del)
      BY <1>0, <1>4
    <3> QED BY <1>0, <1>12, <2>1, <3>1
  <2>3. CASE j <= c
    <3>1. j \in 1 .. c /\ j \in 1 .. len[r] /\ ~(j - 1 >= c)
      BY <1>0, <1>1, <2>3
    <3> QED BY <1>6, <1>10, <2>2, <3>1
  <2>4. CASE j > c
    <3>1. j \in p .. len[r] - del /\ j + del \in 1 .. len[r] /\ (j + del) - 1 = (j - 1) + del /\ j - 1 >= c
      BY <1>0, <1>4, <1>5, <2>4
    <3>2. line[j] = grid[r][(j + del) - 1]
      BY <1>6, <1>11, <3>1
    <3> QED BY <2>2, <3>1, <3>2
  <2> QED BY <1>0, <2>3, <2>4
<1>14. Text!SetLine(line)
  <2>1. len'[r] = len[r] - del /\ grid' \in [Rows -> [Cols -> Chars]] /\ len' \in [Rows -> 0 .. COLS]
    BY <1>0, <1>12 DEF InBounds, Rows, Cols
  <2>2. RowText(grid', len', r) = line
    <3>1. r \in Rows /\ line \in Seq(Chars) /\ Len(line) = len'[r] /\ \A j \in 1 .. len'[r] : line[j] = grid'[r][j - 1]
      BY <1>0, <1>9, <1>13, <2>1
    <3> QED BY <2>1, <3>1, SameRow
  <2>3. \A i \in Rows \ {r} : grid'[i] = grid[i] /\ len'[i] = len[i]
    BY <1>0, <1>12
  <2> QED BY <1>9, <1>12, <2>2, <2>3, OneLine
<1>15. r' + 1 = r + 1 /\ c' + 1 = Text!OnChar(line, c + 1)
  BY <1>0, <1>9, <1>12, OnCharIs
(* The word ends at the first space, and the spaces at the next word. *)
<1>16. /\ \A j \in c .. end - 1 : \A k \in c .. j : grid[r][j] # Space => grid[r][k] # Space
       /\ end < len[r] => grid[r][end] # Space /\ \E j \in c .. end - 1 : grid[r][j] = Space
  BY <1>2 DEF WordEnd
<1>17. PICK word \in p .. q :
         /\ \A i \in p .. word - 1 : s[i] # Space
         /\ word <= Len(s) => s[word] = Space
         /\ \A i \in word .. q - 1 : s[i] = Space
  <2>1. PICK blanks : blanks = {j \in c .. end - 1 : grid[r][j] = Space}
    OBVIOUS
  <2>2. CASE blanks = {}
    <3>1. end = len[r] /\ q = Len(s) + 1
      BY <1>4, <1>5, <1>6, <1>16, <2>1, <2>2
    <3>2. ASSUME NEW i \in p .. q - 1  PROVE s[i] # Space
      <4>1. i - 1 \in c .. end - 1 /\ i \in 1 .. len[r]
        BY <1>0, <1>4, <1>5
      <4> QED BY <1>6, <2>1, <2>2, <4>1
    <3>3. q \in p .. q /\ ~(q <= Len(s)) /\ q .. q - 1 = {}
      BY <1>0, <1>4, <1>5, <1>6, <3>1
    <3> QED BY <3>2, <3>3
  <2>3. CASE blanks # {}
    <3>1. blanks \in SUBSET Nat
      BY <1>0, <1>4, <2>1
    <3>2. PICK m \in blanks : \A j \in blanks : m <= j
      BY <2>3, <3>1, HasSmallest
    <3>3. PICK word : word = m + 1
      OBVIOUS
    <3>4. m \in Nat /\ c <= m /\ m <= end - 1 /\ grid[r][m] = Space /\ word - 1 = m
      BY <1>0, <1>4, <2>1, <3>1, <3>2, <3>3
    <3>5. word \in p .. q /\ word \in 1 .. len[r]
      BY <1>0, <1>4, <1>5, <3>3, <3>4
    <3>6. ASSUME NEW i \in p .. word - 1  PROVE s[i] # Space
      <4>1. i - 1 \in c .. end - 1 /\ i \in 1 .. len[r] /\ ~(m <= i - 1)
        BY <1>0, <1>4, <1>5, <3>3, <3>4
      <4> QED BY <1>6, <2>1, <3>2, <4>1
    <3>7. s[word] = Space
      BY <1>6, <3>4, <3>5
    <3>8. ASSUME NEW i \in word .. q - 1  PROVE s[i] = Space
      <4>1. i - 1 \in c .. end - 1 /\ i \in 1 .. len[r] /\ m \in c .. i - 1
        BY <1>0, <1>4, <1>5, <3>3, <3>4
      <4> QED BY <1>6, <1>16, <3>4, <4>1
    <3> QED BY <3>5, <3>6, <3>7, <3>8
  <2> QED BY <2>2, <2>3
<1>18. q <= Len(s) => s[q] # Space
  <2>1. SUFFICES ASSUME q <= Len(s)  PROVE s[q] # Space
    OBVIOUS
  <2>2. end < len[r] /\ q \in 1 .. len[r] /\ q - 1 = end
    BY <1>0, <1>4, <1>5, <1>6, <2>1
  <2> QED BY <1>6, <1>16, <2>2
<1>19. line = SubSeq(s, 1, p - 1) \o SubSeq(s, q, Len(s))
  BY <1>7 DEF Without
<1>20. s # <<>> /\ word \in p .. Len(s) + 1 /\ q \in p .. Len(s) + 1 /\ word <= q
  BY <1>0, <1>1, <1>6, <1>8
<1> QED BY <1>1, <1>5, <1>14, <1>15, <1>17, <1>18, <1>19, <1>20 DEF Text!DeleteWord

-------------------------------------------------------------------------------
(* The keys that leave the text alone. *)

(* They show the same lines. *)
LEMMA SameLines ==
  ASSUME KeepText \/ UNCHANGED <<grid, len, n>>
  PROVE  TextLines' = TextLines
BY DEF KeepText, TextLines

(* At the cursor: the columns of the grid and those of the text. *)
LEMMA AtCursor ==
  ASSUME InBounds
  PROVE  /\ r \in Nat /\ c \in Nat /\ n \in Nat /\ len[r] \in Nat /\ r < n
         /\ Len(TextLines) = n /\ Len(Text!Line) = len[r] /\ (Text!Line = <<>> <=> len[r] = 0)
         /\ SatSub(len[r], 1) + 1 = Text!OnChar(Text!Line, Len(Text!Line))
         /\ \A col \in Nat : Clamped("normal", r, col, len[r]) + 1 = Text!OnChar(Text!Line, col + 1)
<1>1. PICK s : s = Text!Line
  OBVIOUS
<1>2. s \in Seq(Chars) /\ Len(s) = len[r] /\ len[r] \in Nat
  BY <1>1, TextIs, Facts
<1>3. s = <<>> <=> len[r] = 0
  BY <1>2, EmptySeq
<1>4. SatSub(len[r], 1) + 1 = Text!OnChar(s, Len(s))
  <2>1. 0 \in Nat
    OBVIOUS
  <2> QED BY <1>2, <2>1, OnCharIs
<1>5. \A col \in Nat : Clamped("normal", r, col, len[r]) + 1 = Text!OnChar(s, col + 1)
  BY <1>2, OnCharIs
<1> QED BY <1>1, <1>2, <1>3, <1>4, <1>5, TextIs, Facts

(* The column that the cursor comes to in another line. *)
LEMMA OtherLine ==
  ASSUME InBounds, NEW row \in 0 .. n - 1, mode = "normal"
  PROVE  Clamped(mode, row, c, len[row]) + 1 = Text!OnChar(TextLines[row + 1], c + 1)
<1>1. PICK s, k : s = TextLines[k] /\ k = row + 1
  OBVIOUS
<1>2. n \in Nat /\ c \in Nat
  BY Facts
<1>3. k \in 1 .. n /\ k - 1 = row
  BY <1>1, <1>2
<1>4. s \in Seq(Chars) /\ Len(s) = len[row]
  BY <1>1, <1>3, TextIs
<1>5. Clamped("normal", row, c, Len(s)) + 1 = Text!OnChar(s, c + 1)
  BY <1>2, <1>4, OnCharIs
<1> QED BY <1>1, <1>4, <1>5

(* The keys of the normal mode, *)
LEMMA NormalIs ==
  ASSUME InBounds, InBounds', HandleNormal
  PROVE  Text!TextNext \/ UNCHANGED Text!tvars
<1>1. mode = "normal"
  BY DEF HandleNormal, NormalKey
<1>2. CASE Left \/ Right \/ Down \/ Up \/ LineStart \/ LineEnd
  <2>1. KeepText /\ mode' = mode
    BY <1>2 DEF Left, Right, Down, Up, LineStart, LineEnd, Moved
  <2>2. TextLines' = TextLines
    BY <2>1, SameLines
  <2>3. \/ c + 1 > 1 /\ r' + 1 = r + 1 /\ c' + 1 = (c + 1) - 1
        \/ c + 1 < Len(Text!Line) /\ r' + 1 = r + 1 /\ c' + 1 = (c + 1) + 1
        \/ r + 1 < Len(TextLines) /\ r' + 1 = (r + 1) + 1 /\ c' + 1 = Text!OnChar(TextLines[(r + 1) + 1], c + 1)
        \/ r + 1 > 1 /\ r' + 1 = (r + 1) - 1 /\ c' + 1 = Text!OnChar(TextLines[(r + 1) - 1], c + 1)
        \/ r' + 1 = r + 1 /\ c' + 1 = 1
        \/ r' + 1 = r + 1 /\ c' + 1 = Text!OnChar(Text!Line, Len(Text!Line))
    <3>1. CASE Left
      BY <3>1, AtCursor DEF Left, Moved, Cursor
    <3>2. CASE Right
      BY <3>2, AtCursor DEF Right, Moved, Cursor
    <3>3. CASE Down
      <4>1. r \in Nat /\ n \in Nat /\ Len(TextLines) = n
        BY AtCursor
      <4>2. PICK other : other = r + 1
        OBVIOUS
      <4>3. r + 1 < n /\ r' = other /\ c' = Clamped(mode, other, c, len[other])
        BY <3>3, <4>2 DEF Down, Moved, Cursor
      <4>4. other \in 0 .. n - 1
        BY <4>1, <4>2, <4>3
      <4>5. c' + 1 = Text!OnChar(TextLines[other + 1], c + 1)
        BY <1>1, <4>3, <4>4, OtherLine
      <4> QED BY <4>1, <4>2, <4>3, <4>5
    <3>4. CASE Up
      <4>1. r \in 0 .. n - 1 /\ n \in Nat
        BY AtCursor
      <4>2. PICK other : other = r - 1
        OBVIOUS
      <4>3. r > 0 /\ r' = other /\ c' = Clamped(mode, other, c, len[other])
        BY <3>4, <4>2 DEF Up, Moved, Cursor
      <4>4. other \in 0 .. n - 1 /\ (r + 1) - 1 = other + 1
        BY <4>1, <4>2, <4>3
      <4>5. c' + 1 = Text!OnChar(TextLines[other + 1], c + 1)
        BY <1>1, <4>3, <4>4, OtherLine
      <4> QED BY <4>1, <4>3, <4>4, <4>5
    <3>5. CASE LineStart
      BY <3>5 DEF LineStart, Moved, Cursor
    <3>6. CASE LineEnd
      BY <3>6, AtCursor DEF LineEnd, Moved, Cursor
    <3> QED BY <1>2, <3>1, <3>2, <3>3, <3>4, <3>5, <3>6
  <2>4. Text!Move
    BY <1>1, <2>1, <2>2, <2>3 DEF Text!Move, Text!MoveTo
  <2> QED BY <2>4 DEF Text!TextNext
<1>3. CASE EnterInsert
  <2>1. TextLines' = TextLines
    BY <1>3, SameLines DEF EnterInsert, ToInsert
  <2>2. mode' = "insert" /\ r' = r /\ c' \in {c, IF len[r] > 0 THEN c + 1 ELSE c, len[r], 0}
    BY <1>3 DEF EnterInsert, ToInsert, Cursor
  <2>3. c' + 1 \in {c + 1, IF Text!Line = <<>> THEN c + 1 ELSE (c + 1) + 1, Len(Text!Line) + 1, 1}
    <3>1. c \in Nat /\ len[r] \in Nat /\ Len(Text!Line) = len[r] /\ (Text!Line = <<>> <=> len[r] = 0)
      BY AtCursor
    <3>2. CASE Text!Line = <<>>
      <4>1. c' = c \/ c' = len[r] \/ c' = 0
        BY <2>2, <3>1, <3>2
      <4> QED BY <3>1, <3>2, <4>1
    <3>3. CASE Text!Line # <<>>
      <4>1. c' = c \/ c' = c + 1 \/ c' = len[r] \/ c' = 0
        BY <2>2, <3>1, <3>3
      <4> QED BY <3>1, <3>3, <4>1
    <3> QED BY <3>2, <3>3
  <2>4. Text!StartInsert
    BY <1>1, <2>1, <2>2, <2>3 DEF Text!StartInsert
  <2> QED BY <2>4 DEF Text!TextNext
<1>4. CASE WaitSecond
  BY <1>4, SameLines DEF WaitSecond, Cursor, Text!tvars
<1>5. CASE Colon
  <2>1. Text!CommandLine
    BY <1>1, <1>5, SameLines DEF Colon, Cursor, Text!CommandLine
  <2> QED BY <2>1 DEF Text!TextNext
<1>6. CASE OpenLineBelow \/ DeleteChar
  BY <1>1, <1>6, OpenLineIs, DeleteCharIs DEF Text!TextNext
<1> QED BY <1>2, <1>3, <1>4, <1>5, <1>6 DEF HandleNormal

(* the key behind a d, *)
LEMMA SecondIs ==
  ASSUME InBounds, InBounds', HandleSecond
  PROVE  Text!TextNext \/ UNCHANGED Text!tvars
<1>1. mode = "normal"
  BY DEF HandleSecond
<1>2. CASE NoSecond
  <2>1. c' = c /\ r' = r /\ mode' = mode
    <3>1. c \in Nat /\ len[r] \in Nat /\ c <= SatSub(len[r], 1)
      BY <1>1, AtCursor DEF InBounds
    <3> QED BY <1>1, <1>2, <3>1 DEF NoSecond, Cursor, Clamped, Smaller, SatSub
  <2> QED BY <1>2, <2>1, SameLines DEF NoSecond, Text!tvars
<1>3. CASE DeleteLine \/ DeleteWord
  BY <1>1, <1>3, DeleteLineIs, DeleteWordIs DEF Text!TextNext
<1> QED BY <1>2, <1>3 DEF HandleSecond

(* the keys of the insert mode, *)
LEMMA InsertKeyIs ==
  ASSUME InBounds, InBounds', HandleInsert
  PROVE  Text!TextNext \/ UNCHANGED Text!tvars
<1>1. CASE Escape
  <2>1. mode = "insert" /\ mode' = "normal" /\ r' = r /\ TextLines' = TextLines
    BY <1>1, SameLines DEF Escape, Cursor
  <2>2. c' = Clamped("normal", r, SatSub(c, 1), len[r])
    BY <1>1 DEF Escape, Cursor
  <2>3. SatSub(c, 1) \in Nat /\ SatSub(c, 1) + 1 = IF c + 1 > 1 THEN (c + 1) - 1 ELSE 1
    <3>1. c \in Nat
      BY AtCursor
    <3> QED BY <3>1 DEF SatSub
  <2>4. c' + 1 = Text!OnChar(Text!Line, IF c + 1 > 1 THEN (c + 1) - 1 ELSE 1)
    BY <2>2, <2>3, AtCursor
  <2>5. Text!EndInsert
    BY <2>1, <2>4 DEF Text!EndInsert
  <2> QED BY <2>5 DEF Text!TextNext
<1>2. CASE InsertNewline \/ Backspace \/ JoinLines \/ \E ch \in Typed : InsertChar(ch)
  BY <1>2, SplitIs, BackspaceIs, JoinIs, InsertIs DEF Text!TextNext
<1> QED BY <1>1, <1>2 DEF HandleInsert

(* An editor that is closed holds one empty line. *)
LEMMA BlankIs ==
  ASSUME n = 1, len = NoLen, r = 0, c = 0, mode = "closed"
  PROVE  Text!Blank
<1>1. RowText(grid, len, 0) = <<>>
  BY EditorAssumption DEF RowText, NoLen, Rows
<1>2. PICK t : t = [i \in 1 .. n |-> [j \in 1 .. len[i - 1] |-> grid[i - 1][j - 1]]]
  OBVIOUS
<1>3. t = <<<<>>>>
  <2>1. t \in [1 .. 1 -> {<<>>}]
    BY <1>1, <1>2 DEF RowText
  <2> QED BY <2>1
<1>4. TextLines = <<<<>>>>
  BY <1>2, <1>3 DEF TextLines
<1> QED BY <1>4 DEF Text!Blank

(* the commands that keep the editor open, *)
LEMMA CommandIs ==
  ASSUME NoCommand \/ SaveCommand
  PROVE  Text!TextNext
<1>1. mode = "command" /\ mode' = "normal" /\ UNCHANGED <<grid, len, n, r, c>>
  BY DEF NoCommand, SaveCommand, Command
<1>2. Text!CommandLine
  BY <1>1, SameLines DEF Text!CommandLine
<1> QED BY <1>2 DEF Text!TextNext

(* those that close it, *)
LEMMA QuitIs ==
  ASSUME QuitCommand
  PROVE  Text!TextNext
<1>1. mode = "command" /\ n' = 1 /\ len' = NoLen /\ r' = 0 /\ c' = 0 /\ mode' = "closed"
  BY DEF QuitCommand, Cursor
<1>2. (n = 1 /\ len = NoLen /\ r = 0 /\ c = 0 /\ mode = "closed" => Text!Blank)'
  BY BlankIs, PTL
<1>3. Text!Blank'
  BY <1>1, <1>2 DEF NoLen, Rows
<1> QED BY <1>1, <1>3 DEF Text!TextNext, Text!Close

(* and the opening of a file, which gives any text that fits. *)
LEMMA OpenIs ==
  ASSUME InBounds', NEW file \in Seq(Seq(Chars)), Load(file)
  PROVE  Text!TextNext
<1>1. mode = "closed" /\ mode' = "normal" /\ r' = 0 /\ c' = 0
  BY DEF Load
<1>2. n' \in 1 .. ROWS /\ len' \in [Rows -> 0 .. COLS] /\ grid' \in [Rows -> [Cols -> Chars]] /\ ROWS \in Nat
  BY EditorAssumption DEF InBounds, Rows, Cols
<1>3. PICK t : t = TextLines'
  OBVIOUS
<1>4. t = TextOf(grid', len', n')
  BY <1>3 DEF TextLines, TextOf, RowText
<1>5. n' \in 0 .. ROWS
  BY <1>2
<1>6. Len(t) = n' /\ \A i \in 1 .. n' : t[i] = RowText(grid', len', i - 1)
  BY <1>2, <1>4, <1>5, TextOfIs
<1>7. ASSUME NEW i \in 1 .. n'  PROVE Len(t[i]) <= COLS
  <2>1. PICK k : k = i - 1
    OBVIOUS
  <2>2. k \in Rows
    BY <1>2, <2>1 DEF Rows
  <2>3. t[i] = RowText(grid', len', k)
    BY <1>6, <2>1
  <2>4. Len(t[i]) = len'[k]
    <3>1. grid' \in [Rows -> [Cols -> Chars]] /\ len' \in [Rows -> 0 .. COLS]
      BY <1>2
    <3>2. Len(RowText(grid', len', k)) = len'[k]
      BY <2>2, <3>1, RowTextIs
    <3> QED BY <2>3, <3>2
  <2> QED BY <1>2, <2>2, <2>4, EditorAssumption
<1>8. Text!Open
  BY <1>1, <1>2, <1>3, <1>6, <1>7 DEF Text!Open
<1> QED BY <1>8 DEF Text!TextNext

(* Every step of the editor is a step of the text, or none. *)
LEMMA EditorStepIs ==
  InBounds /\ InBounds' /\ [EditorNext]_evars => [Text!TextNext]_(Text!tvars)
<1> SUFFICES ASSUME InBounds, InBounds', [EditorNext]_evars  PROVE Text!TextNext \/ UNCHANGED Text!tvars
  OBVIOUS
<1>1. CASE UNCHANGED evars
  BY <1>1, SameLines DEF evars, Text!tvars
<1>2. CASE EditorKey \/ SaveCommand
  BY <1>2, NormalIs, SecondIs, InsertKeyIs, CommandIs DEF EditorKey
<1>3. CASE QuitCommand
  BY <1>3, QuitIs
<1>4. CASE \E file \in Seq(Seq(Chars)) : Load(file)
  BY <1>4, OpenIs
<1> QED BY <1>1, <1>2, <1>3, <1>4 DEF EditorNext, EditorKey

(* What the editor promises of a text is what the grid does, for every size  *)
(* of the grid, every file and any number of changes: no line is doubled,    *)
(* lost or moved past another, and a line that was deleted does not come     *)
(* back from the rows behind the text (apps/editor.rs).                      *)
THEOREM EditorImplementsText == EditorSpec => ImplementsText
<1>1. EditorInit => Text!Blank
  BY BlankIs DEF EditorInit
<1> QED BY <1>1, InitInBounds, NextInBounds, EditorStepIs, PTL DEF EditorSpec, ImplementsText, Text!TextSpec
-------------------------------------------------------------------------------
(* Sound. *)

SoundSpec == SoundInit /\ [][SoundNext]_svars

(* The count is read in two bytes, and a half is a multiple of what the low   *)
(* one counts (STREAM_HALF_LEN is 2048).                                      *)
BytesFit == LowByte = 256 /\ \E k \in Nat \ {0} : HalfLen = 256 * k

-------------------------------------------------------------------------------
(* The inductive invariant. *)

Places == 0 .. BufLen - 1
Keys == PianoKeys \cup {"", "shifted"}
Heards == [id : Nat, next : Nat, pauses : Nat]
Types ==
  /\ card \in [mode : {"off", "stream", "note"}, at : Places, note : Keys]
  /\ stream \in [buf : [Places -> Nat \X Nat], ready : BOOLEAN, last : {0, 1},
                 low : Int, ticked : BOOLEAN]
  /\ song \in [id : Nat, pos : Nat, silence : Nat]
  /\ sounds \in [name : {"none", "player", "music", "piano"},
                 state : {"stopped", "playing", "paused"}, current : DOMAIN Songs,
                 clicks : Nat, held : Keys, down : SUBSET PianoKeys, shift : BOOLEAN]
  /\ heard \in Heards

(* A song on the player, and what is heard at its i-th sample. *)
Playable(p) == p \in [id : DOMAIN Songs, pos : Nat, silence : Nat] /\ p.pos <= Size(p)
Expected(s, i) == IF i < Songs[s] THEN Sample(s, i) ELSE Silence
Reached(s, i) == IF i < Songs[s] THEN i ELSE Songs[s]

First(h) == IF h = 0 THEN 0 ELSE HalfLen
HalfAt(at) == IF at < HalfLen THEN 0 ELSE 1
Holds(buf, h, from, s, b) ==
  \A a \in from .. First(h) + HalfLen - 1 : buf[a] = Expected(s, b + a - First(h))

(* The half that plays holds what follows sample b; the other what comes then,  *)
(* or, when no tick has looked since the card went over, is still to be filled. *)
Flows(at, buf, last, ticked, p, next, b) ==
  LET h == HalfAt(at) IN
  /\ next = Reached(p.id, b + at - First(h))
  /\ Holds(buf, h, at, p.id, b)
  /\ last = h =>
       /\ Holds(buf, 1 - h, First(1 - h), p.id, b + HalfLen)
       /\ p.pos = Reached(p.id, b + BufLen)
       /\ p.silence >= 1 => b + HalfLen >= Size(p)
       /\ p.silence >= 2 => b >= Size(p)
  /\ last # h =>
       /\ ~ticked
       /\ p.pos = Reached(p.id, b + HalfLen)
       /\ p.silence >= 1 => b >= Size(p)
FlowsFrom(next, b) == Flows(card.at, stream.buf, stream.last, stream.ticked, song, next, b)
SongFlows == \E next \in MayFollow, b \in Nat : FlowsFrom(next, b)

(* A half done read of the count is at most a sample old. *)
CountBefore == IF card.at = 0 THEN 0 ELSE Count + 1
ReadIsRecent == stream.low \in {-1, Count % LowByte, CountBefore % LowByte}

Paused == InWindow /\ sounds.state = "paused"

SoundInv ==
  /\ Types /\ SilentUnlessPlaying
  /\ song = NoSong \/ Playable(song)
  /\ Streaming => stream.ready /\ Playable(song) /\ heard.id = song.id /\ SongFlows /\ ReadIsRecent
  /\ ~Streaming => stream.low = -1
  /\ Paused => Playable(song) /\ heard.id = song.id /\ song.pos \in MayFollow

-------------------------------------------------------------------------------
(* The buffer. *)

LEMMA Lengths ==
  ASSUME NEW s \in DOMAIN Songs
  PROVE  /\ HalfLen \in Nat /\ HalfLen > 0 /\ BufLen = HalfLen + HalfLen
         /\ Songs[s] \in Nat /\ Songs[s] > 0 /\ s \in Nat /\ s > 0
BY SoundAssumption DEF BufLen

LEMMA FillIs ==
  ASSUME NEW p, Playable(p), NEW h \in {0, 1}, NEW buf \in [Places -> Nat \X Nat]
  PROVE  /\ Filled(buf, p, h) \in [Places -> Nat \X Nat]
         /\ Holds(Filled(buf, p, h), h, First(h), p.id, p.pos)
         /\ \A a \in Places : a \notin First(h) .. First(h) + HalfLen - 1
                                => Filled(buf, p, h)[a] = buf[a]
<1>1. /\ HalfLen \in Nat /\ HalfLen > 0 /\ BufLen = HalfLen + HalfLen
      /\ Size(p) \in Nat /\ p.id \in Nat /\ p.pos \in Nat /\ p.pos <= Size(p)
  BY Lengths DEF Playable, Size
<1>2. Half(h) = First(h) .. First(h) + HalfLen - 1 /\ h * HalfLen = First(h)
  BY <1>1 DEF Half, First
<1>3. Take(p) \in Nat /\ \A k \in 0 .. HalfLen - 1 : k < Take(p) <=> p.pos + k < Size(p)
  BY <1>1 DEF Take
<1>4. \A a \in Places :
        Filled(buf, p, h)[a] =
          IF a \notin Half(h) THEN buf[a]
          ELSE IF a - First(h) < Take(p) THEN Sample(p.id, p.pos + (a - First(h))) ELSE Silence
  BY <1>2 DEF Filled
<1>5. DOMAIN Filled(buf, p, h) = Places /\ Filled(buf, p, h) = [a \in Places |-> Filled(buf, p, h)[a]]
  BY DEF Filled
<1>6. \A a \in Places : Filled(buf, p, h)[a] \in Nat \X Nat
  <2> SUFFICES ASSUME NEW a \in Places PROVE Filled(buf, p, h)[a] \in Nat \X Nat
    OBVIOUS
  <2>1. a \in Int /\ First(h) \in Int
    BY <1>1 DEF Places, First
  <2>2. CASE a \notin Half(h)
    BY <1>4, <2>2
  <2>3. CASE a \in Half(h)
    <3>1. a - First(h) \in Nat
      BY <1>1, <1>2, <2>1, <2>3
    <3>2. p.pos + (a - First(h)) \in Nat
      BY <1>1, <3>1
    <3>3. Sample(p.id, p.pos + (a - First(h))) \in Nat \X Nat /\ Silence \in Nat \X Nat
      BY <1>1, <3>2 DEF Sample, Silence
    <3> QED BY <1>4, <2>3, <3>3
  <2> QED BY <2>2, <2>3
<1>7. Holds(Filled(buf, p, h), h, First(h), p.id, p.pos)
  <2> SUFFICES ASSUME NEW a \in First(h) .. First(h) + HalfLen - 1
               PROVE  Filled(buf, p, h)[a] = Expected(p.id, p.pos + a - First(h))
    BY DEF Holds
  <2>1. a \in Places /\ a \in Half(h) /\ a - First(h) \in 0 .. HalfLen - 1
    BY <1>1, <1>2 DEF Places, First
  <2>2. p.pos + (a - First(h)) = p.pos + a - First(h)
    BY <1>1, <2>1 DEF Places, First
  <2> QED BY <1>3, <1>4, <2>1, <2>2 DEF Expected, Size
<1> QED BY <1>2, <1>4, <1>5, <1>6, <1>7

LEMMA AfterFillIs ==
  ASSUME NEW p, Playable(p)
  PROVE  /\ Playable(AfterFill(p)) /\ AfterFill(p).id = p.id
         /\ AfterFill(p).pos = Reached(p.id, p.pos + HalfLen)
         /\ AfterFill(p).silence = IF p.pos = Size(p) THEN p.silence + 1 ELSE 0
<1>1. /\ HalfLen \in Nat /\ HalfLen > 0 /\ Size(p) \in Nat /\ Size(p) = Songs[p.id]
      /\ p.pos \in Nat /\ p.pos <= Size(p) /\ p.silence \in Nat
  BY Lengths DEF Playable, Size
<1>2. /\ Take(p) \in Nat /\ p.pos + Take(p) = Reached(p.id, p.pos + HalfLen)
      /\ Take(p) = 0 <=> p.pos = Size(p)
      /\ p.pos + Take(p) <= Size(p)
  BY <1>1 DEF Take, Reached
<1>3. AfterFill(p) = [id |-> p.id, pos |-> p.pos + Take(p),
                      silence |-> IF Take(p) = 0 THEN p.silence + 1 ELSE 0]
  BY DEF AfterFill
<1> QED BY <1>1, <1>2, <1>3 DEF Playable, Size

-------------------------------------------------------------------------------
(* The flow of a song. *)

(* stream_start fills the buffer from where the song is. *)
LEMMA StartFlows ==
  ASSUME NEW p, Playable(p), NEW buf \in [Places -> Nat \X Nat]
  PROVE  LET one == AfterFill(p)
             two == Filled(Filled(buf, p, 0), one, 1)
         IN  /\ two \in [Places -> Nat \X Nat] /\ Playable(AfterFill(one)) /\ AfterFill(one).id = p.id
             /\ Flows(0, two, 0, TRUE, AfterFill(one), p.pos, p.pos)
<1> DEFINE one == AfterFill(p)
           half == Filled(buf, p, 0)
           two == Filled(half, one, 1)
           end == AfterFill(one)
<1>1. /\ HalfLen \in Nat /\ HalfLen > 0 /\ BufLen = HalfLen + HalfLen
      /\ Size(p) \in Nat /\ Size(p) = Songs[p.id] /\ p.pos \in Nat /\ p.pos <= Size(p)
  BY Lengths DEF Playable, Size
<1>2. Playable(one) /\ one.id = p.id /\ one.pos = Reached(p.id, p.pos + HalfLen)
  BY AfterFillIs
<1>3. /\ Playable(end) /\ end.id = p.id /\ end.pos = Reached(p.id, one.pos + HalfLen)
      /\ end.silence = IF one.pos = Size(one) THEN one.silence + 1 ELSE 0
  BY <1>2, AfterFillIs
<1>4. one.silence = IF p.pos = Size(p) THEN p.silence + 1 ELSE 0
  BY AfterFillIs
<1>5. Size(one) = Size(p) /\ Size(end) = Size(p) /\ one.silence \in Nat /\ end.silence \in Nat
  BY <1>2, <1>3 DEF Size, Playable
<1>6. /\ half \in [Places -> Nat \X Nat] /\ Holds(half, 0, 0, p.id, p.pos)
  BY FillIs DEF First
<1>7. /\ two \in [Places -> Nat \X Nat] /\ Holds(two, 1, HalfLen, p.id, one.pos)
      /\ \A a \in Places : a \notin HalfLen .. HalfLen + HalfLen - 1 => two[a] = half[a]
  BY <1>2, <1>6, FillIs DEF First
<1>8. Holds(two, 0, 0, p.id, p.pos)
  BY <1>1, <1>6, <1>7 DEF Holds, First, Places
<1>9. Holds(two, 1, HalfLen, p.id, p.pos + HalfLen)
  BY <1>1, <1>2, <1>7 DEF Holds, First, Expected, Reached
<1>10. end.pos = Reached(p.id, p.pos + BufLen)
  BY <1>1, <1>2, <1>3 DEF Reached
<1>11. /\ end.silence >= 1 => p.pos + HalfLen >= Size(p)
       /\ end.silence >= 2 => p.pos >= Size(p)
  BY <1>1, <1>2, <1>3, <1>4, <1>5 DEF Reached
<1>12. HalfAt(0) = 0 /\ First(0) = 0 /\ 1 - 0 = 1 /\ First(1) = HalfLen /\ p.pos + 0 - 0 = p.pos
  BY <1>1 DEF HalfAt, First
<1>13. Reached(p.id, p.pos) = p.pos
  BY <1>1 DEF Reached
<1>14. Flows(0, two, 0, TRUE, end, p.pos, p.pos)
  BY <1>3, <1>5, <1>8, <1>9, <1>10, <1>11, <1>12, <1>13 DEF Flows
<1> QED BY <1>3, <1>7, <1>14

(* Around the buffer. *)
LEMMA Small == ASSUME NEW d \in Nat \ {0}, NEW x \in 0 .. d - 1 PROVE x % d = x
OBVIOUS
LEMMA NextPlace ==
  ASSUME NEW at \in Places, BufLen \in Nat \ {0}
  PROVE  (at + 1) % BufLen = IF at + 1 = BufLen THEN 0 ELSE at + 1
<1>1. CASE at + 1 = BufLen
  BY <1>1
<1>2. CASE at + 1 # BufLen
  <2>1. at + 1 \in 0 .. BufLen - 1
    BY <1>2 DEF Places
  <2> QED BY <1>2, <2>1, Small
<1> QED BY <1>1, <1>2

Crosses(at) == at + 1 \in {HalfLen, BufLen}

(* The card takes a sample: the next of the song, or silence behind its end.  *)
NextHeard(buf, at, next) == IF buf[at] = Silence THEN next ELSE buf[at][2] + 1

LEMMA SampleFlows ==
  ASSUME NEW p, Playable(p), NEW at \in Places, NEW buf, NEW last, NEW ticked,
         NEW next, NEW b \in Nat, Flows(at, buf, last, ticked, p, next, b),
         Crosses(at) => last = HalfAt(at)
  PROVE  /\ buf[at] # Silence => buf[at][1] = p.id
         /\ ~Crosses(at) => \E more \in Nat :
              Flows((at + 1) % BufLen, buf, last, ticked, p, NextHeard(buf, at, next), more)
         /\ Crosses(at) => \E more \in Nat :
              Flows((at + 1) % BufLen, buf, last, FALSE, p, NextHeard(buf, at, next), more)
<1>0. PICK on, then : on = (at + 1) % BufLen /\ then = NextHeard(buf, at, next)
  OBVIOUS
<1> DEFINE h == HalfAt(at)
           i == b + at - First(h)
<1>1. /\ HalfLen \in Nat /\ HalfLen > 0 /\ BufLen = HalfLen + HalfLen
      /\ Size(p) \in Nat /\ Size(p) = Songs[p.id] /\ p.id \in Nat /\ p.id > 0 /\ p.pos \in Nat
  BY Lengths DEF Playable, Size
<1>2. /\ h \in {0, 1} /\ at \in Int /\ First(h) <= at /\ at < First(h) + HalfLen /\ i \in Nat
      /\ First(h) \in Nat
  BY <1>1 DEF HalfAt, First, Places
<1>3. buf[at] = Expected(p.id, i) /\ next = Reached(p.id, i)
  BY <1>1, <1>2 DEF Flows, Holds
<1>4. /\ i < Songs[p.id] => buf[at] = <<p.id, i>> /\ buf[at] # Silence
      /\ i >= Songs[p.id] => buf[at] = Silence
  BY <1>1, <1>2, <1>3 DEF Expected, Sample, Silence
<1>5. then = Reached(p.id, i + 1) /\ (buf[at] # Silence => buf[at][1] = p.id)
  BY <1>0, <1>1, <1>2, <1>3, <1>4 DEF Reached, NextHeard
<1>6. CASE ~Crosses(at)
  <2>0. on = at + 1
    BY <1>0, <1>1, <1>6, NextPlace DEF Crosses
  <2>1. on = at + 1 /\ HalfAt(on) = h
    BY <1>1, <1>6, <2>0 DEF HalfAt, Places, Crosses
  <2>2. Flows(on, buf, last, ticked, p, then, b)
    <3>1. b + on - First(h) = i + 1
      BY <1>2, <2>1
    <3>2. Holds(buf, h, on, p.id, b)
      BY <1>1, <1>2, <2>1 DEF Flows, Holds
    <3> QED BY <1>5, <2>1, <3>1, <3>2 DEF Flows
  <2> QED BY <1>0, <1>5, <1>6, <2>2, Zenon
<1>7. CASE Crosses(at)
  <2>1. on = First(1 - h) /\ HalfAt(on) = 1 - h /\ 1 - h # h /\ 1 - h \in {0, 1}
    <3>1. on = IF at + 1 = BufLen THEN 0 ELSE at + 1
      BY <1>0, <1>1, NextPlace
    <3>2. CASE at + 1 = HalfLen
      BY <1>1, <1>2, <3>1, <3>2 DEF HalfAt, First
    <3>3. CASE at + 1 = BufLen
      BY <1>1, <1>2, <3>1, <3>3 DEF HalfAt, First
    <3> QED BY <1>7, <3>2, <3>3 DEF Crosses
  <2>2. last = h
    BY <1>7
  <2>3. i + 1 = b + HalfLen /\ b + HalfLen \in Nat
    <3>1. at + 1 = First(h) + HalfLen
      BY <1>1, <1>2, <1>7 DEF First, HalfAt, Places, Crosses
    <3> QED BY <1>1, <1>2, <3>1
  <2>4. /\ Holds(buf, 1 - h, on, p.id, b + HalfLen)
        /\ p.pos = Reached(p.id, (b + HalfLen) + HalfLen)
        /\ p.silence >= 1 => b + HalfLen >= Size(p)
    BY <1>1, <2>1, <2>2 DEF Flows
  <2>5. (b + HalfLen) + on - First(1 - h) = b + HalfLen
    BY <1>1, <2>1 DEF First
  <2>6. Flows(on, buf, last, FALSE, p, then, b + HalfLen)
    BY <1>5, <2>1, <2>2, <2>3, <2>4, <2>5 DEF Flows
  <2> QED BY <1>0, <1>5, <1>7, <2>3, <2>6, Zenon
<1> QED BY <1>6, <1>7, Zenon

(* stream_tick fills the half that is free, once. *)
LEMMA TickFlows ==
  ASSUME NEW p, Playable(p), NEW at \in Places, NEW buf \in [Places -> Nat \X Nat],
         NEW last \in {0, 1}, NEW ticked,
         NEW next, NEW b \in Nat, Flows(at, buf, last, ticked, p, next, b),
         NEW h, h = HalfAt(at)
  PROVE  /\ h # last => Flows(at, Filled(buf, p, 1 - h), h, TRUE, AfterFill(p), next, b)
         /\ h = last => Flows(at, buf, h, TRUE, p, next, b)
<1> DEFINE g == 1 - h
           full == Filled(buf, p, g)
           q == AfterFill(p)
<1>1. /\ HalfLen \in Nat /\ HalfLen > 0 /\ BufLen = HalfLen + HalfLen
      /\ Size(p) \in Nat /\ Size(p) = Songs[p.id] /\ p.pos \in Nat /\ p.pos <= Size(p)
      /\ p.silence \in Nat
  BY Lengths DEF Playable, Size
<1>2. h \in {0, 1} /\ g \in {0, 1} /\ at \in Int /\ First(h) <= at
  BY <1>1 DEF HalfAt, First, Places
<1>5. \/ First(h) = 0 /\ First(g) = HalfLen
      \/ First(h) = HalfLen /\ First(g) = 0
  BY <1>1 DEF HalfAt, First
<1>3. CASE h = last
  BY <1>3 DEF Flows
<1>4. CASE h # last
  <2>1. /\ next = Reached(p.id, b + at - First(h)) /\ Holds(buf, h, at, p.id, b)
        /\ p.pos = Reached(p.id, b + HalfLen) /\ (p.silence >= 1 => b >= Size(p))
    BY <1>4 DEF Flows
  <2>2. /\ q.id = p.id /\ q.pos = Reached(p.id, p.pos + HalfLen)
        /\ q.silence = IF p.pos = Size(p) THEN p.silence + 1 ELSE 0
    BY AfterFillIs
  <2>3. /\ Holds(full, g, First(g), p.id, p.pos)
        /\ \A a \in Places : a \notin First(g) .. First(g) + HalfLen - 1 => full[a] = buf[a]
    <3>1. PICK f \in {0, 1} : f = g
      BY <1>2
    <3>2. /\ Holds(Filled(buf, p, f), f, First(f), p.id, p.pos)
          /\ \A a \in Places : a \notin First(f) .. First(f) + HalfLen - 1
                                 => Filled(buf, p, f)[a] = buf[a]
      BY FillIs
    <3> QED BY <3>1, <3>2, Zenon
  <2>4. Holds(full, h, at, p.id, b)
    <3>1. \A a \in at .. First(h) + HalfLen - 1 :
            a \in Places /\ a \notin First(g) .. First(g) + HalfLen - 1
      <4> HIDE DEF g
      <4>1. CASE First(h) = 0 /\ First(g) = HalfLen
        BY <1>1, <1>2, <4>1 DEF Places
      <4>2. CASE First(h) = HalfLen /\ First(g) = 0
        BY <1>1, <1>2, <4>2 DEF Places
      <4> QED BY <1>5, <4>1, <4>2
    <3>2. \A a \in at .. First(h) + HalfLen - 1 : full[a] = buf[a]
      BY <2>3, <3>1, Zenon
    <3> HIDE DEF full, g
    <3> QED BY <2>1, <3>2 DEF Holds
  <2>5. Holds(full, g, First(g), p.id, b + HalfLen)
    <3> HIDE DEF g, full
    <3> QED BY <1>1, <1>2, <1>5, <2>1, <2>3 DEF Holds, Expected, Reached
  <2>6. q.pos = Reached(p.id, b + BufLen)
    BY <1>1, <2>1, <2>2 DEF Reached
  <2>7. /\ q.silence >= 1 => b + HalfLen >= Size(q)
        /\ q.silence >= 2 => b >= Size(q)
    <3>1. Size(q) = Size(p)
      BY <2>2 DEF Size
    <3> QED BY <1>1, <2>1, <2>2, <3>1 DEF Reached
  <2>8. Flows(at, full, h, TRUE, q, next, b)
    BY <2>1, <2>2, <2>4, <2>5, <2>6, <2>7 DEF Flows
  <2> QED BY <1>4, <2>8
<1> QED BY <1>3, <1>4

(* A count whose low byte is up to a sample old still tells the half. *)
LEMMA LookIsRight ==
  ASSUME BytesFit, card.at \in Places, ReadIsRecent, stream.low # -1
  PROVE  PlayingHalf = HalfAt(card.at)
<1>1. PICK k \in Nat \ {0} : HalfLen = 256 * k
  BY DEF BytesFit
<1>2. BufLen = 512 * k /\ card.at \in 0 .. 512 * k - 1 /\ Count = 512 * k - 1 - card.at /\ LowByte = 256
  BY <1>1 DEF BytesFit, BufLen, Places, Count
<1>3. stream.low = Count % 256 \/ stream.low = CountBefore % 256
  BY <1>2 DEF ReadIsRecent
<1>4. CountRead = stream.low + (Count \div 256) * 256
  BY <1>2 DEF CountRead
<1> DEFINE q == Count \div 256
           m == Count % 256
<1>5. Count \in Nat /\ q \in Nat /\ m \in 0 .. 255 /\ Count = 256 * q + m
  BY <1>2
<1>6. CASE stream.low = m
  <2>1. CountRead = Count
    BY <1>4, <1>5, <1>6
  <2> QED BY <1>1, <1>2, <2>1 DEF PlayingHalf, Played, HalfAt
<1>7. CASE stream.low = CountBefore % 256 /\ card.at = 0
  <2>1. CountRead = 512 * k - 256
    BY <1>2, <1>4, <1>7 DEF CountBefore
  <2> QED BY <1>1, <1>2, <1>7, <2>1 DEF PlayingHalf, Played, HalfAt
<1>8. CASE stream.low = CountBefore % 256 /\ card.at # 0
  <2>1. CASE m = 255
    <3>1. CountRead = 256 * q
      BY <1>2, <1>4, <1>5, <1>8, <2>1 DEF CountBefore
    <3>2. card.at = 256 * (2 * k - 1 - q)
      BY <1>2, <1>5, <2>1
    <3>4. Played(CountRead) = 512 * k - 1 - 256 * q
      BY <1>2, <3>1 DEF Played
    <3>3. PlayingHalf = IF 256 * (2 * k - 1 - q) + 255 < 256 * k THEN 0 ELSE 1
      BY <1>1, <1>5, <3>4 DEF PlayingHalf
    <3> QED BY <1>1, <1>2, <1>5, <3>2, <3>3 DEF HalfAt
  <2>2. CASE m # 255
    <3>1. CountRead = Count + 1
      BY <1>2, <1>4, <1>5, <1>8, <2>2 DEF CountBefore
    <3>2. card.at # 256 * k
      BY <1>2, <1>5, <2>2
    <3>3. PlayingHalf = IF card.at - 1 < 256 * k THEN 0 ELSE 1
      BY <1>1, <1>2, <3>1 DEF PlayingHalf, Played
    <3> QED BY <1>1, <1>2, <3>2, <3>3 DEF HalfAt
  <2> QED BY <2>1, <2>2
<1> QED BY <1>3, <1>6, <1>7, <1>8

-------------------------------------------------------------------------------
(* What the programs do, by what becomes of the stream. *)

LEMMA PlayableIsSong ==
  ASSUME NEW p, Playable(p)
  PROVE  p \in [id : Nat, pos : Nat, silence : Nat]
<1>1. p.id \in Nat
  BY Lengths DEF Playable
<1> QED BY <1>1 DEF Playable

SoundsTypes ==
  [name : {"none", "player", "music", "piano"},
   state : {"stopped", "playing", "paused"}, current : DOMAIN Songs,
   clicks : Nat, held : Keys, down : SUBSET PianoKeys, shift : BOOLEAN]

(* A song starts, or goes on from another place. *)
LEMMA StartKeeps ==
  ASSUME SoundInv, NEW p, Playable(p), StreamStart(p), sounds' \in SoundsTypes, Streaming',
         heard' \in Heards, heard'.id = p.id, p.pos \in MayFollow'
  PROVE  SoundInv'
<1> DEFINE one == AfterFill(p)
           two == Filled(Filled(stream.buf, p, 0), one, 1)
<1>1. stream.buf \in [Places -> Nat \X Nat]
  BY DEF SoundInv, Types
<1>2. /\ two \in [Places -> Nat \X Nat] /\ Playable(AfterFill(one)) /\ AfterFill(one).id = p.id
      /\ Flows(0, two, 0, TRUE, AfterFill(one), p.pos, p.pos)
  BY <1>1, StartFlows
<1> HIDE DEF one, two
<1>3. /\ stream' = [buf |-> two, ready |-> TRUE, last |-> 0, low |-> -1, ticked |-> TRUE]
      /\ song' = AfterFill(one)
  BY DEF StreamStart, LastAtStart, one, two
<1>4. card' = [mode |-> "stream", at |-> 0, note |-> ""]
  BY DEF StreamStart, Off
<1>5. HalfLen \in Nat /\ HalfLen > 0 /\ BufLen = HalfLen + HalfLen /\ p.pos \in Nat /\ p.id \in Nat
  BY Lengths DEF Playable
<1>6. Types'
  <2>1. card' \in [mode : {"off", "stream", "note"}, at : Places, note : Keys]
    <3>1. 0 \in Places /\ "" \in Keys
      BY <1>5 DEF Places, Keys
    <3> QED BY <1>4, <3>1
  <2>2. stream' \in [buf : [Places -> Nat \X Nat], ready : BOOLEAN, last : {0, 1},
                     low : Int, ticked : BOOLEAN]
    BY <1>2, <1>3
  <2>3. song' \in [id : Nat, pos : Nat, silence : Nat]
    BY <1>2, <1>3, PlayableIsSong
  <2> QED BY <2>1, <2>2, <2>3 DEF Types, SoundsTypes
<1>7. SongFlows'
  <2>1. FlowsFrom(p.pos, p.pos)'
    BY <1>2, <1>3, <1>4 DEF FlowsFrom
  <2> QED BY <1>5, <2>1 DEF SongFlows
<1>8. SilentUnlessPlaying' /\ ReadIsRecent'
  BY <1>3, <1>4 DEF SilentUnlessPlaying, ReadIsRecent
<1>9. Playable(song)' /\ heard'.id = song'.id /\ stream'.ready
  BY <1>2, <1>3 DEF Playable, Size
<1> QED BY <1>6, <1>7, <1>8, <1>9 DEF SoundInv, Streaming, InWindow, Paused

(* The card is silenced, or plays a note; of the song its place is kept. *)
LEMMA SilenceKeeps ==
  ASSUME SoundInv, sounds' \in SoundsTypes, ~Streaming',
         card' \in [mode : {"off", "note"}, at : Places, note : Keys],
         card'.mode = "note" => AtPiano',
         stream' \in [buf : [Places -> Nat \X Nat], ready : BOOLEAN, last : {0, 1},
                      low : Int, ticked : BOOLEAN],
         stream'.low = -1,
         song' = NoSong \/ Playable(song'),
         Paused' => Playable(song') /\ heard'.id = song'.id /\ song'.pos \in MayFollow',
         heard' \in Heards
  PROVE  SoundInv'
<1>1. song' \in [id : Nat, pos : Nat, silence : Nat]
  BY PlayableIsSong DEF NoSong
<1>2. card' \in [mode : {"off", "stream", "note"}, at : Places, note : Keys] /\ card'.mode # "stream"
  OBVIOUS
<1>3. Types'
  BY <1>1, <1>2 DEF Types, SoundsTypes
<1>4. SilentUnlessPlaying'
  BY <1>2 DEF SilentUnlessPlaying
<1>5. Playable(song)' <=> Playable(song')
  BY DEF Playable, Size
<1> QED BY <1>3, <1>4, <1>5 DEF SoundInv

(* stream_tick *)
LEMMA TickKeeps ==
  ASSUME SoundInv, BytesFit, Streaming, ~Unread,
         stream' = TickedStream, song' = TickedSong, UNCHANGED <<card, sounds, heard>>
  PROVE  SoundInv'
<1> DEFINE h == HalfAt(card.at)
<1>1. /\ Types /\ SilentUnlessPlaying /\ Playable(song) /\ heard.id = song.id
      /\ stream.ready /\ SongFlows /\ ReadIsRecent
  BY DEF SoundInv
<1>2. card.at \in Places /\ stream.buf \in [Places -> Nat \X Nat] /\ stream.last \in {0, 1}
      /\ stream.ticked \in BOOLEAN /\ stream.ready \in BOOLEAN
  BY <1>1 DEF Types
<1>3. PlayingHalf = h
  BY <1>1, <1>2, LookIsRight DEF Unread
<1>4. PICK next \in MayFollow, b \in Nat :
        Flows(card.at, stream.buf, stream.last, stream.ticked, song, next, b)
  BY <1>1 DEF SongFlows, FlowsFrom
<1>5. /\ h # stream.last => Flows(card.at, Filled(stream.buf, song, 1 - h), h, TRUE,
                                   AfterFill(song), next, b)
      /\ h = stream.last => Flows(card.at, stream.buf, h, TRUE, song, next, b)
  <2>1. PICK at : at = card.at
    OBVIOUS
  <2>2. Flows(at, stream.buf, stream.last, stream.ticked, song, next, b) /\ h = HalfAt(at)
    BY <1>4, <2>1
  <2>3. Playable(song) /\ at \in Places /\ stream.buf \in [Places -> Nat \X Nat] /\ stream.last \in {0, 1}
    BY <1>1, <1>2, <2>1
  <2> HIDE DEF h
  <2> QED BY <2>1, <2>2, <2>3, TickFlows, Zenon
<1>6. h \in {0, 1} /\ 1 - h \in {0, 1}
  BY DEF HalfAt
<1> HIDE DEF h
<1>0. PICK buf : buf = IF h # stream.last THEN Filled(stream.buf, song, 1 - h) ELSE stream.buf
  OBVIOUS
<1>7. /\ stream' = [buf |-> buf, ready |-> stream.ready, last |-> h, low |-> -1, ticked |-> TRUE]
      /\ song' = IF h # stream.last THEN AfterFill(song) ELSE song
  BY <1>3, <1>0, Zenon DEF TickedStream, TickedSong, TickNews, FreeHalf
<1>8. buf \in [Places -> Nat \X Nat] /\ Playable(song') /\ song'.id = song.id
  <2>1. Playable(AfterFill(song)) /\ AfterFill(song).id = song.id
    BY <1>1, AfterFillIs
  <2>2. PICK g \in {0, 1} : g = 1 - h
    BY <1>6
  <2>3. Filled(stream.buf, song, g) \in [Places -> Nat \X Nat]
    BY <1>1, <1>2, FillIs
  <2> QED BY <1>1, <1>2, <1>7, <1>0, <2>1, <2>2, <2>3
<1>9. SongFlows'
  <2>1. /\ stream'.buf = buf /\ stream'.last = h /\ stream'.ticked = TRUE
        /\ card' = card /\ heard' = heard
    BY <1>7
  <2>2. Flows(card.at, buf, h, TRUE, song', next, b)
    BY <1>5, <1>7, <1>0, Zenon
  <2>3. FlowsFrom(next, b)' /\ MayFollow' = MayFollow
    BY <2>1, <2>2, Zenon DEF FlowsFrom, MayFollow
  <2> QED BY <1>4, <2>3, Zenon DEF SongFlows
<1>10. Types'
  <2>1. stream' \in [buf : [Places -> Nat \X Nat], ready : BOOLEAN, last : {0, 1},
                     low : Int, ticked : BOOLEAN]
    BY <1>2, <1>6, <1>7, <1>8
  <2>2. song' \in [id : Nat, pos : Nat, silence : Nat]
    BY <1>8, PlayableIsSong
  <2> QED BY <1>1, <2>1, <2>2 DEF Types
<1>11. Playable(song)' /\ (Streaming <=> Streaming') /\ (SilentUnlessPlaying => SilentUnlessPlaying')
  BY <1>8 DEF Playable, Size, Streaming, SilentUnlessPlaying, InWindow, AtPiano
<1>12. ReadIsRecent' /\ stream'.ready
  BY <1>1, <1>7 DEF ReadIsRecent
<1>13. ~Paused'
  BY DEF Paused, Streaming, InWindow
<1> QED BY <1>1, <1>8, <1>9, <1>10, <1>11, <1>12, <1>13 DEF SoundInv

(* A song that is drained has been heard. *)
LEMMA DrainedIsHeard ==
  ASSUME SoundInv, BytesFit, Streaming, ~Unread, Drained(TickedSong)
  PROVE  \E i \in MayFollow : i >= Size(song)
<1> DEFINE h == HalfAt(card.at)
<1>1. Types /\ Playable(song) /\ SongFlows /\ ReadIsRecent
  BY DEF SoundInv
<1>2. card.at \in Places /\ stream.buf \in [Places -> Nat \X Nat] /\ stream.last \in {0, 1}
      /\ stream.ticked \in BOOLEAN
  BY <1>1 DEF Types
<1>3. PlayingHalf = h
  BY <1>1, <1>2, LookIsRight DEF Unread
<1>4. PICK next \in MayFollow, b \in Nat :
        Flows(card.at, stream.buf, stream.last, stream.ticked, song, next, b)
  BY <1>1 DEF SongFlows, FlowsFrom
<1>5. TickedSong = IF h # stream.last THEN AfterFill(song) ELSE song
  BY <1>3 DEF TickedSong, TickNews
<1>6. PICK buf : Flows(card.at, buf, h, TRUE, TickedSong, next, b)
  <2>1. /\ h # stream.last => Flows(card.at, Filled(stream.buf, song, 1 - h), h, TRUE,
                                     AfterFill(song), next, b)
        /\ h = stream.last => Flows(card.at, stream.buf, h, TRUE, song, next, b)
    BY <1>1, <1>2, <1>4, TickFlows, Zenon
  <2> QED BY <1>5, <2>1, Zenon
<1>7. TickedSong.id = song.id
  BY <1>1, <1>5, AfterFillIs
<1>8. next = Reached(song.id, b + card.at - First(h)) /\ b >= Size(song)
  <2>1. TickedSong.silence >= 2 => b >= Size(TickedSong)
    BY <1>6 DEF Flows
  <2> QED BY <1>6, <1>7, <2>1 DEF Flows, Drained, Size
<1>9. HalfLen \in Nat /\ Size(song) \in Nat /\ Size(song) = Songs[song.id]
  BY <1>1, Lengths DEF Playable, Size
<1>10. card.at \in Nat /\ First(h) <= card.at /\ First(h) \in Nat
  BY <1>2, <1>9 DEF Places, First, HalfAt
<1>11. next >= Size(song)
  BY <1>8, <1>9, <1>10 DEF Reached
<1> QED BY <1>4, <1>11

-------------------------------------------------------------------------------
(* The actions. *)

LEMMA TwoParts ==
  ASSUME NEW one \in SoundsTypes, NEW s \in DOMAIN Songs, NEW v \in {"stopped", "playing", "paused"}
  PROVE  LET e == [one EXCEPT !.current = s, !.state = v] IN
         e \in SoundsTypes /\ e.name = one.name /\ e.state = v /\ e.current = s
<1>1. PICK e : e = [one EXCEPT !.current = s]
  OBVIOUS
<1>2. e \in SoundsTypes /\ e.name = one.name /\ e.current = s
  BY <1>1 DEF SoundsTypes
<1>3. PICK f : f = [e EXCEPT !.state = v]
  OBVIOUS
<1>4. f \in SoundsTypes /\ f.name = one.name /\ f.current = s /\ f.state = v
  BY <1>2, <1>3 DEF SoundsTypes
<1> QED BY <1>1, <1>3, <1>4, Zenon

LEMMA SongsThere ==
  /\ DOMAIN Songs = 1 .. Len(Songs) /\ Len(Songs) \in Nat /\ Len(Songs) > 0
  /\ \A s \in DOMAIN Songs : NextSong(s) \in DOMAIN Songs /\ PrevSong(s) \in DOMAIN Songs
<1>1. DOMAIN Songs = 1 .. Len(Songs) /\ Len(Songs) \in Nat /\ Len(Songs) > 0
  BY SoundAssumption
<1>2. \A x \in Nat, d \in Nat \ {0} : x % d \in 0 .. d - 1
  OBVIOUS
<1>3. ASSUME NEW s \in DOMAIN Songs
      PROVE  NextSong(s) \in DOMAIN Songs /\ PrevSong(s) \in DOMAIN Songs
  <2>1. s \in Nat /\ s + Len(Songs) - 2 \in Nat /\ Len(Songs) \in Nat \ {0}
    BY <1>1, <1>3
  <2>2. /\ s % Len(Songs) \in 0 .. Len(Songs) - 1
        /\ (s + Len(Songs) - 2) % Len(Songs) \in 0 .. Len(Songs) - 1
    BY <1>2, <2>1, Zenon
  <2> QED BY <1>1, <2>2 DEF NextSong, PrevSong
<1> QED BY <1>1, <1>3

LEMMA NewSong ==
  ASSUME NEW s \in DOMAIN Songs
  PROVE  Playable([NoSong EXCEPT !.id = s])
<1>1. [NoSong EXCEPT !.id = s] = [id |-> s, pos |-> 0, silence |-> 0]
  BY DEF NoSong
<1> QED BY <1>1, Lengths DEF Playable, Size

LEMMA NothingTypes ==
  /\ HalfLen \in Nat /\ HalfLen > 0 /\ 0 \in Places /\ "" \in Keys
  /\ Off \in [mode : {"off", "note"}, at : Places, note : Keys] /\ Off.mode = "off"
  /\ Nothing \in Heards
  /\ NoProgram \in SoundsTypes /\ NoProgram.name = "none" /\ NoProgram.state = "stopped"
<1>1. HalfLen \in Nat /\ HalfLen > 0
  BY SoundAssumption
<1>2. 0 \in Places /\ "" \in Keys /\ 1 \in DOMAIN Songs
  BY <1>1, SongsThere DEF Places, Keys, BufLen
<1> QED BY <1>1, <1>2 DEF Off, Nothing, NoProgram, SoundsTypes, Heards

(* What a state has when no stream runs, and always. *)
LEMMA TypesOf ==
  ASSUME SoundInv
  PROVE  /\ card \in [mode : {"off", "stream", "note"}, at : Places, note : Keys]
         /\ stream \in [buf : [Places -> Nat \X Nat], ready : BOOLEAN, last : {0, 1},
                        low : Int, ticked : BOOLEAN]
         /\ sounds \in SoundsTypes /\ heard \in Heards
         /\ ~Streaming => card \in [mode : {"off", "note"}, at : Places, note : Keys]
         /\ song = NoSong \/ Playable(song)
BY DEF SoundInv, Types, SoundsTypes, SilentUnlessPlaying

(* The console's player and the window stop, and all is silent. *)
LEMMA QuietKeeps ==
  ASSUME SoundInv, NEW p \in SoundsTypes, p.name # "player", p.state = "stopped",
         sounds' = p, card' = Off, song' = NoSong, heard' = Nothing,
         stream' \in [buf : [Places -> Nat \X Nat], ready : BOOLEAN, last : {0, 1},
                      low : Int, ticked : BOOLEAN],
         stream'.low = -1
  PROVE  SoundInv'
<1>1. ~Streaming' /\ ~Paused'
  BY DEF Streaming, InWindow, Paused
<1> QED BY <1>1, NothingTypes, SilenceKeeps

(* What the user asks for is what may follow; what a pause gives up may      *)
(* follow too.                                                               *)
LEMMA HeardFromIs ==
  ASSUME NEW p, Playable(p), HeardFrom(p)
  PROVE  heard' \in Heards /\ heard'.id = p.id /\ p.pos \in MayFollow'
<1>1. p.id \in Nat /\ p.pos \in Nat /\ BufLen \in Nat
  BY Lengths DEF Playable
<1>2. heard' = [id |-> p.id, next |-> p.pos, pauses |-> 0]
  BY DEF HeardFrom
<1>3. heard'.next = p.pos /\ heard'.pauses * BufLen = 0
  BY <1>1, <1>2
<1>4. p.pos \in heard'.next .. heard'.next + heard'.pauses * BufLen
  BY <1>1, <1>3
<1> QED BY <1>1, <1>2, <1>4 DEF Heards, MayFollow

LEMMA PauseIs ==
  ASSUME SoundInv, Streaming, heard' = [heard EXCEPT !.pauses = @ + 1]
  PROVE  heard' \in Heards /\ heard'.id = song.id /\ song.pos \in MayFollow'
<1>1. /\ heard \in Heards /\ Playable(song) /\ heard.id = song.id /\ card.at \in Places
  BY DEF SoundInv, Types
<1>2. PICK next \in MayFollow, b \in Nat :
        Flows(card.at, stream.buf, stream.last, stream.ticked, song, next, b)
  BY DEF SoundInv, SongFlows, FlowsFrom
<1>3. /\ HalfLen \in Nat /\ HalfLen > 0 /\ BufLen = HalfLen + HalfLen /\ BufLen \in Nat
      /\ Songs[song.id] \in Nat /\ song.pos \in Nat
  BY <1>1, Lengths DEF Playable
<1> DEFINE h == HalfAt(card.at)
           i == b + card.at - First(h)
<1>4. i \in Nat /\ b <= i /\ i < b + HalfLen
  BY <1>1, <1>3 DEF HalfAt, First, Places
<1>5. next = Reached(song.id, i)
  BY <1>2 DEF Flows
<1>6. song.pos \in {Reached(song.id, b + HalfLen), Reached(song.id, b + BufLen)}
  BY <1>2 DEF Flows
<1>7. next \in Nat /\ next <= song.pos /\ song.pos <= next + BufLen
  <2> HIDE DEF i
  <2> QED BY <1>3, <1>4, <1>5, <1>6 DEF Reached
<1>8. /\ heard.next \in Nat /\ heard.pauses \in Nat /\ heard' \in Heards /\ heard'.id = song.id
      /\ heard'.next = heard.next /\ heard'.pauses = heard.pauses + 1
  BY <1>1 DEF Heards
<1>9. PICK given \in Nat : given = heard.pauses * BufLen
  BY <1>3, <1>8
<1>10. heard'.pauses * BufLen = given + BufLen
  BY <1>3, <1>8, <1>9
<1>11. next \in heard.next .. heard.next + given
  BY <1>2, <1>9 DEF MayFollow
<1>12. song.pos \in heard.next .. heard.next + (given + BufLen)
  BY <1>3, <1>7, <1>8, <1>11
<1> QED BY <1>8, <1>10, <1>12 DEF MayFollow

LEMMA StartStep ==
  ASSUME SoundInv, NEW program \in SoundsTypes, program.name = "music",
         NEW s \in DOMAIN Songs, Start(program, s)
  PROVE  SoundInv'
<1>1. CASE /\ FromStart(s)
           /\ sounds' = [program EXCEPT !.current = s, !.state = "playing"]
  <2>1. sounds' \in SoundsTypes /\ sounds'.name = "music" /\ sounds'.state = "playing"
    <3>1. sounds' = [program EXCEPT !.current = s, !.state = "playing"]
      BY <1>1
    <3> QED BY <3>1, TwoParts, ZenonT(30)
  <2>2. Streaming'
    BY <2>1 DEF Streaming, InWindow
  <2>3. PICK p : p = [NoSong EXCEPT !.id = s] /\ Playable(p)
    BY NewSong
  <2>4. StreamStart(p) /\ HeardFrom(p)
    BY <1>1, <2>3 DEF FromStart
  <2>5. heard' \in Heards /\ heard'.id = p.id /\ p.pos \in MayFollow'
    BY <2>3, <2>4, HeardFromIs
  <2> QED BY <2>1, <2>2, <2>3, <2>4, <2>5, StartKeeps
<1>2. CASE /\ NoBuffer
           /\ Silent /\ UNCHANGED stream
           /\ sounds' = [program EXCEPT !.current = s, !.state = "stopped"]
  <2>1. stream' = stream /\ stream.low = -1
    BY <1>2 DEF SoundInv, NoBuffer
  <2>2. sounds' \in SoundsTypes /\ sounds'.name = "music" /\ sounds'.state = "stopped"
    <3>1. sounds' = [program EXCEPT !.current = s, !.state = "stopped"]
      BY <1>2
    <3> QED BY <3>1, TwoParts, ZenonT(30)
  <2> QED BY <1>2, <2>1, <2>2, TypesOf, QuietKeeps DEF Silent, Stop
<1> QED BY <1>1, <1>2 DEF Start

LEMMA TickedTypes ==
  ASSUME SoundInv, BytesFit, Streaming, ~Unread
  PROVE  /\ TickedStream \in [buf : [Places -> Nat \X Nat], ready : BOOLEAN, last : {0, 1},
                              low : Int, ticked : BOOLEAN]
         /\ TickedStream.low = -1
<1>1. /\ stream \in [buf : [Places -> Nat \X Nat], ready : BOOLEAN, last : {0, 1},
                     low : Int, ticked : BOOLEAN]
      /\ Playable(song)
  BY TypesOf DEF SoundInv
<1>2. PICK h \in {0, 1} : PlayingHalf = h
  BY DEF PlayingHalf
<1>3. PICK g \in {0, 1} : g = FreeHalf(PlayingHalf)
  BY <1>2 DEF FreeHalf
<1>4. Filled(stream.buf, song, g) \in [Places -> Nat \X Nat]
  BY <1>1, FillIs
<1>5. PICK buf \in [Places -> Nat \X Nat] :
        TickedStream = [buf |-> buf, ready |-> stream.ready, last |-> h, low |-> -1, ticked |-> TRUE]
  BY <1>1, <1>2, <1>3, <1>4, Zenon DEF TickedStream
<1> QED BY <1>1, <1>2, <1>5

LEMMA PlayCommandKeeps ==
  ASSUME SoundInv, PlayCommand
  PROVE  SoundInv'
<1>1. PICK s \in DOMAIN Songs : FromStart(s)
  BY DEF PlayCommand
<1>2. sounds' \in SoundsTypes /\ sounds'.name = "player"
  BY NothingTypes DEF PlayCommand, SoundsTypes
<1>3. PICK p : p = [NoSong EXCEPT !.id = s] /\ Playable(p)
  BY NewSong
<1>4. StreamStart(p) /\ HeardFrom(p)
  BY <1>1, <1>3 DEF FromStart
<1>5. heard' \in Heards /\ heard'.id = p.id /\ p.pos \in MayFollow'
  BY <1>3, <1>4, HeardFromIs
<1>6. Streaming'
  BY <1>2 DEF Streaming
<1> QED BY <1>2, <1>3, <1>4, <1>5, <1>6, StartKeeps

LEMMA PlayerTickKeeps ==
  ASSUME SoundInv, BytesFit, PlayerTick
  PROVE  SoundInv'
<1>1. Streaming
  BY DEF PlayerTick, Streaming
<1>2. CASE song' = TickedSong /\ UNCHANGED <<card, sounds, heard>>
  BY <1>1, <1>2, TickKeeps DEF PlayerTick
<1>3. CASE Ends
  <2>1. /\ stream' \in [buf : [Places -> Nat \X Nat], ready : BOOLEAN, last : {0, 1},
                      low : Int, ticked : BOOLEAN]
        /\ stream'.low = -1
    <3>1. stream' = TickedStream
      BY DEF PlayerTick
    <3> QED BY <1>1, <3>1, TickedTypes DEF PlayerTick
  <2> QED BY <1>3, <2>1, NothingTypes, QuietKeeps DEF Ends, Stop
<1> QED BY <1>2, <1>3 DEF PlayerTick

LEMMA MusicTickKeeps ==
  ASSUME SoundInv, BytesFit, MusicTick
  PROVE  SoundInv'
<1>1. Streaming /\ sounds.name = "music"
  BY DEF MusicTick, Unread, SoundInv, InWindow
<1>2. CASE stream' = TickedStream /\ song' = TickedSong /\ UNCHANGED <<card, sounds, heard>>
  BY <1>1, <1>2, TickKeeps DEF MusicTick
<1>3. CASE Start(sounds, NextSong(sounds.current))
  <2>1. sounds \in SoundsTypes /\ NextSong(sounds.current) \in DOMAIN Songs
    BY TypesOf, SongsThere DEF SoundsTypes
  <2> QED BY <1>1, <1>3, <2>1, StartStep
<1> QED BY <1>2, <1>3 DEF MusicTick

LEMMA ReadLowKeeps ==
  ASSUME SoundInv, Streaming, ReadLow
  PROVE  SoundInv'
<1>1. stream' = [stream EXCEPT !.low = Count % LowByte] /\ UNCHANGED <<card, song, sounds, heard>>
  BY DEF ReadLow
<1>2. stream \in [buf : [Places -> Nat \X Nat], ready : BOOLEAN, last : {0, 1},
                  low : Int, ticked : BOOLEAN]
  BY TypesOf
<1>3. Count % LowByte \in Int
  <2>1. Count \in Int /\ LowByte \in Nat \ {0}
    BY TypesOf, SoundAssumption DEF Count, BufLen, Places
  <2> QED BY <2>1
<1>4. /\ stream' \in [buf : [Places -> Nat \X Nat], ready : BOOLEAN, last : {0, 1},
                      low : Int, ticked : BOOLEAN]
      /\ stream'.buf = stream.buf /\ stream'.ready = stream.ready /\ stream'.last = stream.last
      /\ stream'.ticked = stream.ticked /\ stream'.low = Count % LowByte
  BY <1>1, <1>2, <1>3
<1>5. Types' /\ Streaming' /\ SilentUnlessPlaying' /\ ReadIsRecent'
  BY <1>1, <1>4 DEF SoundInv, Types, Streaming, InWindow, SilentUnlessPlaying, AtPiano,
                    ReadIsRecent, Count, CountBefore
<1>6. SongFlows'
  BY <1>1, <1>4, Zenon DEF SoundInv, SongFlows, FlowsFrom, MayFollow
<1>7. Playable(song)' /\ stream'.ready /\ heard'.id = song'.id /\ ~Paused'
  BY <1>1, <1>4 DEF SoundInv, Playable, Size, Paused, Streaming, InWindow
<1> QED BY <1>5, <1>6, <1>7 DEF SoundInv

LEMMA CardPlaysKeeps ==
  ASSUME SoundInv, CardPlays
  PROVE  SoundInv'
<1>1. /\ Types /\ Streaming /\ Playable(song) /\ heard.id = song.id /\ SongFlows
      /\ stream.ready /\ ReadIsRecent
  BY DEF CardPlays, SoundInv, SilentUnlessPlaying
<1>2. /\ card.at \in Places /\ stream.buf \in [Places -> Nat \X Nat]
      /\ stream.last \in {0, 1} /\ stream.ticked \in BOOLEAN /\ heard \in Heards
      /\ stream.low \in Int /\ stream.ready \in BOOLEAN
  BY <1>1 DEF Types
<1>3. HalfLen \in Nat /\ HalfLen > 0 /\ BufLen = HalfLen + HalfLen /\ BufLen \in Nat \ {0}
  BY SoundAssumption DEF BufLen
<1>4. PICK next \in MayFollow, b \in Nat :
        Flows(card.at, stream.buf, stream.last, stream.ticked, song, next, b)
  BY <1>1 DEF SongFlows, FlowsFrom
<1> DEFINE then == NextHeard(stream.buf, card.at, next)
           on == (card.at + 1) % BufLen
<1>7. PICK left : left = IF Boundary THEN FALSE ELSE stream.ticked
  OBVIOUS
<1>8. /\ stream.buf[card.at] # Silence => stream.buf[card.at][1] = song.id
      /\ \E more \in Nat : Flows(on, stream.buf, stream.last, left, song, then, more)
  <2>1. (Crosses(card.at) <=> Boundary) /\ (Crosses(card.at) => stream.last = HalfAt(card.at))
    BY <1>4 DEF CardPlays, Boundary, Crosses, Flows
  <2>2. /\ stream.buf[card.at] # Silence => stream.buf[card.at][1] = song.id
        /\ ~Crosses(card.at) => \E more \in Nat : Flows(on, stream.buf, stream.last, stream.ticked, song, then, more)
        /\ Crosses(card.at) => \E more \in Nat : Flows(on, stream.buf, stream.last, FALSE, song, then, more)
    <3>1. Playable(song) /\ card.at \in Places
      BY <1>1, <1>2
    <3> QED BY <1>4, <2>1, <3>1, SampleFlows, Zenon
  <2>3. CASE Boundary
    BY <1>7, <2>1, <2>2, <2>3, Zenon
  <2>4. CASE ~Boundary
    BY <1>7, <2>1, <2>2, <2>4, Zenon
  <2> QED BY <2>3, <2>4
<1> HIDE DEF then, on
<1>9. on = (IF card.at + 1 = BufLen THEN 0 ELSE card.at + 1) /\ on \in Places
  <2>1. on = IF card.at + 1 = BufLen THEN 0 ELSE card.at + 1
    BY <1>2, <1>3, NextPlace, Zenon DEF on
  <2>2. card.at \in 0 .. BufLen - 1
    BY <1>2 DEF Places
  <2>3. (IF card.at + 1 = BufLen THEN 0 ELSE card.at + 1) \in 0 .. BufLen - 1
    BY <1>3, <2>2
  <2> QED BY <2>1, <2>3, Zenon DEF Places
<1>10. /\ card' \in [mode : {"off", "stream", "note"}, at : Places, note : Keys]
       /\ card'.mode = "stream" /\ card'.at = on
  BY <1>1, <1>9 DEF CardPlays, Types, on
<1>11. stream' = [stream EXCEPT !.ticked = left]
  BY <1>7, Zenon DEF CardPlays
<1>12. /\ stream' \in [buf : [Places -> Nat \X Nat], ready : BOOLEAN, last : {0, 1},
                       low : Int, ticked : BOOLEAN]
       /\ stream'.buf = stream.buf /\ stream'.ready = stream.ready /\ stream'.last = stream.last
       /\ stream'.low = stream.low /\ stream'.ticked = left
  <2>1. left \in BOOLEAN
    BY <1>2, <1>7
  <2> QED BY <1>1, <1>11, <2>1 DEF Types
<1>13. heard' \in Heards /\ heard'.id = song.id /\ then \in MayFollow'
  <2>1. CASE stream.buf[card.at] = Silence
    <3>1. heard' = heard /\ then = next
      BY <2>1 DEF CardPlays, NextHeard, then
    <3> QED BY <1>1, <1>2, <1>4, <3>1 DEF MayFollow
  <2>2. CASE stream.buf[card.at] # Silence
    <3>1. PICK sample \in Nat \X Nat : sample = stream.buf[card.at]
      BY <1>2
    <3>2. heard' = [id |-> sample[1], next |-> sample[2] + 1, pauses |-> 0] /\ then = sample[2] + 1
      BY <2>2, <3>1 DEF CardPlays, NextHeard, then
    <3>3. sample[1] \in Nat /\ sample[2] + 1 \in Nat
      BY <3>1
    <3>4. then \in heard'.next .. heard'.next + heard'.pauses * BufLen
      BY <1>3, <3>2, <3>3
    <3> QED BY <1>8, <2>2, <3>1, <3>2, <3>3, <3>4 DEF Heards, MayFollow
  <2> QED BY <2>1, <2>2
<1>14. song' = song /\ sounds' = sounds
  BY DEF CardPlays
<1>15. Types'
  BY <1>1, <1>10, <1>12, <1>13, <1>14 DEF Types
<1>16. SongFlows'
  <2>1. PICK more \in Nat : Flows(on, stream.buf, stream.last, left, song, then, more)
    BY <1>8
  <2>2. PICK follows : follows = then
    OBVIOUS
  <2>3. Flows(on, stream.buf, stream.last, left, song, follows, more) /\ follows \in MayFollow'
    BY <1>13, <2>1, <2>2
  <2>4. FlowsFrom(follows, more)'
    BY <1>10, <1>12, <1>14, <2>3, Zenon DEF FlowsFrom
  <2> QED BY <2>3, <2>4, Zenon DEF SongFlows
<1>17. Streaming' /\ SilentUnlessPlaying' /\ ~Paused'
  BY <1>1, <1>10, <1>14 DEF Streaming, InWindow, SilentUnlessPlaying, Paused
<1>18. ReadIsRecent'
  <2>1. CASE stream.low = -1
    BY <1>12, <2>1 DEF ReadIsRecent
  <2>2. CASE stream.low # -1
    <3>1. stream.low = Count % LowByte
      BY <2>2 DEF CardPlays
    <3>2. CountBefore' = Count
      <4>1. card'.at = IF card.at + 1 = BufLen THEN 0 ELSE card.at + 1
        BY <1>9, <1>10
      <4>2. card.at \in 0 .. BufLen - 1
        BY <1>2 DEF Places
      <4> QED BY <1>3, <4>1, <4>2 DEF Count, CountBefore
    <3> QED BY <1>12, <3>1, <3>2 DEF ReadIsRecent
  <2> QED BY <2>1, <2>2
<1>19. Playable(song)' /\ heard'.id = song'.id /\ stream'.ready
  BY <1>1, <1>12, <1>13, <1>14 DEF Playable, Size
<1> QED BY <1>15, <1>16, <1>17, <1>18, <1>19 DEF SoundInv

(* A step at the window or the piano that leaves no stream running: the card,  *)
(* the song and what is heard are as before or as nothing.                    *)
LEMMA RestKeeps ==
  ASSUME SoundInv, stream' = stream, stream.low = -1, sounds' \in SoundsTypes, ~Streaming',
         \/ card' = Off
         \/ card' = card /\ ~Streaming /\ (AtPiano => AtPiano')
         \/ AtPiano' /\ \E note \in Keys : card' = [mode |-> "note", at |-> 0, note |-> note],
         heard' \in Heards,
         song' = NoSong \/ Playable(song'),
         Paused' => Playable(song') /\ heard'.id = song'.id /\ song'.pos \in MayFollow'
  PROVE  SoundInv'
<1>1. /\ card' \in [mode : {"off", "note"}, at : Places, note : Keys]
      /\ card'.mode = "note" => AtPiano'
  <2>1. CASE card' = Off
    BY <2>1, NothingTypes
  <2>2. CASE card' = card /\ ~Streaming /\ (AtPiano => AtPiano')
    BY <2>2, TypesOf DEF SoundInv, SilentUnlessPlaying
  <2>3. CASE AtPiano' /\ \E note \in Keys : card' = [mode |-> "note", at |-> 0, note |-> note]
    <3>1. PICK note \in Keys : card' = [mode |-> "note", at |-> 0, note |-> note]
      BY <2>3
    <3>2. 0 \in Places
      BY NothingTypes
    <3> QED BY <2>3, <3>1, <3>2
  <2> QED BY <2>1, <2>2, <2>3
<1> QED BY <1>1, TypesOf, SilenceKeeps

LEMMA ToggleKeeps ==
  ASSUME SoundInv, CanClick, Toggle
  PROVE  SoundInv'
<1>1. PICK clicked : clicked = Clicked
  OBVIOUS
<1>2. /\ clicked \in SoundsTypes /\ clicked.name = "music" /\ clicked.state = sounds.state
      /\ clicked.current = sounds.current /\ sounds.current \in DOMAIN Songs
  BY <1>1, TypesOf DEF Clicked, CanClick, InWindow, SoundsTypes
<1>3. sounds.name = "music" /\ stream.low = -1
  BY DEF CanClick, InWindow, Unread
<1>4. CASE sounds.state = "playing"
  <2>1. /\ Stop /\ sounds' = [clicked EXCEPT !.state = "paused"] /\ UNCHANGED <<stream, song>>
        /\ heard' = [heard EXCEPT !.pauses = @ + 1]
    BY <1>1, <1>4 DEF Toggle
  <2>2. sounds' \in SoundsTypes /\ sounds'.name = "music" /\ sounds'.state = "paused"
    BY <1>2, <2>1 DEF SoundsTypes
  <2>3. Streaming /\ ~Streaming'
    BY <1>3, <1>4, <2>2 DEF Streaming, InWindow
  <2>4. Playable(song') /\ heard' \in Heards /\ heard'.id = song'.id /\ song'.pos \in MayFollow'
    BY <2>1, <2>3, PauseIs DEF SoundInv
  <2> QED BY <1>3, <2>1, <2>2, <2>3, <2>4, RestKeeps DEF Stop
<1>5. CASE sounds.state = "paused"
  <2>1. StreamStart(song) /\ sounds' = [clicked EXCEPT !.state = "playing"] /\ heard' = heard
    BY <1>1, <1>5 DEF Toggle
  <2>2. sounds' \in SoundsTypes /\ sounds'.name = "music" /\ sounds'.state = "playing"
    BY <1>2, <2>1 DEF SoundsTypes
  <2>3. Playable(song) /\ heard.id = song.id /\ song.pos \in MayFollow /\ Streaming'
    BY <1>3, <1>5, <2>2 DEF SoundInv, Streaming, InWindow, Paused
  <2>4. heard' \in Heards /\ heard'.id = song.id /\ song.pos \in MayFollow'
    BY <2>1, <2>3, TypesOf DEF MayFollow
  <2> QED BY <2>1, <2>2, <2>3, <2>4, StartKeeps
<1>6. CASE sounds.state \notin {"playing", "paused"}
  <2>1. Start(clicked, sounds.current)
    BY <1>1, <1>6 DEF Toggle
  <2> QED BY <1>2, <2>1, StartStep
<1> QED BY <1>4, <1>5, <1>6

LEMMA StopButtonKeeps ==
  ASSUME SoundInv, CanClick, StopButton
  PROVE  SoundInv'
<1>1. PICK clicked : clicked = Clicked
  OBVIOUS
<1>2. clicked \in SoundsTypes /\ clicked.name = "music"
  BY <1>1, TypesOf DEF Clicked, CanClick, InWindow, SoundsTypes
<1>3. sounds' = [clicked EXCEPT !.state = "stopped"]
  BY <1>1 DEF StopButton
<1>4. sounds' \in SoundsTypes /\ sounds'.name = "music" /\ sounds'.state = "stopped"
  BY <1>2, <1>3 DEF SoundsTypes
<1>5. sounds.name = "music" /\ stream.low = -1 /\ stream' = stream /\ song' = NoSong /\ heard' = Nothing
  BY DEF CanClick, InWindow, Unread, StopButton
<1>6. card' = Off \/ (card' = card /\ sounds.state # "playing")
  BY DEF StopButton, Stop
<1>7. ~Streaming' /\ (card' = card /\ sounds.state # "playing" => ~Streaming) /\ ~AtPiano
  BY <1>4, <1>5 DEF Streaming, InWindow, AtPiano
<1>8. ~Paused' /\ heard' \in Heards
  BY <1>4, <1>5, NothingTypes DEF Paused
<1> QED BY <1>4, <1>5, <1>6, <1>7, <1>8, RestKeeps

LEMMA SeekIsPlayable ==
  ASSUME Playable(song), NEW rel \in Seeks
  PROVE  Playable(SeekTo(song, (Size(song) * rel) \div BarWidth))
<1>1. /\ Size(song) \in Nat /\ rel \in Nat /\ BarWidth \in Nat \ {0}
  BY Lengths, SoundAssumption DEF Playable, Size
<1>2. Size(song) * rel \in Nat
  BY <1>1
<1>3. \A x \in Nat, d \in Nat \ {0} : x \div d \in Nat
  OBVIOUS
<1>4. (Size(song) * rel) \div BarWidth \in Nat
  BY <1>1, <1>2, <1>3, Zenon
<1>5. PICK pos \in Nat : pos = (Size(song) * rel) \div BarWidth
  BY <1>4
<1>6. Playable(SeekTo(song, pos))
  BY <1>1 DEF Playable, SeekTo, Size
<1> QED BY <1>5, <1>6

LEMMA SeekBarKeeps ==
  ASSUME SoundInv, CanClick, SeekBar
  PROVE  SoundInv'
<1>1. sounds' \in SoundsTypes /\ sounds'.name = "music" /\ sounds'.state = sounds.state
  BY TypesOf DEF SeekBar, Clicked, CanClick, InWindow, SoundsTypes
<1>2. sounds.name = "music" /\ stream.low = -1 /\ Playable(song)
  BY TypesOf DEF CanClick, InWindow, Unread, SeekBar
<1>3. PICK rel \in Seeks :
        LET p == SeekTo(song, (Size(song) * rel) \div BarWidth) IN
        /\ IF sounds.state = "playing" THEN StreamStart(p)
           ELSE song' = p /\ UNCHANGED <<card, stream>>
        /\ HeardFrom(p)
  BY DEF SeekBar
<1>4. PICK p : p = SeekTo(song, (Size(song) * rel) \div BarWidth)
  OBVIOUS
<1>5. Playable(p) /\ HeardFrom(p)
  BY <1>2, <1>3, <1>4, SeekIsPlayable
<1>8. heard' \in Heards /\ heard'.id = p.id /\ p.pos \in MayFollow'
  BY <1>5, HeardFromIs
<1>6. CASE sounds.state = "playing"
  <2>1. StreamStart(p)
    BY <1>3, <1>4, <1>6
  <2>2. Streaming'
    BY <1>1, <1>6 DEF Streaming, InWindow
  <2> QED BY <1>1, <1>5, <1>8, <2>1, <2>2, StartKeeps
<1>7. CASE sounds.state # "playing"
  <2>1. song' = p /\ UNCHANGED <<card, stream>>
    BY <1>3, <1>4, <1>7
  <2>2. ~Streaming /\ ~Streaming' /\ ~AtPiano
    BY <1>1, <1>2, <1>7 DEF Streaming, InWindow, AtPiano
  <2> QED BY <1>1, <1>2, <1>5, <1>8, <2>1, <2>2, RestKeeps
<1> QED BY <1>6, <1>7

LEMMA MusicClickKeeps ==
  ASSUME SoundInv, MusicClick
  PROVE  SoundInv'
<1>1. CASE Toggle
  BY <1>1, ToggleKeeps DEF MusicClick
<1>2. CASE StopButton
  BY <1>2, StopButtonKeeps DEF MusicClick
<1>3. CASE SeekBar
  BY <1>3, SeekBarKeeps DEF MusicClick
<1>4. ASSUME NEW s \in DOMAIN Songs \cup {NextSong(sounds.current), PrevSong(sounds.current)},
             Start(Clicked, s)
      PROVE  SoundInv'
  <2>1. PICK clicked : clicked = Clicked
    OBVIOUS
  <2>2. clicked \in SoundsTypes /\ clicked.name = "music" /\ sounds.current \in DOMAIN Songs
    BY <2>1, TypesOf DEF Clicked, MusicClick, CanClick, InWindow, SoundsTypes
  <2>3. s \in DOMAIN Songs
    BY <2>2, SongsThere
  <2> QED BY <1>4, <2>1, <2>2, <2>3, StartStep
<1> QED BY <1>1, <1>2, <1>3, <1>4 DEF MusicClick

(* Opening, leaving and the piano. *)
LEMMA LeaveKeeps ==
  ASSUME SoundInv, PlayerEsc \/ ClosePlayer \/ PianoEsc \/ OpenPlayer \/ StartPiano
  PROVE  SoundInv'
<1>1. CASE PlayerEsc
  BY <1>1, TypesOf, NothingTypes, QuietKeeps DEF PlayerEsc, Ends, Stop, Unread
<1>2. CASE ClosePlayer
  <2>1. /\ sounds.name = "music" /\ stream.low = -1 /\ stream' = stream /\ song' = NoSong
        /\ heard' = Nothing /\ sounds' = NoProgram
        /\ card' = Off \/ (card' = card /\ sounds.state # "playing")
    BY <1>2 DEF ClosePlayer, Dropped, InWindow, Unread, Stop
  <2>2. ~Streaming' /\ ~AtPiano /\ (sounds.state # "playing" => ~Streaming) /\ ~Paused'
    BY <2>1, NothingTypes DEF Streaming, InWindow, AtPiano, Paused
  <2> QED BY <2>1, <2>2, NothingTypes, RestKeeps
<1>3. CASE PianoEsc
  <2>1. /\ sounds.name = "piano" /\ UNCHANGED <<stream, song, heard>> /\ sounds' = NoProgram /\ card' = Off
    BY <1>3 DEF PianoEsc, AtPiano, Stop
  <2>2. ~Streaming /\ ~Streaming' /\ ~Paused' /\ stream.low = -1
    BY <2>1, NothingTypes DEF Streaming, InWindow, SoundInv, Paused
  <2> QED BY <2>1, <2>2, NothingTypes, TypesOf, RestKeeps
<1>4. CASE OpenPlayer \/ StartPiano
  <2>1. /\ sounds.name = "none" /\ UNCHANGED <<card, stream, song, heard>>
        /\ sounds' \in SoundsTypes /\ sounds'.name \in {"music", "piano"} /\ sounds'.state = "stopped"
    BY <1>4, NothingTypes DEF OpenPlayer, StartPiano, Free, SoundsTypes
  <2>2. ~Streaming /\ ~Streaming' /\ stream.low = -1 /\ ~AtPiano /\ ~Paused'
    BY <2>1 DEF Streaming, InWindow, SoundInv, AtPiano, Paused
  <2> QED BY <2>1, <2>2, TypesOf, RestKeeps
<1> QED BY <1>1, <1>2, <1>3, <1>4

AtTheKeys ==
  /\ sounds' \in SoundsTypes /\ sounds'.name = "piano"
  /\ \/ card' \in {Off, card}
     \/ \E note \in Keys : card' = [mode |-> "note", at |-> 0, note |-> note]

LEMMA PianoKeeps ==
  ASSUME SoundInv, PianoShift \/ \E k \in PianoKeys : PianoPress(k) \/ PianoRelease(k)
  PROVE  SoundInv'
<1>1. sounds.name = "piano" /\ UNCHANGED <<stream, song, heard>>
  BY DEF PianoShift, PianoPress, PianoRelease, AtPiano
<1>2. ~Streaming /\ stream.low = -1 /\ sounds \in SoundsTypes
  BY <1>1, TypesOf DEF Streaming, InWindow, SoundInv
<1>3. AtTheKeys
  <2>1. CASE PianoShift
    BY <1>1, <1>2, <2>1 DEF AtTheKeys, PianoShift, SoundsTypes
  <2>2. ASSUME NEW k \in PianoKeys, PianoPress(k)
        PROVE  AtTheKeys
    <3>1. PICK pressed : pressed = [sounds EXCEPT !.down = @ \cup {k}]
      OBVIOUS
    <3>2. pressed \in SoundsTypes /\ pressed.name = "piano"
      BY <1>1, <1>2, <3>1 DEF SoundsTypes
    <3>3. Char(k) \in Keys
      BY DEF Char, Keys
    <3>4. \/ sounds' = pressed /\ card' = card
          \/ /\ sounds' = [pressed EXCEPT !.held = Char(k)]
             /\ card' = [mode |-> "note", at |-> 0, note |-> Char(k)] \/ card' = Off
      BY <2>2, <3>1 DEF PianoPress, Stop
    <3>5. [pressed EXCEPT !.held = Char(k)] \in SoundsTypes
          /\ [pressed EXCEPT !.held = Char(k)].name = "piano"
      BY <3>2, <3>3 DEF SoundsTypes
    <3> QED BY <3>2, <3>3, <3>4, <3>5 DEF AtTheKeys
  <2>3. ASSUME NEW k \in PianoKeys, PianoRelease(k)
        PROVE  AtTheKeys
    <3>1. PICK released : released = [sounds EXCEPT !.down = @ \ {k}]
      OBVIOUS
    <3>2. released \in SoundsTypes /\ released.name = "piano"
      BY <1>1, <1>2, <3>1 DEF SoundsTypes
    <3>3. \/ sounds' = released /\ card' = card
          \/ sounds' = [released EXCEPT !.held = ""] /\ card' = Off
      BY <2>3, <3>1 DEF PianoRelease, Stop
    <3>4. [released EXCEPT !.held = ""] \in SoundsTypes /\ [released EXCEPT !.held = ""].name = "piano"
      BY <3>2, NothingTypes DEF SoundsTypes
    <3> QED BY <3>2, <3>3, <3>4 DEF AtTheKeys
  <2> QED BY <2>1, <2>2, <2>3
<1>4. AtPiano' /\ ~Streaming' /\ ~Paused'
  BY <1>3 DEF AtTheKeys, AtPiano, Streaming, InWindow, Paused
<1> QED BY <1>1, <1>2, <1>3, <1>4, TypesOf, RestKeeps DEF AtTheKeys

LEMMA InitKeeps ==
  ASSUME SoundInit
  PROVE  SoundInv
<1>1. /\ card = Off /\ stream.low = -1 /\ song = NoSong /\ sounds = NoProgram /\ heard = Nothing
      /\ stream \in [buf : [Places -> Nat \X Nat], ready : BOOLEAN, last : {0, 1},
                     low : Int, ticked : BOOLEAN]
  BY DEF SoundInit, Places, Silence
<1>2. ~Streaming /\ ~Paused /\ card.mode = "off"
  BY <1>1, NothingTypes DEF Streaming, InWindow, Paused
<1>3. Types
  BY <1>1, NothingTypes DEF Types, SoundsTypes, NoSong
<1> QED BY <1>1, <1>2, <1>3 DEF SoundInv, SilentUnlessPlaying

LEMMA NextKeeps ==
  ASSUME SoundInv, BytesFit, [SoundNext]_svars
  PROVE  SoundInv'
<1>1. CASE Streaming /\ ReadLow
  BY <1>1, ReadLowKeeps
<1>2. CASE PlayerTick
  BY <1>2, PlayerTickKeeps
<1>3. CASE MusicTick
  BY <1>3, MusicTickKeeps
<1>4. CASE CardPlays
  BY <1>4, CardPlaysKeeps
<1>5. CASE PlayCommand
  BY <1>5, PlayCommandKeeps
<1>6. CASE PlayerEsc \/ ClosePlayer \/ PianoEsc \/ OpenPlayer \/ StartPiano
  BY <1>6, LeaveKeeps
<1>7. CASE MusicClick
  BY <1>7, MusicClickKeeps
<1>8. CASE PianoShift \/ \E k \in PianoKeys : PianoPress(k) \/ PianoRelease(k)
  BY <1>8, PianoKeeps
<1>9. CASE UNCHANGED svars
  BY <1>9 DEF svars, SoundInv, Types, SilentUnlessPlaying, Streaming, InWindow, AtPiano, Playable,
              Size, SongFlows, FlowsFrom, MayFollow, Paused, ReadIsRecent, Count, CountBefore
<1> QED BY <1>1, <1>2, <1>3, <1>4, <1>5, <1>6, <1>7, <1>8, <1>9 DEF SoundNext, Tick, SoundUser

LEMMA InvAlways == ASSUME BytesFit PROVE SoundSpec => []SoundInv
<1>1. SoundInit => SoundInv
  BY InitKeeps
<1>2. SoundInv /\ [SoundNext]_svars => SoundInv'
  BY NextKeeps
<1> QED BY <1>1, <1>2, PTL DEF SoundSpec

-------------------------------------------------------------------------------

(* The card streams exactly while a program plays a song and a note sounds    *)
(* only at the piano, for all songs and keys: every way out of a program      *)
(* stops the card (stop, Drop for SongPlayer, run of the piano).              *)
THEOREM SilentAtRest ==
  ASSUME BytesFit
  PROVE  SoundSpec => []SilentUnlessPlaying
<1>1. SoundInv => SilentUnlessPlaying
  BY DEF SoundInv
<1> QED BY <1>1, InvAlways, PTL

(* A song is heard sample by sample, for every buffer, every song and any     *)
(* order of samples, looks and clicks: a pause passes over no more than the   *)
(* buffer holds, a click on the bar leads where it points, and nothing else   *)
(* leaves a gap or repeats a sample (stream_tick, fill_half, toggle).         *)
THEOREM SongHeardInOrder ==
  ASSUME BytesFit
  PROVE  SoundSpec => []HeardInOrder
<1>1. ASSUME SoundInv, card.mode = "stream"
      PROVE  \E i \in MayFollow :
               stream.buf[card.at] = IF i < Songs[heard.id] THEN Sample(heard.id, i) ELSE Silence
  <2>1. /\ Types /\ Playable(song) /\ heard.id = song.id /\ SongFlows
    BY <1>1 DEF SoundInv, SilentUnlessPlaying
  <2>2. PICK next \in MayFollow, b \in Nat :
          Flows(card.at, stream.buf, stream.last, stream.ticked, song, next, b)
    BY <2>1 DEF SongFlows, FlowsFrom
  <2>3. /\ HalfLen \in Nat /\ HalfLen > 0 /\ BufLen = HalfLen + HalfLen
        /\ Songs[song.id] \in Nat /\ card.at \in Places
    BY <2>1, Lengths DEF Types, Playable
  <2> DEFINE h == HalfAt(card.at)
             i == b + card.at - First(h)
  <2>4. /\ card.at \in First(h) .. First(h) + HalfLen - 1 /\ card.at \in card.at .. First(h) + HalfLen - 1
        /\ i \in Nat
    BY <2>3 DEF HalfAt, First, Places
  <2>5. stream.buf[card.at] = Expected(song.id, i) /\ next = Reached(song.id, i)
    BY <2>2, <2>4 DEF Flows, Holds
  <2>6. stream.buf[card.at] = IF next < Songs[heard.id] THEN Sample(heard.id, next) ELSE Silence
    BY <2>1, <2>3, <2>4, <2>5 DEF Expected, Reached
  <2> QED BY <2>2, <2>6
<1>2. SoundInv => HeardInOrder
  BY <1>1 DEF HeardInOrder
<1> QED BY <1>2, InvAlways, PTL

(* A song that ends by itself has been heard to its last sample, however long *)
(* it is, unless it was paused after the sample heard last, and then but for  *)
(* what the buffer holds: two silent halves, and not one, tell play and pump  *)
(* that it is over.                                                           *)
THEOREM WholeSongHeard ==
  ASSUME BytesFit
  PROVE  SoundSpec => WholeSong
<1>1. ASSUME SoundInv, [SoundNext]_svars, ~Unread, song'.id # song.id \/ sounds'.name # sounds.name
      PROVE  \E i \in MayFollow : i >= Size(song)
  <2>1. Streaming
    BY <1>1 DEF SoundInv, Unread
  <2>2. sounds.name \in {"player", "music"}
    BY <2>1 DEF Streaming, InWindow
  <2>3. ASSUME song' = TickedSong, sounds' = sounds
        PROVE  FALSE
    BY <1>1, <2>1, <2>3, AfterFillIs DEF TickedSong, SoundInv
  <2>4. CASE PlayerTick
    BY <1>1, <2>1, <2>3, <2>4, DrainedIsHeard DEF PlayerTick
  <2>5. CASE MusicTick
    BY <1>1, <2>1, <2>3, <2>5, DrainedIsHeard DEF MusicTick
  <2>6. CASE ReadLow \/ CardPlays \/ UNCHANGED svars
    BY <1>1, <2>6 DEF ReadLow, CardPlays, svars
  <2>7. CASE SoundUser
    BY <1>1, <2>2, <2>7 DEF SoundUser, PlayCommand, PlayerEsc, OpenPlayer, MusicClick, CanClick,
         ClosePlayer, StartPiano, PianoShift, PianoEsc, PianoPress, PianoRelease, Free, AtPiano
  <2> QED BY <1>1, <2>4, <2>5, <2>6, <2>7 DEF SoundNext, Tick
<1>2. SoundInv /\ [SoundNext]_svars
        => [~Unread /\ song # NoSong /\ (song'.id # song.id \/ sounds'.name # sounds.name)
              => \E i \in MayFollow : i >= Size(song)]_svars
  BY <1>1
<1> QED BY <1>2, InvAlways, PTL DEF SoundSpec, WholeSong

-------------------------------------------------------------------------------
(* Script: the evaluator and the meaning are functions that go through the    *)
(* calls of the methods and the parts of the expression.  That there are such *)
(* functions, and what they do, is shown by a size of what they are given,    *)
(* which gets smaller: nothing fails at a smallest size.                      *)

(* What holds at a size when it holds at all smaller ones holds at all sizes. *)
LEMMA AllSizes ==
  ASSUME NEW A, \A k \in Nat : (\A j \in Nat : j < k => j \in A) => k \in A
  PROVE  \A k \in Nat : k \in A
<1>1. PICK S : S = {k \in Nat : k \notin A}
  OBVIOUS
<1>2. SUFFICES ASSUME S # {}  PROVE FALSE
  BY <1>1
<1>3. S \in SUBSET Nat
  BY <1>1
<1>4. PICK m \in S : \A j \in S : m <= j
  BY <1>2, <1>3, HasSmallest
<1>5. m \in Nat /\ m \notin A
  BY <1>1
<1>6. \A j \in Nat : j < m => j \in A
  BY <1>1, <1>4, <1>5
<1> QED BY <1>5, <1>6

(* Functions whose value at each place is one that is allowed there. *)
Allowed(S, V, T) == {f \in [S -> V] : \A x \in S : f[x] \in T[x]}

(* What G says of a place depends only on what is known of smaller ones. *)
Narrowing(S, V, T, size, G) ==
  /\ size \in [S -> Nat]
  /\ G \in [Allowed(S, V, T) -> Allowed(S, V, T)]
  /\ \A f \in Allowed(S, V, T) : \A g \in Allowed(S, V, T) : \A x \in S :
       (\A y \in S : size[y] < size[x] => f[y] = g[y]) => G[f][x] = G[g][x]

(* f is what G says of it, at the places that are smaller than k. *)
SolvedBelow(S, size, G, k, f) == \A x \in S : size[x] < k => f[x] = G[f][x]

(* There is a function that is right below k ... *)
LEMMA RightBelow ==
  ASSUME NEW S, NEW V, NEW T, NEW size, NEW G, Narrowing(S, V, T, size, G),
         NEW f0 \in Allowed(S, V, T), NEW k \in Nat
  PROVE  \E f \in Allowed(S, V, T) : SolvedBelow(S, size, G, k, f)
<1> DEFINE F == Allowed(S, V, T)
<1>1. PICK A : A = {m \in Nat : \E f \in F : SolvedBelow(S, size, G, m, f)}
  OBVIOUS
<1>2. ASSUME NEW m \in Nat, \A j \in Nat : j < m => j \in A  PROVE m \in A
  <2>1. CASE m = 0
    BY <1>1, <2>1 DEF SolvedBelow, Narrowing
  <2>2. CASE m # 0
    <3>1. m - 1 \in Nat /\ m - 1 < m
      BY <2>2
    <3>2. PICK f \in F : SolvedBelow(S, size, G, m - 1, f)
      BY <1>1, <1>2, <3>1
    <3>3. G[f] \in F
      BY DEF Narrowing
    <3>4. ASSUME NEW x \in S, size[x] < m  PROVE G[f][x] = G[G[f]][x]
      <4>1. ASSUME NEW y \in S, size[y] < size[x]  PROVE f[y] = G[f][y]
        <5>1. size[y] \in Nat /\ size[x] \in Nat
          BY DEF Narrowing
        <5>2. size[y] < m - 1
          BY <3>4, <4>1, <5>1
        <5> QED BY <3>2, <5>2 DEF SolvedBelow
      <4> QED BY <3>3, <4>1 DEF Narrowing
    <3>5. SolvedBelow(S, size, G, m, G[f])
      BY <3>4 DEF SolvedBelow
    <3> HIDE DEF F
    <3> QED BY <1>1, <3>3, <3>5
  <2> QED BY <2>1, <2>2
<1>3. k \in A
  BY <1>2, AllSizes
<1> HIDE DEF F
<1>4. \E f \in F : SolvedBelow(S, size, G, k, f)
  BY <1>1, <1>3
<1> QED BY <1>4 DEF F

(* ... and two of them agree there. *)
LEMMA OneBelow ==
  ASSUME NEW S, NEW V, NEW T, NEW size, NEW G, Narrowing(S, V, T, size, G), NEW k \in Nat,
         NEW f \in Allowed(S, V, T), SolvedBelow(S, size, G, k, f),
         NEW g \in Allowed(S, V, T), SolvedBelow(S, size, G, k, g),
         NEW x0 \in S, size[x0] < k
  PROVE  f[x0] = g[x0]
<1>1. PICK A : A = {m \in Nat : \A x \in S : size[x] = m /\ m < k => f[x] = g[x]}
  OBVIOUS
<1>2. ASSUME NEW m \in Nat, \A j \in Nat : j < m => j \in A  PROVE m \in A
  <2>1. SUFFICES ASSUME NEW x \in S, size[x] = m, m < k  PROVE f[x] = g[x]
    BY <1>1
  <2>2. ASSUME NEW y \in S, size[y] < size[x]  PROVE f[y] = g[y]
    <3>1. size[y] \in Nat /\ size[y] < k /\ size[y] < m
      BY <2>1, <2>2 DEF Narrowing
    <3>2. size[y] \in A
      BY <1>2, <3>1
    <3> QED BY <1>1, <3>1, <3>2
  <2>3. G[f][x] = G[g][x]
    BY <2>2 DEF Narrowing
  <2> QED BY <2>1, <2>3 DEF SolvedBelow
<1>3. size[x0] \in Nat
  BY DEF Narrowing
<1>4. size[x0] \in A
  BY <1>2, <1>3, AllSizes
<1> QED BY <1>1, <1>3, <1>4

(* So there is a function that is what G says of it. *)
LEMMA Solution ==
  ASSUME NEW S, NEW V, NEW T, NEW size, NEW G, Narrowing(S, V, T, size, G),
         NEW f0 \in Allowed(S, V, T)
  PROVE  \E f \in Allowed(S, V, T) : \A x \in S : f[x] = G[f][x]
<1> DEFINE F == Allowed(S, V, T)
<1> DEFINE Below(k, f) == f \in F /\ SolvedBelow(S, size, G, k, f)
<1>1. PICK pick : pick = [k \in Nat |-> CHOOSE f : Below(k, f)]
  OBVIOUS
<1>2. ASSUME NEW k \in Nat  PROVE Below(k, pick[k])
  <2>1. \E f : Below(k, f)
    BY RightBelow
  <2> HIDE DEF Below
  <2> QED BY <1>1, <2>1
<1>3. PICK h : h = [x \in S |-> pick[size[x] + 1][x]]
  OBVIOUS
<1>4. \A x \in S : size[x] \in Nat /\ size[x] + 1 \in Nat /\ h[x] = pick[size[x] + 1][x]
  BY <1>3 DEF Narrowing
<1>5. h \in F
  <2>1. \A x \in S : pick[size[x] + 1] \in F
    BY <1>2, <1>4
  <2>2. \A x \in S : h[x] \in V /\ h[x] \in T[x]
    BY <1>4, <2>1 DEF Allowed
  <2> QED BY <1>3, <2>2 DEF Allowed
<1>6. ASSUME NEW x \in S  PROVE h[x] = G[h][x]
  <2>1. PICK k : k = size[x] + 1 /\ k \in Nat
    BY <1>4
  <2>2. PICK g : g = pick[k] /\ g \in F /\ SolvedBelow(S, size, G, k, g)
    BY <1>2, <2>1
  <2>3. ASSUME NEW y \in S, size[y] < size[x]  PROVE h[y] = g[y]
    <3>1. PICK m : m = size[y] + 1 /\ m \in Nat /\ m <= k /\ size[y] < m
      BY <1>4, <2>1, <2>3
    <3>2. PICK e : e = pick[m] /\ e \in F /\ SolvedBelow(S, size, G, m, e)
      BY <1>2, <3>1
    <3>3. SolvedBelow(S, size, G, m, g)
      <4>1. ASSUME NEW z \in S, size[z] < m  PROVE g[z] = G[g][z]
        <5>1. size[z] < k
          BY <1>4, <2>1, <3>1, <4>1
        <5> QED BY <2>2, <5>1 DEF SolvedBelow
      <4> QED BY <4>1 DEF SolvedBelow
    <3>4. e[y] = g[y]
      BY <2>2, <3>1, <3>2, <3>3, OneBelow
    <3> QED BY <1>4, <3>1, <3>2, <3>4
  <2>4. G[h][x] = G[g][x]
    BY <1>5, <2>2, <2>3 DEF Narrowing
  <2>5. size[x] < k
    BY <1>4, <2>1
  <2>6. g[x] = G[g][x]
    BY <2>2, <2>5 DEF SolvedBelow
  <2> QED BY <1>4, <2>1, <2>2, <2>4, <2>6
<1> QED BY <1>5, <1>6

-------------------------------------------------------------------------------
(* The evaluator. *)

Kinds == {"num", "ident", "+", "-", "*", "/", "(", ")"}

(* The variables have values. *)
HasValues(vs) == \A x \in DOMAIN vs : vs[x] \in Int

(* What stands at a place of the expression.                                  *)
LEMMA TokenAt ==
  ASSUME NEW ts \in Seq(Tokens), NEW pos \in Nat \ {0}
  PROVE  /\ Len(ts) \in Nat
         /\ pos <= Len(ts) => At(ts, pos) = ts[pos].kind /\ At(ts, pos) \in Kinds
         /\ pos > Len(ts) => At(ts, pos) = "end"
         /\ At(ts, pos) = "num" => ts[pos].value \in Int
<1>1. Len(ts) \in Nat /\ \A i \in 1 .. Len(ts) : ts[i] \in Tokens
  OBVIOUS
<1>2. \A t \in Tokens : t.kind \in Kinds /\ (t.kind = "num" => t.value \in Int)
  BY ScriptAssumption DEF Tokens, Kinds, Num, Ident, Op
<1>3. CASE pos <= Len(ts)
  <2>1. ts[pos] \in Tokens /\ At(ts, pos) = ts[pos].kind
    BY <1>1, <1>3 DEF At
  <2>2. Len(ts) \in Nat /\ ~(pos > Len(ts))
    BY <1>1, <1>3
  <2> QED BY <1>2, <1>3, <2>1, <2>2
<1>4. CASE pos > Len(ts)
  <2>1. At(ts, pos) = "end" /\ ~(pos <= Len(ts))
    BY <1>1, <1>4 DEF At
  <2> QED BY <1>1, <2>1
<1> QED BY <1>1, <1>3, <1>4

(* A result has the fields it is made with, ...                               *)
LEMMA Made ==
  ASSUME NEW pos \in Nat \ {0}, NEW v \in Int, NEW e \in Errors
  PROVE  /\ Result(pos, v, e) \in Results
         /\ Result(pos, v, e).pos = pos /\ Result(pos, v, e).v = v /\ Result(pos, v, e).error = e
BY DEF Result, Results

(* ... and is made from its fields.                                           *)
LEMMA Fields ==
  ASSUME NEW here \in Results
  PROVE  /\ here.pos \in Nat \ {0} /\ here.pos + 1 \in Nat \ {0} /\ here.v \in Int /\ here.error \in Errors
         /\ here = Result(here.pos, here.v, here.error)
BY DEF Result, Results

(* A quotient is a number.                                                    *)
LEMMA QuotientInt ==
  ASSUME NEW a \in Int, NEW b \in Int, b # 0
  PROVE  Quotient(a, b) \in Int
<1>1. Abs(a) \in Int /\ Abs(b) \in Int /\ Abs(b) > 0
  BY DEF Abs
<1>2. Abs(a) \div Abs(b) \in Int
  BY <1>1
<1> QED BY <1>2 DEF Quotient

(* What a method is called with, and what it may return: never a place before *)
(* the one where it was called.                                               *)
Calls == Rules \X Results
Onward == [call \in Calls |-> {res \in Results : res.pos >= call[2].pos}]
Parses == Allowed(Calls, Results, Onward)

(* The size of a call: the tokens that are left, and the level. *)
Ahead(ts, pos) == IF pos > Len(ts) THEN 0 ELSE Len(ts) + 1 - pos
Level(rule) == IF rule = "add_sub" THEN 2 ELSE IF rule = "mul_div" THEN 1 ELSE 0
CallSize(ts) == [call \in Calls |-> 3 * Ahead(ts, call[2].pos) + Level(call[1])]

(* Further on, fewer tokens are left.                                         *)
LEMMA AheadIs ==
  ASSUME NEW ts \in Seq(Tokens), NEW p \in Nat \ {0}
  PROVE  /\ Ahead(ts, p) \in Nat
         /\ \A q \in Nat \ {0} : q >= p => Ahead(ts, q) <= Ahead(ts, p)
         /\ \A q \in Nat \ {0} : q >= p + 1 /\ p <= Len(ts) => Ahead(ts, q) + 1 <= Ahead(ts, p)
<1>1. Len(ts) \in Nat
  OBVIOUS
<1> QED BY <1>1 DEF Ahead

(* The size of a call is a natural number.                                    *)
LEMMA CallSizeIs ==
  ASSUME NEW ts \in Seq(Tokens)
  PROVE  /\ CallSize(ts) \in [Calls -> Nat]
         /\ \A rule \in Rules : \A here \in Results :
              CallSize(ts)[<<rule, here>>] = 3 * Ahead(ts, here.pos) + Level(rule)
<1>1. \A rule \in Rules : Level(rule) \in Nat
  BY DEF Rules, Level
<1>2. \A here \in Results : Ahead(ts, here.pos) \in Nat
  BY AheadIs, Fields
<1>3. \A call \in Calls : call[1] \in Rules /\ call[2] \in Results
  BY DEF Calls
<1>4. \A call \in Calls : 3 * Ahead(ts, call[2].pos) + Level(call[1]) \in Nat
  BY <1>1, <1>2, <1>3
<1>5. CallSize(ts) \in [Calls -> Nat]
  BY <1>4 DEF CallSize
<1>6. ASSUME NEW rule \in Rules, NEW here \in Results
      PROVE  CallSize(ts)[<<rule, here>>] = 3 * Ahead(ts, here.pos) + Level(rule)
  <2>1. <<rule, here>> \in Calls
    BY DEF Calls
  <2> QED BY <2>1 DEF CallSize
<1> QED BY <1>5, <1>6

(* A parse gives a result that is not before the place it is called at.       *)
LEMMA CallGives ==
  ASSUME NEW f \in Parses, NEW rule \in Rules, NEW here \in Results
  PROVE  f[<<rule, here>>] \in Results /\ f[<<rule, here>>].pos >= here.pos
<1>1. <<rule, here>> \in Calls
  BY DEF Calls
<1>2. f[<<rule, here>>] \in Onward[<<rule, here>>]
  BY <1>1 DEF Parses, Allowed
<1> QED BY <1>1, <1>2 DEF Onward

(* At a token, a call that goes on behind it is smaller, and so is one of a *)
(* lower level.                                                              *)
LEMMA SmallerCall ==
  ASSUME NEW ts \in Seq(Tokens), NEW rule \in Rules, NEW here \in Results,
         NEW rule2 \in Rules, NEW there \in Results,
         \/ here.pos <= Len(ts) /\ there.pos >= here.pos + 1
         \/ there.pos >= here.pos /\ Level(rule2) < Level(rule)
  PROVE  CallSize(ts)[<<rule2, there>>] < CallSize(ts)[<<rule, here>>]
<1>1. /\ CallSize(ts)[<<rule, here>>] = 3 * Ahead(ts, here.pos) + Level(rule)
      /\ CallSize(ts)[<<rule2, there>>] = 3 * Ahead(ts, there.pos) + Level(rule2)
  BY CallSizeIs
<1>2. here.pos \in Nat \ {0} /\ there.pos \in Nat \ {0}
  BY Fields
<1>3. /\ Ahead(ts, here.pos) \in Nat /\ Ahead(ts, there.pos) \in Nat
      /\ there.pos >= here.pos => Ahead(ts, there.pos) <= Ahead(ts, here.pos)
      /\ there.pos >= here.pos + 1 /\ here.pos <= Len(ts) => Ahead(ts, there.pos) + 1 <= Ahead(ts, here.pos)
  BY <1>2, AheadIs
<1>4. Level(rule) \in 0 .. 2 /\ Level(rule2) \in 0 .. 2
  BY DEF Level
<1> QED BY <1>1, <1>3, <1>4

(* What a method returns, for each kind of token it may stand at. *)
AtomCases(vs, ts, here, kind, x, sum, inner, atom) ==
  /\ kind \in Kinds \cup {"end"}
  /\ kind = "end" => atom = Result(here.pos, 0, "expected_value")
  /\ kind = "num" => atom = Result(here.pos + 1, x, here.error)
  /\ kind = "ident" /\ x \in DOMAIN vs => atom = Result(here.pos + 1, vs[x], here.error)
  /\ kind = "ident" /\ x \notin DOMAIN vs => atom = Result(here.pos + 1, 0, "undefined_variable")
  /\ kind = "(" /\ At(ts, sum.pos) = ")" => atom = Result(sum.pos + 1, sum.v, sum.error)
  /\ kind = "(" /\ At(ts, sum.pos) # ")" => atom = Result(sum.pos, sum.v, "missing_bracket")
  /\ kind = "-" => atom = Result(inner.pos, -inner.v, inner.error)
  /\ kind \in {"+", "*", "/", ")"} => atom = Result(here.pos, 0, "unexpected_token")

ProductCases(f, left, kind, right, product) ==
  /\ kind = "*" => product = f[<<"mul_div_rest", Result(right.pos, left.v * right.v, right.error)>>]
  /\ kind = "/" /\ right.v = 0 => product = Result(right.pos, 0, "division_by_zero")
  /\ kind = "/" /\ right.v # 0 =>
       product = f[<<"mul_div_rest", Result(right.pos, Quotient(left.v, right.v), right.error)>>]
  /\ kind \notin {"*", "/"} => product = left

SumCases(f, left, kind, right, sum) ==
  /\ kind = "+" => sum = f[<<"add_sub_rest", Result(right.pos, left.v + right.v, right.error)>>]
  /\ kind = "-" => sum = f[<<"add_sub_rest", Result(right.pos, left.v - right.v, right.error)>>]
  /\ kind \notin {"+", "-"} => sum = left

Past(here) == Result(here.pos + 1, 0, here.error)

(* parse_atom, case by case.                                                  *)
LEMMA AtomIs ==
  ASSUME NEW f, NEW vs, NEW ts \in Seq(Tokens), NEW here \in Results
  PROVE  AtomCases(vs, ts, here, At(ts, here.pos), ts[here.pos].value, f[<<"add_sub", Past(here)>>],
                   f[<<"atom", Past(here)>>], ParseAtom(f, vs, ts, here))
<1>1. PICK kind, x, next : kind = At(ts, here.pos) /\ x = ts[here.pos].value /\ next = Past(here)
  OBVIOUS
<1>2. PICK sum, inner, atom : sum = f[<<"add_sub", next>>] /\ inner = f[<<"atom", next>>] /\ atom = ParseAtom(f, vs, ts, here)
  OBVIOUS
<1>3. kind \in Kinds \cup {"end"}
  <2>1. here.pos \in Nat \ {0} /\ Len(ts) \in Nat
    BY Fields
  <2>2. here.pos <= Len(ts) \/ here.pos > Len(ts)
    BY <2>1
  <2> QED BY <1>1, <2>1, <2>2, TokenAt
<1>4. atom = CASE kind = "end" -> Result(here.pos, 0, "expected_value")
               [] kind = "num" -> Result(here.pos + 1, x, here.error)
               [] kind = "ident" -> IF x \in DOMAIN vs THEN Result(here.pos + 1, vs[x], here.error)
                                    ELSE Result(here.pos + 1, 0, "undefined_variable")
               [] kind = "(" -> IF At(ts, sum.pos) = ")" THEN Result(sum.pos + 1, sum.v, sum.error)
                                ELSE Result(sum.pos, sum.v, "missing_bracket")
               [] kind = "-" -> Result(inner.pos, -inner.v, inner.error)
               [] OTHER -> Result(here.pos, 0, "unexpected_token")
  BY <1>1, <1>2 DEF ParseAtom, Past
<1>5. AtomCases(vs, ts, here, kind, x, sum, inner, atom)
  BY <1>3, <1>4 DEF AtomCases
<1> QED BY <1>1, <1>2, <1>5

(* The loop of parse_mul_div, case by case.                                   *)
LEMMA ProductIs ==
  ASSUME NEW f, NEW ts, NEW left
  PROVE  ProductCases(f, left, At(ts, left.pos), f[<<"atom", Past(left)>>], MulDivRest(f, ts, left))
BY DEF MulDivRest, ProductCases, Past

(* The loop of parse_add_sub, case by case.                                   *)
LEMMA SumIs ==
  ASSUME NEW f, NEW ts, NEW left
  PROVE  SumCases(f, left, At(ts, left.pos), f[<<"mul_div", Past(left)>>], AddSubRest(f, ts, left))
BY DEF AddSubRest, SumCases, Past

(* What Returned is for each method.                                          *)
LEMMA ReturnedIs ==
  ASSUME NEW f, NEW vs, NEW ts, NEW here
  PROVE  /\ Returned(f, vs, ts, "add_sub", here) = ParseAddSub(f, here)
         /\ Returned(f, vs, ts, "add_sub_rest", here) = AddSubRest(f, ts, here)
         /\ Returned(f, vs, ts, "mul_div", here) = ParseMulDiv(f, here)
         /\ Returned(f, vs, ts, "mul_div_rest", here) = MulDivRest(f, ts, here)
         /\ Returned(f, vs, ts, "atom", here) = ParseAtom(f, vs, ts, here)
BY DEF Returned

(* The call of a method behind the token. *)
LEMMA NextCall ==
  ASSUME NEW ts \in Seq(Tokens), NEW f \in Parses, NEW here \in Results, NEW rule \in Rules, NEW rule2 \in Rules,
         At(ts, here.pos) # "end"
  PROVE  LET there == f[<<rule2, Past(here)>>] IN
         /\ here.pos \in Nat \ {0} /\ here.pos <= Len(ts)
         /\ Past(here) \in Results /\ Past(here).pos = here.pos + 1 /\ Past(here).error = here.error
         /\ CallSize(ts)[<<rule2, Past(here)>>] < CallSize(ts)[<<rule, here>>]
         /\ there \in Results /\ there.pos \in Nat \ {0} /\ there.pos + 1 \in Nat \ {0}
         /\ there.v \in Int /\ there.error \in Errors
         /\ there.pos >= here.pos + 1 /\ there.pos >= here.pos /\ there.pos + 1 >= here.pos
<1>1. /\ here.pos \in Nat \ {0} /\ here.pos + 1 \in Nat \ {0} /\ here.error \in Errors
      /\ Len(ts) \in Nat /\ 0 \in Int
  BY Fields
<1>2. Past(here) \in Results /\ Past(here).pos = here.pos + 1 /\ Past(here).error = here.error
  BY <1>1 DEF Result, Results, Past
<1>3. here.pos <= Len(ts)
  BY <1>1 DEF At
<1>4. Past(here).pos >= here.pos + 1
  BY <1>1, <1>2
<1>5. CallSize(ts)[<<rule2, Past(here)>>] < CallSize(ts)[<<rule, here>>]
  BY <1>2, <1>3, <1>4, SmallerCall
<1>6. PICK there : there = f[<<rule2, Past(here)>>]
  OBVIOUS
<1>7. there \in Results /\ there.pos >= here.pos + 1
  BY <1>2, <1>6, CallGives
<1>8. there.pos \in Nat \ {0} /\ there.pos + 1 \in Nat \ {0} /\ there.v \in Int /\ there.error \in Errors
  BY <1>7, Fields
<1>9. there.pos >= here.pos /\ there.pos + 1 >= here.pos
  BY <1>1, <1>7, <1>8
<1> QED BY <1>1, <1>2, <1>3, <1>5, <1>6, <1>7, <1>8, <1>9

(* A result that is made and handed to a method. *)
LEMMA HandedOn ==
  ASSUME NEW ts \in Seq(Tokens), NEW f \in Parses, NEW rule \in Rules, NEW p \in Nat \ {0}, NEW v \in Int, NEW e \in Errors
  PROVE  LET there == Result(p, v, e)
             last == f[<<rule, there>>]
         IN  /\ there \in Results /\ there.pos = p /\ there.v = v /\ there.error = e
             /\ last \in Results /\ last.pos \in Nat \ {0} /\ last.pos >= p
<1>1. PICK there : there = Result(p, v, e)
  OBVIOUS
<1>2. PICK last : last = f[<<rule, there>>]
  OBVIOUS
<1>3. there \in Results /\ there.pos = p /\ there.v = v /\ there.error = e
  BY <1>1 DEF Result, Results
<1>4. last \in Results /\ last.pos >= there.pos
  BY <1>2, <1>3, CallGives
<1>5. last.pos \in Nat \ {0}
  BY <1>4, Fields
<1> QED BY <1>1, <1>2, <1>3, <1>4, <1>5

(* A method that is given what the others return returns a result, at or      *)
(* behind the place where it was called ...                                   *)
LEMMA AtomGives ==
  ASSUME NEW vs, HasValues(vs), NEW ts \in Seq(Tokens), NEW f \in Parses, NEW here \in Results
  PROVE  ParseAtom(f, vs, ts, here) \in Results /\ ParseAtom(f, vs, ts, here).pos >= here.pos
<1>1. PICK kind, x, sum, inner, atom :
        /\ kind = At(ts, here.pos) /\ x = ts[here.pos].value
        /\ sum = f[<<"add_sub", Past(here)>>] /\ inner = f[<<"atom", Past(here)>>]
        /\ atom = ParseAtom(f, vs, ts, here)
  OBVIOUS
<1>2. AtomCases(vs, ts, here, kind, x, sum, inner, atom)
  BY <1>1, AtomIs
<1>3. /\ here.pos \in Nat \ {0} /\ here.pos + 1 \in Nat \ {0} /\ here.error \in Errors
      /\ here.pos <= here.pos + 1 /\ here.pos >= here.pos
  BY Fields
<1>4. kind = "num" => x \in Int
  BY <1>1, <1>3, TokenAt
<1>5. x \in DOMAIN vs => vs[x] \in Int
  BY DEF HasValues
<1>6. ASSUME kind # "end"
      PROVE  /\ sum.pos \in Nat \ {0} /\ sum.pos + 1 \in Nat \ {0} /\ sum.v \in Int /\ sum.error \in Errors
             /\ inner.pos \in Nat \ {0} /\ inner.v \in Int /\ inner.error \in Errors
             /\ sum.pos >= here.pos /\ sum.pos + 1 >= here.pos /\ inner.pos >= here.pos
  <2>1. "atom" \in Rules /\ "add_sub" \in Rules
    BY DEF Rules
  <2>2. /\ sum.pos \in Nat \ {0} /\ sum.pos + 1 \in Nat \ {0} /\ sum.v \in Int /\ sum.error \in Errors
        /\ sum.pos >= here.pos /\ sum.pos + 1 >= here.pos
    BY <1>1, <1>6, <2>1, NextCall
  <2>3. inner.pos \in Nat \ {0} /\ inner.v \in Int /\ inner.error \in Errors /\ inner.pos >= here.pos
    BY <1>1, <1>6, <2>1, NextCall
  <2> QED BY <2>2, <2>3
<1>7. {"expected_value", "undefined_variable", "missing_bracket", "unexpected_token"} \subseteq Errors
  BY DEF Errors
<1>8. atom \in Results /\ atom.pos >= here.pos
  <2>0. ASSUME NEW p \in Nat \ {0}, NEW v \in Int, NEW e \in Errors, p >= here.pos, atom = Result(p, v, e)
        PROVE  atom \in Results /\ atom.pos >= here.pos
    BY <2>0, Made
  <2>1. CASE kind = "end"
    <3>1. PICK v \in Int, e \in Errors : atom = Result(here.pos, v, e)
      BY <1>2, <1>7, <2>1 DEF AtomCases
    <3> QED BY <1>3, <1>7, <2>0, <3>1
  <2>2. CASE kind = "num"
    BY <1>2, <1>3, <1>4, <2>2 DEF AtomCases, Result, Results
  <2>3. CASE kind = "ident"
    <3>1. CASE x \in DOMAIN vs
      BY <1>2, <1>3, <1>5, <2>3, <3>1 DEF AtomCases, Result, Results
    <3>2. CASE x \notin DOMAIN vs
      <4>1. PICK v \in Int, e \in Errors : atom = Result(here.pos + 1, v, e)
        BY <1>2, <1>7, <2>3, <3>2 DEF AtomCases
      <4> QED BY <1>3, <1>7, <2>0, <4>1
    <3> QED BY <3>1, <3>2
  <2>4. CASE kind = "("
    <3>1. CASE At(ts, sum.pos) = ")"
      BY <1>2, <1>3, <1>6, <2>4, <3>1 DEF AtomCases, Result, Results
    <3>2. CASE At(ts, sum.pos) # ")"
      <4>1. atom = Result(sum.pos, sum.v, "missing_bracket")
        BY <1>2, <2>4, <3>2 DEF AtomCases
      <4> QED BY <1>6, <1>7, <2>0, <2>4, <4>1
    <3> QED BY <3>1, <3>2
  <2>5. CASE kind = "-"
    BY <1>2, <1>3, <1>6, <2>5 DEF AtomCases, Result, Results
  <2>6. CASE kind \in {"+", "*", "/", ")"}
    <3>1. PICK v \in Int, e \in Errors : atom = Result(here.pos, v, e)
      BY <1>2, <1>7, <2>6 DEF AtomCases
    <3> QED BY <1>3, <1>7, <2>0, <3>1
  <2> QED BY <1>2, <2>1, <2>2, <2>3, <2>4, <2>5, <2>6 DEF AtomCases, Kinds
<1> QED BY <1>1, <1>8

(* The loop of parse_mul_div gives a result and does not go back.             *)
LEMMA ProductGives ==
  ASSUME NEW ts \in Seq(Tokens), NEW f \in Parses, NEW left \in Results
  PROVE  MulDivRest(f, ts, left) \in Results /\ MulDivRest(f, ts, left).pos >= left.pos
<1>1. PICK kind, right, product : /\ kind = At(ts, left.pos) /\ right = f[<<"atom", Past(left)>>]
                                  /\ product = MulDivRest(f, ts, left)
  OBVIOUS
<1>2. ProductCases(f, left, kind, right, product)
  BY <1>1, ProductIs
<1>3. left.pos \in Nat \ {0} /\ left.v \in Int /\ left.pos >= left.pos
  BY Fields
<1>4. CASE kind \in {"*", "/"}
  <2>1. "atom" \in Rules /\ "mul_div_rest" \in Rules /\ kind # "end"
    BY <1>4 DEF Rules
  <2>2. right.pos \in Nat \ {0} /\ right.v \in Int /\ right.error \in Errors /\ right.pos >= left.pos
    BY <1>1, <2>1, NextCall
  <2>3. CASE kind = "/" /\ right.v = 0
    <3>1. "division_by_zero" \in Errors
      BY DEF Errors
    <3>2. PICK v \in Int, e \in Errors : product = Result(right.pos, v, e)
      BY <1>2, <2>3, <3>1 DEF ProductCases
    <3>3. product \in Results /\ product.pos >= left.pos
      <4>1. Result(right.pos, v, e) \in Results /\ Result(right.pos, v, e).pos = right.pos
        BY <2>2, Made
      <4> QED BY <2>2, <3>2, <4>1
    <3> QED BY <1>1, <3>3
  <2>4. CASE kind = "*" \/ right.v # 0
    <3>1. left.v * right.v \in Int
      BY <1>3, <2>2
    <3>2. right.v # 0 => Quotient(left.v, right.v) \in Int
      BY <1>3, <2>2, QuotientInt
    <3>3. PICK v \in Int : product = f[<<"mul_div_rest", Result(right.pos, v, right.error)>>]
      BY <1>2, <1>4, <2>4, <3>1, <3>2 DEF ProductCases
    <3>4. product \in Results /\ product.pos \in Nat \ {0} /\ product.pos >= right.pos
      BY <2>1, <2>2, <3>3, HandedOn
    <3>5. product.pos >= left.pos
      BY <1>3, <2>2, <3>4
    <3> QED BY <1>1, <3>4, <3>5
  <2> QED BY <1>4, <2>3, <2>4
<1>5. CASE kind \notin {"*", "/"}
  BY <1>1, <1>2, <1>3, <1>5 DEF ProductCases
<1> QED BY <1>4, <1>5

(* The loop of parse_add_sub gives a result and does not go back.             *)
LEMMA SumGives ==
  ASSUME NEW ts \in Seq(Tokens), NEW f \in Parses, NEW left \in Results
  PROVE  AddSubRest(f, ts, left) \in Results /\ AddSubRest(f, ts, left).pos >= left.pos
<1>1. PICK kind, right, sum : /\ kind = At(ts, left.pos) /\ right = f[<<"mul_div", Past(left)>>]
                              /\ sum = AddSubRest(f, ts, left)
  OBVIOUS
<1>2. SumCases(f, left, kind, right, sum)
  BY <1>1, SumIs
<1>3. left.pos \in Nat \ {0} /\ left.v \in Int /\ left.pos >= left.pos
  BY Fields
<1>4. CASE kind \in {"+", "-"}
  <2>1. "mul_div" \in Rules /\ "add_sub_rest" \in Rules /\ kind # "end"
    BY <1>4 DEF Rules
  <2>2. right.pos \in Nat \ {0} /\ right.v \in Int /\ right.error \in Errors /\ right.pos >= left.pos
    BY <1>1, <2>1, NextCall
  <2>3. left.v + right.v \in Int /\ left.v - right.v \in Int
    BY <1>3, <2>2
  <2>4. PICK v \in Int : sum = f[<<"add_sub_rest", Result(right.pos, v, right.error)>>]
    BY <1>2, <1>4, <2>3 DEF SumCases
  <2>5. sum \in Results /\ sum.pos \in Nat \ {0} /\ sum.pos >= right.pos
    BY <2>1, <2>2, <2>4, HandedOn
  <2>6. sum.pos >= left.pos
    BY <1>3, <2>2, <2>5
  <2> QED BY <1>1, <2>5, <2>6
<1>5. CASE kind \notin {"+", "-"}
  BY <1>1, <1>2, <1>3, <1>5 DEF SumCases
<1> QED BY <1>4, <1>5

(* A method and then its loop give a result and do not go back.               *)
LEMMA RunGives ==
  ASSUME NEW f \in Parses, NEW here \in Results, NEW rule \in Rules, NEW rule2 \in Rules,
         NEW there, there = f[<<rule, here>>], NEW last, last = f[<<rule2, there>>]
  PROVE  there \in Results /\ there.pos >= here.pos /\ last \in Results /\ last.pos >= here.pos
<1>1. there \in Results /\ there.pos >= here.pos
  BY CallGives
<1>2. last \in Results /\ last.pos >= there.pos
  BY <1>1, CallGives
<1>3. here.pos \in Nat /\ there.pos \in Nat /\ last.pos \in Nat
  BY <1>1, <1>2, Fields
<1> QED BY <1>1, <1>2, <1>3

(* Every method gives a result and does not go back.                          *)
LEMMA ReturnedGives ==
  ASSUME NEW vs, HasValues(vs), NEW ts \in Seq(Tokens), NEW f \in Parses,
         NEW rule \in Rules, NEW here \in Results
  PROVE  Returned(f, vs, ts, rule, here) \in Results /\ Returned(f, vs, ts, rule, here).pos >= here.pos
<1>1. CASE rule = "add_sub"
  <2>1. "mul_div" \in Rules /\ "add_sub_rest" \in Rules
    BY DEF Rules
  <2>2. ParseAddSub(f, here) \in Results /\ ParseAddSub(f, here).pos >= here.pos
    BY <2>1, RunGives DEF ParseAddSub
  <2> QED BY <1>1, <2>2, ReturnedIs
<1>2. CASE rule = "add_sub_rest"
  BY <1>2, ReturnedIs, SumGives
<1>3. CASE rule = "mul_div"
  <2>1. "atom" \in Rules /\ "mul_div_rest" \in Rules
    BY DEF Rules
  <2>2. ParseMulDiv(f, here) \in Results /\ ParseMulDiv(f, here).pos >= here.pos
    BY <2>1, RunGives DEF ParseMulDiv
  <2> QED BY <1>3, <2>2, ReturnedIs
<1>4. CASE rule = "mul_div_rest"
  BY <1>4, ReturnedIs, ProductGives
<1>5. CASE rule = "atom"
  BY <1>5, ReturnedIs, AtomGives
<1> QED BY <1>1, <1>2, <1>3, <1>4, <1>5 DEF Rules

(* ... and looks at smaller calls only. *)
Agree(ts, f, g, rule, here) ==
  \A call \in Calls : CallSize(ts)[call] < CallSize(ts)[<<rule, here>>] => f[call] = g[call]

(* Two parses that agree on smaller calls agree on a smaller one.             *)
LEMMA AgreeAt ==
  ASSUME NEW ts, NEW f, NEW g, NEW rule, NEW here, Agree(ts, f, g, rule, here),
         NEW rule2 \in Rules, NEW there \in Results,
         CallSize(ts)[<<rule2, there>>] < CallSize(ts)[<<rule, here>>]
  PROVE  f[<<rule2, there>>] = g[<<rule2, there>>]
<1>1. <<rule2, there>> \in Calls
  BY DEF Calls
<1> QED BY <1>1 DEF Agree

(* parse_atom looks only at smaller calls, ...                                *)
LEMMA AtomLooks ==
  ASSUME NEW vs, NEW ts \in Seq(Tokens), NEW f, NEW g \in Parses, NEW here \in Results,
         Agree(ts, f, g, "atom", here)
  PROVE  ParseAtom(f, vs, ts, here) = ParseAtom(g, vs, ts, here)
<1>1. PICK kind, x, sum, inner, atom, sum2, inner2, atom2 :
        /\ kind = At(ts, here.pos) /\ x = ts[here.pos].value
        /\ sum = f[<<"add_sub", Past(here)>>] /\ inner = f[<<"atom", Past(here)>>]
        /\ atom = ParseAtom(f, vs, ts, here)
        /\ sum2 = g[<<"add_sub", Past(here)>>] /\ inner2 = g[<<"atom", Past(here)>>]
        /\ atom2 = ParseAtom(g, vs, ts, here)
  OBVIOUS
<1>2. AtomCases(vs, ts, here, kind, x, sum, inner, atom) /\ AtomCases(vs, ts, here, kind, x, sum2, inner2, atom2)
  BY <1>1, AtomIs
<1>3. ASSUME kind # "end"  PROVE sum = sum2 /\ inner = inner2
  <2>1. "atom" \in Rules /\ "add_sub" \in Rules
    BY DEF Rules
  <2>2. /\ Past(here) \in Results
        /\ CallSize(ts)[<<"add_sub", Past(here)>>] < CallSize(ts)[<<"atom", here>>]
        /\ CallSize(ts)[<<"atom", Past(here)>>] < CallSize(ts)[<<"atom", here>>]
    BY <1>1, <1>3, <2>1, NextCall
  <2>3. sum = sum2
    BY <1>1, <2>1, <2>2, AgreeAt
  <2>4. inner = inner2
    BY <1>1, <2>1, <2>2, AgreeAt
  <2> QED BY <2>3, <2>4
<1>4. CASE kind = "end"
  BY <1>1, <1>2, <1>4 DEF AtomCases
<1>5. CASE kind # "end"
  <2>1. sum = sum2 /\ inner = inner2
    BY <1>3, <1>5
  <2>2. atom = atom2
    BY <1>2, <1>5, <2>1 DEF AtomCases, Kinds
  <2> QED BY <1>1, <2>2
<1> QED BY <1>4, <1>5

(* ... so does the loop of parse_mul_div, ...                                 *)
LEMMA ProductLooks ==
  ASSUME NEW ts \in Seq(Tokens), NEW f, NEW g \in Parses, NEW left \in Results,
         Agree(ts, f, g, "mul_div_rest", left)
  PROVE  MulDivRest(f, ts, left) = MulDivRest(g, ts, left)
<1>1. PICK kind, right, product, right2, product2 :
        /\ kind = At(ts, left.pos) /\ right = f[<<"atom", Past(left)>>]
        /\ product = MulDivRest(f, ts, left)
        /\ right2 = g[<<"atom", Past(left)>>] /\ product2 = MulDivRest(g, ts, left)
  OBVIOUS
<1>2. ProductCases(f, left, kind, right, product) /\ ProductCases(g, left, kind, right2, product2)
  BY <1>1, ProductIs
<1>3. CASE kind \in {"*", "/"}
  <2>1. "atom" \in Rules /\ "mul_div_rest" \in Rules /\ kind # "end"
    BY <1>3 DEF Rules
  <2>2. /\ Past(left) \in Results
        /\ CallSize(ts)[<<"atom", Past(left)>>] < CallSize(ts)[<<"mul_div_rest", left>>]
    BY <1>1, <2>1, NextCall
  <2>3. right = right2
    BY <1>1, <2>1, <2>2, AgreeAt
  <2>4. /\ left.pos <= Len(ts) /\ right.pos \in Nat \ {0} /\ right.v \in Int /\ right.error \in Errors
        /\ right.pos >= left.pos + 1
    <3>1. /\ left.pos <= Len(ts) /\ right2.pos \in Nat \ {0} /\ right2.v \in Int /\ right2.error \in Errors
          /\ right2.pos >= left.pos + 1
      BY <1>1, <2>1, NextCall
    <3> QED BY <2>3, <3>1
  <2>5. ASSUME NEW v \in Int
        PROVE  f[<<"mul_div_rest", Result(right.pos, v, right.error)>>]
               = g[<<"mul_div_rest", Result(right.pos, v, right.error)>>]
    <3>1. PICK there : there = Result(right.pos, v, right.error)
      OBVIOUS
    <3>2. there \in Results /\ there.pos = right.pos
      BY <2>4, <3>1, Made
    <3>3. CallSize(ts)[<<"mul_div_rest", there>>] < CallSize(ts)[<<"mul_div_rest", left>>]
      BY <2>1, <2>4, <3>2, SmallerCall
    <3> QED BY <2>1, <3>1, <3>2, <3>3, AgreeAt
  <2>6. left.v \in Int
    BY Fields
  <2>7. left.v * right.v \in Int /\ (right.v # 0 => Quotient(left.v, right.v) \in Int)
    <3>1. left.v * right.v \in Int
      BY <2>4, <2>6
    <3> QED BY <2>4, <2>6, <3>1, QuotientInt
  <2>8. product = product2
    BY <1>2, <1>3, <2>3, <2>5, <2>7 DEF ProductCases
  <2> QED BY <1>1, <2>8
<1>4. CASE kind \notin {"*", "/"}
  BY <1>1, <1>2, <1>4 DEF ProductCases
<1> QED BY <1>3, <1>4

(* ... and the loop of parse_add_sub, ...                                     *)
LEMMA SumLooks ==
  ASSUME NEW ts \in Seq(Tokens), NEW f, NEW g \in Parses, NEW left \in Results,
         Agree(ts, f, g, "add_sub_rest", left)
  PROVE  AddSubRest(f, ts, left) = AddSubRest(g, ts, left)
<1>1. PICK kind, right, sum, right2, sum2 :
        /\ kind = At(ts, left.pos) /\ right = f[<<"mul_div", Past(left)>>]
        /\ sum = AddSubRest(f, ts, left)
        /\ right2 = g[<<"mul_div", Past(left)>>] /\ sum2 = AddSubRest(g, ts, left)
  OBVIOUS
<1>2. SumCases(f, left, kind, right, sum) /\ SumCases(g, left, kind, right2, sum2)
  BY <1>1, SumIs
<1>3. CASE kind \in {"+", "-"}
  <2>1. "mul_div" \in Rules /\ "add_sub_rest" \in Rules /\ kind # "end"
    BY <1>3 DEF Rules
  <2>2. /\ Past(left) \in Results
        /\ CallSize(ts)[<<"mul_div", Past(left)>>] < CallSize(ts)[<<"add_sub_rest", left>>]
    BY <1>1, <2>1, NextCall
  <2>3. right = right2
    BY <1>1, <2>1, <2>2, AgreeAt
  <2>4. /\ left.pos <= Len(ts) /\ right.pos \in Nat \ {0} /\ right.v \in Int /\ right.error \in Errors
        /\ right.pos >= left.pos + 1
    <3>1. /\ left.pos <= Len(ts) /\ right2.pos \in Nat \ {0} /\ right2.v \in Int /\ right2.error \in Errors
          /\ right2.pos >= left.pos + 1
      BY <1>1, <2>1, NextCall
    <3> QED BY <2>3, <3>1
  <2>5. ASSUME NEW v \in Int
        PROVE  f[<<"add_sub_rest", Result(right.pos, v, right.error)>>]
               = g[<<"add_sub_rest", Result(right.pos, v, right.error)>>]
    <3>1. PICK there : there = Result(right.pos, v, right.error)
      OBVIOUS
    <3>2. there \in Results /\ there.pos = right.pos
      BY <2>4, <3>1, Made
    <3>3. CallSize(ts)[<<"add_sub_rest", there>>] < CallSize(ts)[<<"add_sub_rest", left>>]
      BY <2>1, <2>4, <3>2, SmallerCall
    <3> QED BY <2>1, <3>1, <3>2, <3>3, AgreeAt
  <2>6. left.v \in Int
    BY Fields
  <2>7. left.v + right.v \in Int /\ left.v - right.v \in Int
    BY <2>4, <2>6
  <2>8. sum = sum2
    BY <1>2, <1>3, <2>3, <2>5, <2>7 DEF SumCases
  <2> QED BY <1>1, <2>8
<1>4. CASE kind \notin {"+", "-"}
  BY <1>1, <1>2, <1>4 DEF SumCases
<1> QED BY <1>3, <1>4

(* A method that calls one of a lower level and then a loop. *)
LEMMA RunLooks ==
  ASSUME NEW ts \in Seq(Tokens), NEW f, NEW g \in Parses, NEW here \in Results, NEW rule \in Rules,
         Agree(ts, f, g, rule, here), NEW rule2 \in Rules, NEW rule3 \in Rules,
         Level(rule2) < Level(rule), Level(rule3) < Level(rule)
  PROVE  f[<<rule3, f[<<rule2, here>>]>>] = g[<<rule3, g[<<rule2, here>>]>>]
<1>1. here.pos \in Nat /\ here.pos >= here.pos
  BY Fields
<1>2. CallSize(ts)[<<rule2, here>>] < CallSize(ts)[<<rule, here>>]
  BY <1>1, SmallerCall
<1>3. PICK there : there = f[<<rule2, here>>]
  OBVIOUS
<1>4. there = g[<<rule2, here>>]
  BY <1>2, <1>3, AgreeAt
<1>5. there \in Results /\ there.pos >= here.pos
  BY <1>4, CallGives
<1>6. CallSize(ts)[<<rule3, there>>] < CallSize(ts)[<<rule, here>>]
  BY <1>5, SmallerCall
<1>7. f[<<rule3, there>>] = g[<<rule3, there>>]
  BY <1>5, <1>6, AgreeAt
<1> QED BY <1>3, <1>4, <1>7

(* ... and all of them.                                                       *)
LEMMA ReturnedLooks ==
  ASSUME NEW vs, NEW ts \in Seq(Tokens), NEW f, NEW g \in Parses, NEW rule \in Rules, NEW here \in Results,
         Agree(ts, f, g, rule, here)
  PROVE  Returned(f, vs, ts, rule, here) = Returned(g, vs, ts, rule, here)
<1>1. CASE rule = "add_sub"
  <2>1. {"mul_div", "add_sub_rest"} \subseteq Rules /\ Level("mul_div") < Level(rule) /\ Level("add_sub_rest") < Level(rule)
    BY <1>1 DEF Rules, Level
  <2>2. ParseAddSub(f, here) = ParseAddSub(g, here)
    BY <2>1, RunLooks DEF ParseAddSub
  <2> QED BY <1>1, <2>2, ReturnedIs
<1>2. CASE rule = "add_sub_rest"
  BY <1>2, ReturnedIs, SumLooks
<1>3. CASE rule = "mul_div"
  <2>1. {"atom", "mul_div_rest"} \subseteq Rules /\ Level("atom") < Level(rule) /\ Level("mul_div_rest") < Level(rule)
    BY <1>3 DEF Rules, Level
  <2>2. ParseMulDiv(f, here) = ParseMulDiv(g, here)
    BY <2>1, RunLooks DEF ParseMulDiv
  <2> QED BY <1>3, <2>2, ReturnedIs
<1>4. CASE rule = "mul_div_rest"
  BY <1>4, ReturnedIs, ProductLooks
<1>5. CASE rule = "atom"
  BY <1>5, ReturnedIs, AtomLooks
<1> QED BY <1>1, <1>2, <1>3, <1>4, <1>5 DEF Rules

(* parse does what the methods do. *)
Does(parse, vs, ts) ==
  /\ parse \in Parses
  /\ \A rule \in Rules : \A here \in Results :
       parse[<<rule, here>>] = Returned(parse, vs, ts, rule, here)

(* The evaluator is a function that does what the methods do. *)
LEMMA EvaluatorIs ==
  ASSUME NEW vs, HasValues(vs), NEW ts \in Seq(Tokens)
  PROVE  \E parse : Does(parse, vs, ts) /\ ParseAll(vs, ts) = parse[<<"add_sub", Result(1, 0, NoError)>>]
<1>1. PICK G : G = [f \in Parses |-> [call \in Calls |-> Returned(f, vs, ts, call[1], call[2])]]
  OBVIOUS
<1>2. \A call \in Calls : call[1] \in Rules /\ call[2] \in Results /\ call = <<call[1], call[2]>>
  BY DEF Calls
<1>3. ASSUME NEW f \in Parses
      PROVE  G[f] \in Parses /\ \A call \in Calls : G[f][call] = Returned(f, vs, ts, call[1], call[2])
  <2>1. PICK h : h = [call \in Calls |-> Returned(f, vs, ts, call[1], call[2])]
    OBVIOUS
  <2>2. G[f] = h
    BY <1>1, <2>1
  <2>3. \A call \in Calls : h[call] \in Results /\ h[call].pos >= call[2].pos
    BY <1>2, <2>1, ReturnedGives
  <2>4. \A call \in Calls : h[call] \in Onward[call]
    BY <2>3 DEF Onward
  <2>5. h \in [Calls -> Results]
    BY <2>1, <2>3
  <2>6. h \in Parses
    BY <2>4, <2>5 DEF Parses, Allowed
  <2> QED BY <2>1, <2>2, <2>6
<1>4. ASSUME NEW f, NEW g \in Parses, NEW call \in Calls,
             \A y \in Calls : CallSize(ts)[y] < CallSize(ts)[call] => f[y] = g[y]
      PROVE  Returned(f, vs, ts, call[1], call[2]) = Returned(g, vs, ts, call[1], call[2])
  <2>1. PICK rule \in Rules, here \in Results : call = <<rule, here>> /\ rule = call[1] /\ here = call[2]
    BY <1>2
  <2>2. Agree(ts, f, g, rule, here)
    BY <1>4, <2>1 DEF Agree
  <2> QED BY <2>1, <2>2, ReturnedLooks
<1>5. Narrowing(Calls, Results, Onward, CallSize(ts), G)
  <2>1. CallSize(ts) \in [Calls -> Nat]
    BY CallSizeIs
  <2>2. G \in [Parses -> Parses]
    BY <1>1, <1>3
  <2>3. ASSUME NEW f \in Parses, NEW g \in Parses, NEW call \in Calls,
               \A y \in Calls : CallSize(ts)[y] < CallSize(ts)[call] => f[y] = g[y]
        PROVE  G[f][call] = G[g][call]
    BY <1>3, <1>4, <2>3
  <2> QED BY <2>1, <2>2, <2>3 DEF Narrowing, Parses
<1>6. \E f : f \in Parses
  <2>1. PICK f : f = [call \in Calls |-> call[2]]
    OBVIOUS
  <2>2. \A call \in Calls : call[2] \in Results /\ call[2].pos >= call[2].pos
    BY <1>2, Fields
  <2>3. f \in [Calls -> Results] /\ \A call \in Calls : f[call] \in Onward[call]
    BY <2>1, <2>2 DEF Onward
  <2> QED BY <2>3 DEF Parses, Allowed
<1>7. PICK solution \in Parses : \A call \in Calls : solution[call] = G[solution][call]
  BY <1>5, <1>6, Solution DEF Parses
<1> DEFINE Equation(f) == f = [call \in Rules \X Results |-> Returned(f, vs, ts, call[1], call[2])]
<1>8. Equation(solution)
  <2>1. \A call \in Calls : solution[call] = Returned(solution, vs, ts, call[1], call[2])
    BY <1>3, <1>7
  <2>2. solution = [call \in Calls |-> solution[call]]
    BY <1>7 DEF Parses, Allowed
  <2> QED BY <2>1, <2>2 DEF Calls
<1>9. PICK parse : parse = CHOOSE f : Equation(f)
  OBVIOUS
<1>10. Equation(parse)
  BY <1>8, <1>9
<1>11. ParseAll(vs, ts) = parse[<<"add_sub", Result(1, 0, NoError)>>]
  BY <1>9, Zenon DEF ParseAll
<1>12. parse = solution
  <2>1. /\ \A call \in Calls : parse[call] = Returned(parse, vs, ts, call[1], call[2])
        /\ \A call \in Calls : solution[call] = Returned(solution, vs, ts, call[1], call[2])
        /\ parse = [call \in Calls |-> parse[call]] /\ solution = [call \in Calls |-> solution[call]]
    BY <1>8, <1>10 DEF Calls
  <2> HIDE DEF Equation
  <2>2. PICK A : A = {k \in Nat : \A call \in Calls : CallSize(ts)[call] = k => parse[call] = solution[call]}
    OBVIOUS
  <2>3. \A call \in Calls : CallSize(ts)[call] \in Nat
    BY CallSizeIs
  <2>4. ASSUME NEW k \in Nat, \A j \in Nat : j < k => j \in A  PROVE k \in A
    <3>1. ASSUME NEW call \in Calls, CallSize(ts)[call] = k  PROVE parse[call] = solution[call]
      <4>1. \A y \in Calls : CallSize(ts)[y] < CallSize(ts)[call] => parse[y] = solution[y]
        BY <2>2, <2>3, <2>4, <3>1
      <4>2. Returned(parse, vs, ts, call[1], call[2]) = Returned(solution, vs, ts, call[1], call[2])
        BY <1>4, <4>1
      <4> QED BY <2>1, <4>2
    <3> QED BY <2>2, <3>1
  <2>5. \A k \in Nat : k \in A
    BY <2>4, AllSizes
  <2>6. \A call \in Calls : parse[call] = solution[call]
    BY <2>2, <2>3, <2>5
  <2> QED BY <2>1, <2>6
<1>13. ASSUME NEW rule \in Rules, NEW here \in Results
       PROVE  solution[<<rule, here>>] = Returned(solution, vs, ts, rule, here)
  <2>1. PICK call \in Calls : call = <<rule, here>>
    BY DEF Calls
  <2>2. call[1] = rule /\ call[2] = here
    BY <2>1
  <2>3. solution[call] = Returned(solution, vs, ts, call[1], call[2])
    BY <1>3, <1>7
  <2> QED BY <2>1, <2>2, <2>3
<1>14. Does(solution, vs, ts)
  BY <1>13 DEF Does
<1> HIDE DEF Equation
<1> QED BY <1>11, <1>12, <1>14

-------------------------------------------------------------------------------
(* The meaning. *)

Values == [ok : BOOLEAN, v : Int]
PartsOf(ts) == (1 .. Len(ts) + 1) \X (0 .. Len(ts))
PartSize(ts) == [part \in PartsOf(ts) |-> IF part[1] > part[2] THEN 0 ELSE part[2] - part[1] + 1]

(* A set of numbers that has a bound has a largest. *)
LEMMA HasLargest ==
  ASSUME NEW S, S # {}, NEW a \in Int, NEW b \in Int, S \subseteq a .. b
  PROVE  Max(S) \in S /\ \A j \in S : j <= Max(S)
<1>1. PICK D : D = {k \in Nat : b - k \in S}
  OBVIOUS
<1>2. D \in SUBSET Nat /\ D # {}
  <2>1. PICK j \in S : j \in a .. b
    OBVIOUS
  <2>2. b - j \in Nat /\ b - (b - j) = j
    BY <2>1
  <2> QED BY <1>1, <2>1, <2>2
<1>3. PICK m \in D : \A k \in D : m <= k
  BY <1>2, HasSmallest
<1>4. m \in Nat /\ b - m \in S
  BY <1>1
<1>5. ASSUME NEW j \in S  PROVE b - m >= j
  <2>1. j \in a .. b /\ b - j \in Nat /\ b - (b - j) = j
    OBVIOUS
  <2>2. b - j \in D
    BY <1>1, <2>1
  <2>3. m <= b - j
    BY <1>3, <2>2
  <2> QED BY <1>4, <2>1, <2>3
<1>6. \E x \in S : \A y \in S : x >= y
  BY <1>4, <1>5
<1>7. Max(S) \in S /\ \A y \in S : Max(S) >= y
  BY <1>6 DEF Max
<1>8. \A j \in S : j \in Int
  OBVIOUS
<1> QED BY <1>7, <1>8

(* The operator that splits a part lies in it and is the last.                *)
LEMMA SplitsIn ==
  ASSUME NEW ts \in Seq(Tokens), NEW from \in 1 .. Len(ts), NEW to \in 1 .. Len(ts), NEW ops,
         NEW S, S = Splits(ts, from, to, ops)
  PROVE  /\ S \subseteq from + 1 .. to - 1
         /\ \A i \in S : i \in 1 .. Len(ts) /\ ts[i].kind \in ops
         /\ S # {} => Max(S) \in S /\ \A j \in S : j <= Max(S)
<1>1. Len(ts) \in Nat /\ from + 1 \in Int /\ to - 1 \in Int
  OBVIOUS
<1>2. S \subseteq from + 1 .. to - 1 /\ \A i \in S : ts[i].kind \in ops
  BY DEF Splits
<1>3. \A i \in from + 1 .. to - 1 : i \in 1 .. Len(ts)
  BY <1>1
<1>4. S # {} => Max(S) \in S /\ \A j \in S : j <= Max(S)
  BY <1>1, <1>2, HasLargest
<1> QED BY <1>2, <1>3, <1>4

(* What a part means that no operator splits, for each token it may begin with. *)
SingleCases(vs, kind, last, x, one, rest, inner, m) ==
  /\ kind = "num" /\ one => m = Known(x)
  /\ kind = "ident" /\ one /\ x \in DOMAIN vs => m = Known(vs[x])
  /\ kind = "-" /\ rest.ok => m = Known(-rest.v)
  /\ kind = "(" /\ last = ")" => m = inner
  /\ \/ kind \in {"num", "ident"} /\ ~one
     \/ kind = "ident" /\ x \notin DOMAIN vs
     \/ kind = "-" /\ ~rest.ok
     \/ kind = "(" /\ last # ")"
     \/ kind \notin {"num", "ident", "-", "("}
     => m = Unknown

(* The meaning of a single value, case by case.                               *)
LEMMA SingleIs ==
  ASSUME NEW f, NEW vs, NEW ts, NEW from, NEW to
  PROVE  SingleCases(vs, ts[from].kind, ts[to].kind, ts[from].value, (from = to), f[<<from + 1, to>>],
                     f[<<from + 1, to - 1>>], SingleMeaning(f, vs, ts, from, to))
<1>1. PICK kind, last, x, rest, inner, m :
        /\ kind = ts[from].kind /\ last = ts[to].kind /\ x = ts[from].value
        /\ rest = f[<<from + 1, to>>] /\ inner = f[<<from + 1, to - 1>>]
        /\ m = SingleMeaning(f, vs, ts, from, to)
  OBVIOUS
<1>2. m = CASE kind = "num" /\ from = to -> Known(x)
            [] kind = "ident" /\ from = to /\ x \in DOMAIN vs -> Known(vs[x])
            [] kind = "-" /\ rest.ok -> Known(-rest.v)
            [] kind = "(" /\ last = ")" -> inner
            [] OTHER -> Unknown
  BY <1>1 DEF SingleMeaning
<1>3. SingleCases(vs, kind, last, x, (from = to), rest, inner, m)
  BY <1>2 DEF SingleCases
<1> QED BY <1>1, <1>3

(* What a part means: the operator that splits it last, or a single value. *)
MeaningCases(f, vs, ts, from, to, sums, products, m) ==
  /\ from > to => m = Unknown
  /\ from <= to /\ sums # {} =>
       m = Applied(ts[Max(sums)].kind, f[<<from, Max(sums) - 1>>], f[<<Max(sums) + 1, to>>])
  /\ from <= to /\ sums = {} /\ products # {} =>
       m = Applied(ts[Max(products)].kind, f[<<from, Max(products) - 1>>], f[<<Max(products) + 1, to>>])
  /\ from <= to /\ sums = {} /\ products = {} => m = SingleMeaning(f, vs, ts, from, to)

(* The meaning of a part, case by case.                                       *)
LEMMA MeaningOfIs ==
  ASSUME NEW f, NEW vs, NEW ts, NEW from \in Int, NEW to \in Int
  PROVE  MeaningCases(f, vs, ts, from, to, Splits(ts, from, to, {"+", "-"}), Splits(ts, from, to, {"*", "/"}),
                      MeaningOf(f, vs, ts, from, to))
BY DEF MeaningCases, MeaningOf

(* What an operator does to two meanings.                                     *)
LEMMA AppliedIs ==
  ASSUME NEW op \in {"+", "-", "*", "/"}, NEW a \in Values, NEW b \in Values
  PROVE  /\ Applied(op, a, b) \in Values
         /\ Applied(op, a, b).ok <=> a.ok /\ b.ok /\ ~(op = "/" /\ b.v = 0)
         /\ Applied(op, a, b).ok =>
              /\ op = "+" => Applied(op, a, b).v = a.v + b.v
              /\ op = "-" => Applied(op, a, b).v = a.v - b.v
              /\ op = "*" => Applied(op, a, b).v = a.v * b.v
              /\ op = "/" => b.v # 0 /\ Applied(op, a, b).v = Quotient(a.v, b.v)
<1>1. a.ok \in BOOLEAN /\ b.ok \in BOOLEAN /\ a.v \in Int /\ b.v \in Int
  BY DEF Values
<1>2. CASE ~a.ok \/ ~b.ok \/ (op = "/" /\ b.v = 0)
  BY <1>1, <1>2 DEF Applied, Unknown, Values
<1>3. CASE a.ok /\ b.ok /\ ~(op = "/" /\ b.v = 0)
  <2>1. PICK w : w = CASE op = "+" -> a.v + b.v [] op = "-" -> a.v - b.v
                       [] op = "*" -> a.v * b.v [] op = "/" -> Quotient(a.v, b.v)
    OBVIOUS
  <2>2. Applied(op, a, b) = Known(w)
    BY <1>3, <2>1 DEF Applied
  <2>3. /\ op = "+" => w = a.v + b.v
        /\ op = "-" => w = a.v - b.v
        /\ op = "*" => w = a.v * b.v
        /\ op = "/" => w = Quotient(a.v, b.v)
    BY <2>1
  <2>4. a.v + b.v \in Int /\ a.v - b.v \in Int
    BY <1>1
  <2>5. a.v * b.v \in Int
    BY <1>1
  <2>6. op = "/" => Quotient(a.v, b.v) \in Int
    BY <1>1, <1>3, QuotientInt
  <2>7. w \in Int
    BY <2>3, <2>4, <2>5, <2>6
  <2> QED BY <1>3, <2>2, <2>3, <2>7 DEF Known, Values
<1> QED BY <1>1, <1>2, <1>3

(* A part and its size.                                                       *)
LEMMA PartIn ==
  ASSUME NEW ts \in Seq(Tokens), NEW from \in 1 .. Len(ts) + 1, NEW to \in 0 .. Len(ts)
  PROVE  /\ <<from, to>> \in PartsOf(ts)
         /\ PartSize(ts)[<<from, to>>] = IF from > to THEN 0 ELSE to - from + 1
         /\ PartSize(ts)[<<from, to>>] \in Nat
<1>1. <<from, to>> \in PartsOf(ts)
  BY DEF PartsOf
<1>2. PartSize(ts)[<<from, to>>] = IF from > to THEN 0 ELSE to - from + 1
  BY <1>1 DEF PartSize
<1>3. Len(ts) \in Nat
  OBVIOUS
<1> QED BY <1>1, <1>2, <1>3

(* Parts inside of a part are smaller. *)
LEMMA SmallerParts ==
  ASSUME NEW ts \in Seq(Tokens), NEW from \in 1 .. Len(ts), NEW to \in 1 .. Len(ts), from <= to,
         NEW a \in from .. to + 1, NEW b \in from - 1 .. to, a # from \/ b # to
  PROVE  <<a, b>> \in PartsOf(ts) /\ PartSize(ts)[<<a, b>>] < PartSize(ts)[<<from, to>>]
<1>1. Len(ts) \in Nat
  OBVIOUS
<1>2. a \in 1 .. Len(ts) + 1 /\ b \in 0 .. Len(ts) /\ from \in 1 .. Len(ts) + 1 /\ to \in 0 .. Len(ts)
  BY <1>1
<1>3. /\ <<a, b>> \in PartsOf(ts) /\ PartSize(ts)[<<a, b>>] = IF a > b THEN 0 ELSE b - a + 1
      /\ PartSize(ts)[<<from, to>>] = IF from > to THEN 0 ELSE to - from + 1
  BY <1>2, PartIn
<1> QED BY <1>1, <1>3

(* The operator that splits a part, and the parts on its sides. *)
LEMMA SplitParts ==
  ASSUME NEW ts \in Seq(Tokens), NEW from \in 1 .. Len(ts), NEW to \in 1 .. Len(ts), from <= to, NEW ops,
         NEW S, S = Splits(ts, from, to, ops), S # {}, NEW i, i = Max(S)
  PROVE  /\ i \in from + 1 .. to - 1 /\ i \in 1 .. Len(ts) /\ i \in S /\ ts[i].kind \in ops
         /\ <<from, i - 1>> \in PartsOf(ts) /\ PartSize(ts)[<<from, i - 1>>] < PartSize(ts)[<<from, to>>]
         /\ <<i + 1, to>> \in PartsOf(ts) /\ PartSize(ts)[<<i + 1, to>>] < PartSize(ts)[<<from, to>>]
<1>1. i \in from + 1 .. to - 1 /\ i \in S /\ ts[i].kind \in ops /\ i \in 1 .. Len(ts)
  <2>1. i \in S
    BY SplitsIn
  <2> QED BY <2>1, SplitsIn
<1>2. /\ from \in from .. to + 1 /\ i - 1 \in from - 1 .. to /\ i - 1 # to
      /\ i + 1 \in from .. to + 1 /\ to \in from - 1 .. to /\ i + 1 # from
  BY <1>1
<1> QED BY <1>1, <1>2, SmallerParts

AgreeOn(ts, f, g, from, to) ==
  \A part \in PartsOf(ts) : PartSize(ts)[part] < PartSize(ts)[<<from, to>>] => f[part] = g[part]

(* What a part means is given by what the smaller parts mean ... *)
LEMMA MeaningLooks ==
  ASSUME NEW vs, NEW ts \in Seq(Tokens), NEW f, NEW g, NEW from \in 1 .. Len(ts) + 1, NEW to \in 0 .. Len(ts),
         AgreeOn(ts, f, g, from, to)
  PROVE  MeaningOf(f, vs, ts, from, to) = MeaningOf(g, vs, ts, from, to)
<1>1. PICK sums, products, m, m2 :
        /\ sums = Splits(ts, from, to, {"+", "-"}) /\ products = Splits(ts, from, to, {"*", "/"})
        /\ m = MeaningOf(f, vs, ts, from, to) /\ m2 = MeaningOf(g, vs, ts, from, to)
  OBVIOUS
<1>2. from \in Int /\ to \in Int /\ Len(ts) \in Nat
  OBVIOUS
<1>3. MeaningCases(f, vs, ts, from, to, sums, products, m) /\ MeaningCases(g, vs, ts, from, to, sums, products, m2)
  BY <1>1, <1>2, MeaningOfIs
<1>4. CASE from > to
  <2>1. m = m2
    BY <1>3, <1>4 DEF MeaningCases
  <2> QED BY <1>1, <2>1
<1>5. CASE from <= to
  <2>1. from \in 1 .. Len(ts) /\ to \in 1 .. Len(ts)
    BY <1>2, <1>5
  <2>2. CASE sums # {}
    <3>1. PICK i : i = Max(sums)
      OBVIOUS
    <3>2. f[<<from, i - 1>>] = g[<<from, i - 1>>] /\ f[<<i + 1, to>>] = g[<<i + 1, to>>]
      BY <1>1, <1>5, <2>1, <2>2, <3>1, SplitParts DEF AgreeOn
    <3>3. m = m2
      BY <1>3, <1>5, <2>2, <3>1, <3>2 DEF MeaningCases
    <3> QED BY <1>1, <3>3
  <2>3. CASE sums = {} /\ products # {}
    <3>1. PICK i : i = Max(products)
      OBVIOUS
    <3>2. f[<<from, i - 1>>] = g[<<from, i - 1>>] /\ f[<<i + 1, to>>] = g[<<i + 1, to>>]
      BY <1>1, <1>5, <2>1, <2>3, <3>1, SplitParts DEF AgreeOn
    <3>3. m = m2
      BY <1>3, <1>5, <2>3, <3>1, <3>2 DEF MeaningCases
    <3> QED BY <1>1, <3>3
  <2>4. CASE sums = {} /\ products = {}
    <3>1. /\ from + 1 \in from .. to + 1 /\ to \in from - 1 .. to /\ from + 1 # from
          /\ to - 1 \in from - 1 .. to
      BY <1>2, <1>5, <2>1
    <3>2. f[<<from + 1, to>>] = g[<<from + 1, to>>] /\ f[<<from + 1, to - 1>>] = g[<<from + 1, to - 1>>]
      BY <1>5, <2>1, <3>1, SmallerParts DEF AgreeOn
    <3>3. SingleMeaning(f, vs, ts, from, to) = SingleMeaning(g, vs, ts, from, to)
      BY <3>2 DEF SingleMeaning
    <3>4. m = m2
      BY <1>3, <1>5, <2>4, <3>3 DEF MeaningCases
    <3> QED BY <1>1, <3>4
  <2> QED BY <2>2, <2>3, <2>4
<1> QED BY <1>2, <1>4, <1>5

(* ... and is a value, or none. *)
LEMMA MeaningGives ==
  ASSUME NEW vs, HasValues(vs), NEW ts \in Seq(Tokens), NEW f \in [PartsOf(ts) -> Values],
         NEW from \in 1 .. Len(ts) + 1, NEW to \in 0 .. Len(ts)
  PROVE  MeaningOf(f, vs, ts, from, to) \in Values
<1>1. PICK sums, products, m :
        /\ sums = Splits(ts, from, to, {"+", "-"}) /\ products = Splits(ts, from, to, {"*", "/"})
        /\ m = MeaningOf(f, vs, ts, from, to)
  OBVIOUS
<1>2. from \in Int /\ to \in Int /\ Len(ts) \in Nat
  OBVIOUS
<1>3. MeaningCases(f, vs, ts, from, to, sums, products, m)
  BY <1>1, <1>2, MeaningOfIs
<1>4. Unknown \in Values /\ \A v \in Int : Known(v) \in Values
  BY DEF Unknown, Known, Values
<1>5. CASE from > to
  <2>1. m \in Values
    BY <1>3, <1>4, <1>5 DEF MeaningCases
  <2> QED BY <1>1, <2>1
<1>6. CASE from <= to
  <2>1. from \in 1 .. Len(ts) /\ to \in 1 .. Len(ts)
    BY <1>2, <1>6
  <2>2. CASE sums # {}
    <3>1. PICK i : i = Max(sums)
      OBVIOUS
    <3>2. /\ f[<<from, i - 1>>] \in Values /\ f[<<i + 1, to>>] \in Values
          /\ ts[i].kind \in {"+", "-", "*", "/"}
      <4>1. <<from, i - 1>> \in PartsOf(ts) /\ <<i + 1, to>> \in PartsOf(ts) /\ ts[i].kind \in {"+", "-"}
        BY <1>1, <1>6, <2>1, <2>2, <3>1, SplitParts
      <4> QED BY <4>1
    <3>3. m = Applied(ts[i].kind, f[<<from, i - 1>>], f[<<i + 1, to>>])
      BY <1>3, <1>6, <2>2, <3>1 DEF MeaningCases
    <3> QED BY <1>1, <3>2, <3>3, AppliedIs
  <2>3. CASE sums = {} /\ products # {}
    <3>1. PICK i : i = Max(products)
      OBVIOUS
    <3>2. /\ f[<<from, i - 1>>] \in Values /\ f[<<i + 1, to>>] \in Values
          /\ ts[i].kind \in {"+", "-", "*", "/"}
      <4>1. <<from, i - 1>> \in PartsOf(ts) /\ <<i + 1, to>> \in PartsOf(ts) /\ ts[i].kind \in {"*", "/"}
        <5>1. products # {} /\ products = Splits(ts, from, to, {"*", "/"})
          BY <1>1, <2>3
        <5> QED BY <1>6, <2>1, <3>1, <5>1, SplitParts
      <4> QED BY <4>1
    <3>3. m = Applied(ts[i].kind, f[<<from, i - 1>>], f[<<i + 1, to>>])
      BY <1>3, <1>6, <2>3, <3>1 DEF MeaningCases
    <3> QED BY <1>1, <3>2, <3>3, AppliedIs
  <2>4. CASE sums = {} /\ products = {}
    <3>1. PICK kind, last, x, one, rest, inner :
            /\ kind = ts[from].kind /\ last = ts[to].kind /\ x = ts[from].value
            /\ one = (from = to) /\ rest = f[<<from + 1, to>>] /\ inner = f[<<from + 1, to - 1>>]
      OBVIOUS
    <3>2. m = SingleMeaning(f, vs, ts, from, to)
      BY <1>3, <1>6, <2>4 DEF MeaningCases
    <3>3. SingleCases(vs, kind, last, x, one, rest, inner, m)
      BY <3>1, <3>2, SingleIs
    <3>4. kind = "num" => x \in Int
      <4>1. from \in Nat \ {0} /\ At(ts, from) = kind
        BY <1>2, <2>1, <3>1 DEF At
      <4> QED BY <3>1, <4>1, TokenAt
    <3>5. x \in DOMAIN vs => vs[x] \in Int
      BY DEF HasValues
    <3>6. rest \in Values /\ inner \in Values
      <4>1. /\ from + 1 \in from .. to + 1 /\ to \in from - 1 .. to /\ from + 1 # from
            /\ to - 1 \in from - 1 .. to
        BY <1>2, <1>6, <2>1
      <4>2. <<from + 1, to>> \in PartsOf(ts) /\ <<from + 1, to - 1>> \in PartsOf(ts)
        BY <1>6, <2>1, <4>1, SmallerParts
      <4> QED BY <3>1, <4>2
    <3>7. rest.v \in Int /\ -rest.v \in Int
      BY <3>6 DEF Values
    <3>8. m \in Values
      BY <1>4, <3>3, <3>4, <3>5, <3>6, <3>7 DEF SingleCases
    <3> QED BY <1>1, <3>8
  <2> QED BY <2>2, <2>3, <2>4
<1> QED BY <1>2, <1>5, <1>6

(* means is what the parts mean. *)
Means(means, vs, ts) ==
  /\ means \in [PartsOf(ts) -> Values]
  /\ \A from \in 1 .. Len(ts) + 1 : \A to \in 0 .. Len(ts) :
       means[<<from, to>>] = MeaningOf(means, vs, ts, from, to)

(* The meaning is a function of the parts that does what MeaningOf says.      *)
LEMMA MeaningIs ==
  ASSUME NEW vs, HasValues(vs), NEW ts \in Seq(Tokens)
  PROVE  \E means : Means(means, vs, ts) /\ Meaning(vs, ts) = means[<<1, Len(ts)>>]
<1> DEFINE Ps == PartsOf(ts)
<1>1. PICK G : G = [f \in [Ps -> Values] |-> [part \in Ps |-> MeaningOf(f, vs, ts, part[1], part[2])]]
  OBVIOUS
<1>2. PICK T : T = [part \in Ps |-> Values]
  OBVIOUS
<1>3. \A part \in Ps : part[1] \in 1 .. Len(ts) + 1 /\ part[2] \in 0 .. Len(ts) /\ part = <<part[1], part[2]>>
  BY DEF PartsOf
<1>4. PartSize(ts) \in [Ps -> Nat]
  <2>1. \A part \in Ps : (IF part[1] > part[2] THEN 0 ELSE part[2] - part[1] + 1) \in Nat
    <3>1. ASSUME NEW a \in 1 .. Len(ts) + 1, NEW b \in 0 .. Len(ts)
          PROVE  (IF a > b THEN 0 ELSE b - a + 1) \in Nat
      <4>1. Len(ts) \in Nat
        OBVIOUS
      <4> QED BY <4>1
    <3> QED BY <1>3, <3>1
  <2> QED BY <2>1 DEF PartSize
<1>5. ASSUME NEW f \in [Ps -> Values]
      PROVE  G[f] \in [Ps -> Values] /\ \A part \in Ps : G[f][part] = MeaningOf(f, vs, ts, part[1], part[2])
  <2>1. PICK h : h = [part \in Ps |-> MeaningOf(f, vs, ts, part[1], part[2])]
    OBVIOUS
  <2>2. G[f] = h
    BY <1>1, <2>1
  <2>3. \A part \in Ps : h[part] \in Values
    BY <1>3, <2>1, MeaningGives
  <2> QED BY <2>1, <2>2, <2>3
<1>6. ASSUME NEW f, NEW g, NEW part \in Ps, \A y \in Ps : PartSize(ts)[y] < PartSize(ts)[part] => f[y] = g[y]
      PROVE  MeaningOf(f, vs, ts, part[1], part[2]) = MeaningOf(g, vs, ts, part[1], part[2])
  <2>1. PICK from \in 1 .. Len(ts) + 1, to \in 0 .. Len(ts) : part = <<from, to>> /\ from = part[1] /\ to = part[2]
    BY <1>3
  <2>2. AgreeOn(ts, f, g, from, to)
    BY <1>6, <2>1 DEF AgreeOn
  <2> QED BY <2>1, <2>2, MeaningLooks
<1>7. Allowed(Ps, Values, T) = [Ps -> Values]
  BY <1>2 DEF Allowed
<1>8. Narrowing(Ps, Values, T, PartSize(ts), G)
  <2>1. G \in [[Ps -> Values] -> [Ps -> Values]]
    BY <1>1, <1>5
  <2>2. ASSUME NEW f \in [Ps -> Values], NEW g \in [Ps -> Values], NEW part \in Ps,
               \A y \in Ps : PartSize(ts)[y] < PartSize(ts)[part] => f[y] = g[y]
        PROVE  G[f][part] = G[g][part]
    BY <1>5, <1>6, <2>2
  <2> HIDE DEF Ps
  <2> QED BY <1>4, <1>7, <2>1, <2>2 DEF Narrowing
<1>9. \E f : f \in [Ps -> Values]
  <2>1. Unknown \in Values
    BY DEF Unknown, Values
  <2>2. [part \in Ps |-> Unknown] \in [Ps -> Values]
    BY <2>1
  <2> QED BY <2>2
<1>10. PICK solution \in [Ps -> Values] : \A part \in Ps : solution[part] = G[solution][part]
  BY <1>7, <1>8, <1>9, Solution
<1> DEFINE Equation(f) == f = [part \in (1 .. Len(ts) + 1) \X (0 .. Len(ts)) |-> MeaningOf(f, vs, ts, part[1], part[2])]
<1>11. Equation(solution)
  <2>1. \A part \in Ps : solution[part] = MeaningOf(solution, vs, ts, part[1], part[2])
    BY <1>5, <1>10
  <2>2. solution = [part \in Ps |-> solution[part]]
    BY <1>10
  <2> QED BY <2>1, <2>2 DEF PartsOf
<1>12. PICK means : means = CHOOSE f : Equation(f)
  OBVIOUS
<1>13. Equation(means)
  BY <1>11, <1>12
<1>14. Meaning(vs, ts) = means[<<1, Len(ts)>>]
  BY <1>12, Zenon DEF Meaning
<1>15. means = solution
  <2>1. /\ \A part \in Ps : means[part] = MeaningOf(means, vs, ts, part[1], part[2])
        /\ \A part \in Ps : solution[part] = MeaningOf(solution, vs, ts, part[1], part[2])
        /\ means = [part \in Ps |-> means[part]] /\ solution = [part \in Ps |-> solution[part]]
    BY <1>11, <1>13 DEF PartsOf
  <2> HIDE DEF Equation, Ps
  <2>2. PICK A : A = {k \in Nat : \A part \in Ps : PartSize(ts)[part] = k => means[part] = solution[part]}
    OBVIOUS
  <2>3. ASSUME NEW k \in Nat, \A j \in Nat : j < k => j \in A  PROVE k \in A
    <3>1. ASSUME NEW part \in Ps, PartSize(ts)[part] = k  PROVE means[part] = solution[part]
      <4>1. \A y \in Ps : PartSize(ts)[y] < PartSize(ts)[part] => means[y] = solution[y]
        BY <1>4, <2>2, <2>3, <3>1
      <4>2. MeaningOf(means, vs, ts, part[1], part[2]) = MeaningOf(solution, vs, ts, part[1], part[2])
        BY <1>6, <4>1
      <4> QED BY <2>1, <4>2
    <3> QED BY <2>2, <3>1
  <2>4. \A k \in Nat : k \in A
    BY <2>3, AllSizes
  <2>5. \A part \in Ps : means[part] = solution[part]
    BY <1>4, <2>2, <2>4
  <2> QED BY <2>1, <2>5
<1>16. ASSUME NEW from \in 1 .. Len(ts) + 1, NEW to \in 0 .. Len(ts)
       PROVE  solution[<<from, to>>] = MeaningOf(solution, vs, ts, from, to)
  <2>1. PICK part \in Ps : part = <<from, to>>
    BY DEF PartsOf
  <2>2. part[1] = from /\ part[2] = to
    BY <2>1
  <2>3. solution[part] = MeaningOf(solution, vs, ts, part[1], part[2])
    BY <1>5, <1>10
  <2> QED BY <2>1, <2>2, <2>3
<1>17. Means(solution, vs, ts)
  BY <1>10, <1>16 DEF Means
<1> HIDE DEF Equation, Ps
<1> QED BY <1>14, <1>15, <1>17

-------------------------------------------------------------------------------
(* What has been read is a piece of the expression: its brackets are closed   *)
(* and its last token ends a value.                                           *)

(* Only brackets change the depth, by one.                                    *)
LEMMA DepthSteps ==
  ASSUME NEW ts \in Seq(Tokens), NEW i \in 1 .. Len(ts)
  PROVE  /\ Depth(ts, i - 1) \in Int /\ Depth(ts, i) \in Int
         /\ ts[i].kind = "(" => Depth(ts, i) = Depth(ts, i - 1) + 1
         /\ ts[i].kind = ")" => Depth(ts, i) = Depth(ts, i - 1) - 1
         /\ ts[i].kind \notin {"(", ")"} => Depth(ts, i) = Depth(ts, i - 1)
<1> DEFINE UpTo(m, kind) == {j \in 1 .. m : ts[j].kind = kind}
<1>1. i \in Int /\ Len(ts) \in Nat
  OBVIOUS
<1>2. ASSUME NEW kind
      PROVE  /\ Cardinality(UpTo(i, kind)) \in Nat /\ Cardinality(UpTo(i - 1, kind)) \in Nat
             /\ ts[i].kind = kind => Cardinality(UpTo(i, kind)) = Cardinality(UpTo(i - 1, kind)) + 1
             /\ ts[i].kind # kind => Cardinality(UpTo(i, kind)) = Cardinality(UpTo(i - 1, kind))
  <2>1. PICK S, U : S = UpTo(i, kind) /\ U = UpTo(i - 1, kind)
    OBVIOUS
  <2>2. S \subseteq 1 .. i /\ U \subseteq 1 .. i /\ i \notin U
    BY <1>1, <2>1
  <2>3. IsFiniteSet(S) /\ IsFiniteSet(U)
    <3>1. IsFiniteSet(1 .. i)
      BY <1>1, FS_Interval
    <3> QED BY <2>2, <3>1, FS_Subset
  <2>4. Cardinality(S) \in Nat /\ Cardinality(U) \in Nat
    BY <2>3, FS_CardinalityType
  <2>5. CASE ts[i].kind = kind
    <3>1. S = U \cup {i}
      BY <1>1, <2>1, <2>5
    <3>2. Cardinality(S) = Cardinality(U) + 1
      BY <2>2, <2>3, <3>1, FS_AddElement
    <3> QED BY <2>1, <2>4, <2>5, <3>2
  <2>6. CASE ts[i].kind # kind
    <3>1. S = U
      BY <1>1, <2>1, <2>6
    <3> QED BY <2>1, <2>4, <2>6, <3>1
  <2> QED BY <2>5, <2>6
<1>3. /\ Depth(ts, i) = Cardinality(UpTo(i, "(")) - Cardinality(UpTo(i, ")"))
      /\ Depth(ts, i - 1) = Cardinality(UpTo(i - 1, "(")) - Cardinality(UpTo(i - 1, ")"))
  BY DEF Depth
<1>4. PICK o, e, o2, e2 :
        /\ o = Cardinality(UpTo(i, "(")) /\ e = Cardinality(UpTo(i, ")"))
        /\ o2 = Cardinality(UpTo(i - 1, "(")) /\ e2 = Cardinality(UpTo(i - 1, ")"))
  OBVIOUS
<1>5. o \in Nat /\ e \in Nat /\ o2 \in Nat /\ e2 \in Nat
  BY <1>2, <1>4
<1>6. /\ ts[i].kind = "(" => o = o2 + 1
      /\ ts[i].kind # "(" => o = o2
  BY <1>2, <1>4
<1>7. /\ ts[i].kind = ")" => e = e2 + 1
      /\ ts[i].kind # ")" => e = e2
  BY <1>2, <1>4
<1>8. Depth(ts, i) = o - e /\ Depth(ts, i - 1) = o2 - e2
  BY <1>3, <1>4
<1> HIDE DEF UpTo
<1> QED BY <1>5, <1>6, <1>7, <1>8

EndsValue == {"num", "ident", ")"}
Operators == {"+", "-", "*", "/"}

Piece(ts, a, b) ==
  /\ a \in 1 .. Len(ts) /\ b \in 1 .. Len(ts) /\ a <= b
  /\ Depth(ts, b) = Depth(ts, a - 1)
  /\ \A i \in a .. b : Depth(ts, i) >= Depth(ts, a - 1)
  /\ ts[b].kind \in EndsValue

(* Two pieces with an operator between them. *)
LEMMA JoinedPiece ==
  ASSUME NEW ts \in Seq(Tokens), NEW a, NEW b, NEW i \in 1 .. Len(ts),
         Piece(ts, a, i - 1), ts[i].kind \in Operators, Piece(ts, i + 1, b)
  PROVE  /\ Piece(ts, a, b) /\ a < i /\ i < b
         /\ Depth(ts, i) = Depth(ts, a - 1)
<1>1. /\ Len(ts) \in Nat /\ i \in Int /\ a \in 1 .. Len(ts) /\ b \in 1 .. Len(ts) /\ a <= i - 1 /\ i + 1 <= b
      /\ Depth(ts, i - 1) = Depth(ts, a - 1) /\ Depth(ts, b) = Depth(ts, (i + 1) - 1)
      /\ \A j \in a .. i - 1 : Depth(ts, j) >= Depth(ts, a - 1)
      /\ \A j \in i + 1 .. b : Depth(ts, j) >= Depth(ts, (i + 1) - 1)
      /\ ts[b].kind \in EndsValue
  BY DEF Piece
<1>2. (i + 1) - 1 = i /\ a < i /\ i < b
  BY <1>1
<1>3. Depth(ts, i) = Depth(ts, i - 1) /\ Depth(ts, i) \in Int
  BY DepthSteps DEF Operators
<1>4. Depth(ts, b) = Depth(ts, a - 1)
  BY <1>1, <1>2, <1>3
<1>5. ASSUME NEW j \in a .. b  PROVE Depth(ts, j) >= Depth(ts, a - 1)
  <2>1. j \in a .. i - 1 \/ j = i \/ j \in i + 1 .. b
    BY <1>1
  <2> QED BY <1>1, <1>2, <1>3, <2>1
<1> QED BY <1>1, <1>2, <1>3, <1>4, <1>5 DEF Piece

(* What splits two joined pieces: the operator, and what splits either.       *)
LEMMA JoinedSplits ==
  ASSUME NEW ts \in Seq(Tokens), NEW a, NEW b, NEW i \in 1 .. Len(ts),
         Piece(ts, a, i - 1), ts[i].kind \in Operators, Piece(ts, i + 1, b), NEW ops, ops \subseteq Operators
  PROVE  \A j : j \in Splits(ts, a, b, ops) <=>
                  \/ j \in Splits(ts, a, i - 1, ops)
                  \/ j = i /\ ts[i].kind \in ops
                  \/ j \in Splits(ts, i + 1, b, ops)
<1>1. /\ Len(ts) \in Nat /\ i \in Int /\ a \in 1 .. Len(ts) /\ b \in 1 .. Len(ts) /\ a <= i - 1 /\ i + 1 <= b
      /\ ts[i - 1].kind \in EndsValue /\ Depth(ts, i - 1) = Depth(ts, a - 1)
  BY DEF Piece
<1>2. Depth(ts, i) = Depth(ts, a - 1)
  BY JoinedPiece
<1>3. \A kind : ~(kind \in EndsValue /\ kind \in Operators)
  BY DEF EndsValue, Operators
<1>4. (i + 1) - 1 = i /\ (i - 1) - 1 = i - 2 /\ (i + 1) + 1 = i + 2
  BY <1>1
<1>5. /\ Splits(ts, a, b, ops) = {j \in a + 1 .. b - 1 : /\ ts[j].kind \in ops /\ Depth(ts, j) = Depth(ts, a - 1)
                                                         /\ ts[j - 1].kind \in EndsValue}
      /\ Splits(ts, a, i - 1, ops) = {j \in a + 1 .. i - 2 : /\ ts[j].kind \in ops /\ Depth(ts, j) = Depth(ts, a - 1)
                                                             /\ ts[j - 1].kind \in EndsValue}
      /\ Splits(ts, i + 1, b, ops) = {j \in i + 2 .. b - 1 : /\ ts[j].kind \in ops /\ Depth(ts, j) = Depth(ts, i)
                                                             /\ ts[j - 1].kind \in EndsValue}
  BY <1>4 DEF Splits, EndsValue
<1>6. ASSUME NEW j
      PROVE  j \in Splits(ts, a, b, ops) <=>
                  \/ j \in Splits(ts, a, i - 1, ops)
                  \/ j = i /\ ts[i].kind \in ops
                  \/ j \in Splits(ts, i + 1, b, ops)
  <2>1. \/ j \in a + 1 .. i - 2 \/ j = i - 1 \/ j = i \/ j = i + 1 \/ j \in i + 2 .. b - 1
        \/ j \notin a + 1 .. b - 1
    <3>1. SUFFICES ASSUME j \in a + 1 .. b - 1
                   PROVE  j \in a + 1 .. i - 2 \/ j = i - 1 \/ j = i \/ j = i + 1 \/ j \in i + 2 .. b - 1
      OBVIOUS
    <3>2. j \in Int /\ a \in Int /\ b \in Int
      BY <1>1, <3>1
    <3> QED BY <1>1, <3>1, <3>2
  <2>2. CASE j \in a + 1 .. i - 2
    <3>1. j \in a + 1 .. b - 1 /\ j # i /\ j \notin i + 2 .. b - 1
      BY <1>1, <2>2
    <3> QED BY <1>5, <2>2, <3>1
  <2>3. CASE j = i - 1
    <3>1. j # i /\ j \notin a + 1 .. i - 2 /\ j \notin i + 2 .. b - 1
      BY <1>1, <2>3
    <3>2. ts[j].kind \notin ops
      BY <1>1, <1>3, <2>3
    <3> QED BY <1>5, <3>1, <3>2
  <2>4. CASE j = i
    <3>1. j \in a + 1 .. b - 1
      BY <1>1, <2>4
    <3>2. ts[j - 1].kind \in EndsValue /\ Depth(ts, j) = Depth(ts, a - 1)
      BY <1>1, <1>2, <2>4
    <3>3. j \notin a + 1 .. i - 2 /\ j \notin i + 2 .. b - 1
      BY <1>1, <2>4
    <3> QED BY <1>5, <2>4, <3>1, <3>2, <3>3
  <2>5. CASE j = i + 1
    <3>1. j - 1 = i /\ j # i /\ j \notin a + 1 .. i - 2 /\ j \notin i + 2 .. b - 1
      BY <1>1, <2>5
    <3>2. ts[j - 1].kind \notin EndsValue
      BY <1>3, <3>1
    <3> QED BY <1>5, <3>1, <3>2
  <2>6. CASE j \in i + 2 .. b - 1
    <3>1. j \in a + 1 .. b - 1 /\ j # i /\ j \notin a + 1 .. i - 2
      BY <1>1, <2>6
    <3> QED BY <1>2, <1>5, <2>6, <3>1
  <2>7. CASE j \notin a + 1 .. b - 1
    <3>1. j # i /\ j \notin a + 1 .. i - 2 /\ j \notin i + 2 .. b - 1
      BY <1>1, <2>7
    <3> QED BY <1>5, <2>7, <3>1
  <2> QED BY <2>1, <2>2, <2>3, <2>4, <2>5, <2>6, <2>7
<1> QED BY <1>6

(* A piece behind a sign, and one in brackets, are pieces no operator splits. *)
LEMMA SignedPiece ==
  ASSUME NEW ts \in Seq(Tokens), NEW a \in 1 .. Len(ts), NEW b, ts[a].kind = "-", Piece(ts, a + 1, b)
  PROVE  /\ Piece(ts, a, b)
         /\ \A ops : Splits(ts, a, b, ops) \subseteq Splits(ts, a + 1, b, ops)
<1>1. /\ Len(ts) \in Nat /\ a \in Int /\ b \in 1 .. Len(ts) /\ a + 1 <= b /\ (a + 1) - 1 = a
      /\ Depth(ts, b) = Depth(ts, (a + 1) - 1) /\ ts[b].kind \in EndsValue
      /\ \A j \in a + 1 .. b : Depth(ts, j) >= Depth(ts, (a + 1) - 1)
  BY DEF Piece
<1>2. Depth(ts, a) = Depth(ts, a - 1) /\ Depth(ts, a) \in Int
  BY DepthSteps
<1>3. ASSUME NEW j \in a .. b  PROVE Depth(ts, j) >= Depth(ts, a - 1)
  <2>1. j = a \/ j \in a + 1 .. b
    BY <1>1
  <2> QED BY <1>1, <1>2, <2>1
<1>4. ASSUME NEW ops, NEW j \in Splits(ts, a, b, ops)  PROVE j \in Splits(ts, a + 1, b, ops)
  <2>1. j \in a + 1 .. b - 1 /\ ts[j].kind \in ops /\ Depth(ts, j) = Depth(ts, a - 1) /\ ts[j - 1].kind \in EndsValue
    BY DEF Splits, EndsValue
  <2>2. j # a + 1
    <3>1. j = a + 1 => j - 1 = a
      BY <1>1
    <3> QED BY <2>1, <3>1 DEF EndsValue
  <2>3. j \in (a + 1) + 1 .. b - 1
    BY <1>1, <2>1, <2>2
  <2> QED BY <1>1, <1>2, <2>1, <2>3 DEF Splits, EndsValue
<1>5. a <= b /\ Depth(ts, b) = Depth(ts, a - 1)
  BY <1>1, <1>2
<1> QED BY <1>1, <1>3, <1>4, <1>5 DEF Piece

(* A piece in brackets is a piece that nothing splits.                        *)
LEMMA BracketPiece ==
  ASSUME NEW ts \in Seq(Tokens), NEW a \in 1 .. Len(ts), NEW b \in 1 .. Len(ts),
         ts[a].kind = "(", Piece(ts, a + 1, b - 1), ts[b].kind = ")"
  PROVE  /\ Piece(ts, a, b)
         /\ \A ops : Splits(ts, a, b, ops) = {}
<1>1. /\ Len(ts) \in Nat /\ a \in Int /\ b \in Int /\ a + 1 <= b - 1 /\ (a + 1) - 1 = a
      /\ Depth(ts, b - 1) = Depth(ts, (a + 1) - 1)
      /\ \A j \in a + 1 .. b - 1 : Depth(ts, j) >= Depth(ts, (a + 1) - 1)
  BY DEF Piece
<1>2. Depth(ts, a) = Depth(ts, a - 1) + 1 /\ Depth(ts, a - 1) \in Int
  BY DepthSteps
<1>3. Depth(ts, b) = Depth(ts, b - 1) - 1
  BY DepthSteps
<1>4. Depth(ts, b) = Depth(ts, a - 1)
  BY <1>1, <1>2, <1>3
<1>5. ASSUME NEW j \in a + 1 .. b - 1  PROVE Depth(ts, j) > Depth(ts, a - 1)
  <2>1. j \in 1 .. Len(ts)
    BY <1>1
  <2>2. Depth(ts, j) \in Int
    BY <2>1, DepthSteps
  <2>3. Depth(ts, j) >= Depth(ts, a)
    BY <1>1
  <2> QED BY <1>2, <2>2, <2>3
<1>6. ASSUME NEW j \in a .. b  PROVE Depth(ts, j) >= Depth(ts, a - 1)
  <2>1. j = a \/ j = b \/ j \in a + 1 .. b - 1
    BY <1>1
  <2>2. j \in 1 .. Len(ts)
    BY <1>1
  <2>3. Depth(ts, j) \in Int
    BY <2>2, DepthSteps
  <2> QED BY <1>2, <1>4, <1>5, <2>1, <2>3
<1>7. a <= b
  BY <1>1
<1>8. ASSUME NEW ops  PROVE Splits(ts, a, b, ops) = {}
  BY <1>2, <1>5 DEF Splits
<1> QED BY <1>4, <1>6, <1>7, <1>8 DEF Piece, EndsValue

(* A number or a name is a piece that nothing splits.                         *)
LEMMA TokenPiece ==
  ASSUME NEW ts \in Seq(Tokens), NEW a \in 1 .. Len(ts), ts[a].kind \in {"num", "ident"}
  PROVE  Piece(ts, a, a) /\ \A ops : Splits(ts, a, a, ops) = {}
<1>1. a \in Int /\ a <= a /\ a .. a = {a} /\ a + 1 .. a - 1 = {}
  OBVIOUS
<1>2. Depth(ts, a) = Depth(ts, a - 1) /\ Depth(ts, a) \in Int
  BY DepthSteps
<1>3. Piece(ts, a, a)
  BY <1>1, <1>2 DEF Piece, EndsValue
<1> QED BY <1>1, <1>3 DEF Splits

(* The tokens from a up to p are a sum, a product or a single value, and v is *)
(* what they mean.                                                            *)
SumUpTo(means, ts, a, p, v) == Piece(ts, a, p - 1) /\ means[<<a, p - 1>>] = Known(v)
ProductUpTo(means, ts, a, p, v) == SumUpTo(means, ts, a, p, v) /\ Splits(ts, a, p - 1, {"+", "-"}) = {}
AtomUpTo(means, ts, a, p, v) == ProductUpTo(means, ts, a, p, v) /\ Splits(ts, a, p - 1, {"*", "/"}) = {}

(* The meaning of a part of the expression, case by case.                     *)
LEMMA MeansAt ==
  ASSUME NEW vs, NEW ts \in Seq(Tokens), NEW means, Means(means, vs, ts),
         NEW a \in 1 .. Len(ts), NEW b \in 1 .. Len(ts)
  PROVE  /\ means[<<a, b>>] \in Values
         /\ MeaningCases(means, vs, ts, a, b, Splits(ts, a, b, {"+", "-"}), Splits(ts, a, b, {"*", "/"}), means[<<a, b>>])
<1>1. Len(ts) \in Nat /\ a \in Int /\ b \in Int /\ a \in 1 .. Len(ts) + 1 /\ b \in 0 .. Len(ts)
  OBVIOUS
<1>2. means[<<a, b>>] = MeaningOf(means, vs, ts, a, b)
  BY <1>1 DEF Means
<1>3. means[<<a, b>>] \in Values
  BY <1>1, PartIn DEF Means
<1> QED BY <1>1, <1>2, <1>3, MeaningOfIs

(* Max is the largest.                                                        *)
LEMMA LargestIs ==
  ASSUME NEW S, NEW i \in S, \A j \in S : j \in Int /\ j <= i
  PROVE  Max(S) = i
<1>1. i \in Int /\ \A y \in S : i >= y
  OBVIOUS
<1>2. PICK m : m = Max(S)
  OBVIOUS
<1>3. m \in S /\ \A y \in S : m >= y
  BY <1>1, <1>2 DEF Max
<1>4. m \in Int /\ m <= i /\ m >= i
  BY <1>1, <1>3
<1> QED BY <1>1, <1>2, <1>4

(* A known value is a value that is known.                                    *)
LEMMA KnownIs ==
  ASSUME NEW v \in Int
  PROVE  Known(v) \in Values /\ Known(v).ok = TRUE /\ Known(v).v = v
BY DEF Known, Values

(* What an operator does to two known values.                                 *)
LEMMA AppliedKnown ==
  ASSUME NEW v \in Int, NEW w \in Int
  PROVE  /\ Applied("+", Known(v), Known(w)) = Known(v + w)
         /\ Applied("-", Known(v), Known(w)) = Known(v - w)
         /\ Applied("*", Known(v), Known(w)) = Known(v * w)
         /\ w # 0 => Applied("/", Known(v), Known(w)) = Known(Quotient(v, w))
BY KnownIs DEF Applied

(* A product and a factor. *)
LEMMA ProductJoins ==
  ASSUME NEW vs, NEW ts \in Seq(Tokens), NEW means, Means(means, vs, ts), NEW a, NEW i \in 1 .. Len(ts), NEW q \in Int,
         NEW v \in Int, NEW w \in Int, ts[i].kind \in {"*", "/"},
         ProductUpTo(means, ts, a, i, v), AtomUpTo(means, ts, i + 1, q, w)
  PROVE  /\ ts[i].kind = "*" => ProductUpTo(means, ts, a, q, v * w)
         /\ ts[i].kind = "/" /\ w # 0 => ProductUpTo(means, ts, a, q, Quotient(v, w))
<1>1. PICK b : b = q - 1
  OBVIOUS
<1>2. /\ Piece(ts, a, i - 1) /\ Piece(ts, i + 1, b) /\ ts[i].kind \in Operators
      /\ Splits(ts, a, i - 1, {"+", "-"}) = {} /\ Splits(ts, i + 1, b, {"+", "-"}) = {}
      /\ Splits(ts, i + 1, b, {"*", "/"}) = {}
      /\ means[<<a, i - 1>>] = Known(v) /\ means[<<i + 1, b>>] = Known(w)
  BY <1>1 DEF ProductUpTo, AtomUpTo, SumUpTo, Operators
<1>3. Piece(ts, a, b) /\ a < i /\ i < b
  BY <1>2, JoinedPiece
<1>4. a \in 1 .. Len(ts) /\ b \in 1 .. Len(ts) /\ a <= b
  BY <1>3 DEF Piece
<1>5. PICK sums, products : sums = Splits(ts, a, b, {"+", "-"}) /\ products = Splits(ts, a, b, {"*", "/"})
  OBVIOUS
<1>6. sums = {}
  <2>1. {"+", "-"} \subseteq Operators /\ ts[i].kind \notin {"+", "-"}
    BY DEF Operators
  <2>2. \A j : j \in sums <=> \/ j \in Splits(ts, a, i - 1, {"+", "-"})
                              \/ j = i /\ ts[i].kind \in {"+", "-"}
                              \/ j \in Splits(ts, i + 1, b, {"+", "-"})
    BY <1>2, <1>5, <2>1, JoinedSplits
  <2> QED BY <1>2, <2>1, <2>2
<1>7. i \in products /\ \A j \in products : j \in Int /\ j <= i
  <2>1. {"*", "/"} \subseteq Operators
    BY DEF Operators
  <2>2. \A j : j \in products <=> \/ j \in Splits(ts, a, i - 1, {"*", "/"})
                                  \/ j = i /\ ts[i].kind \in {"*", "/"}
                                  \/ j \in Splits(ts, i + 1, b, {"*", "/"})
    BY <1>2, <1>5, <2>1, JoinedSplits
  <2>3. \A j \in Splits(ts, a, i - 1, {"*", "/"}) : j \in a + 1 .. i - 1 - 1
    BY DEF Splits
  <2>4. \A j \in a + 1 .. i - 1 - 1 : j \in Int /\ j <= i
    BY <1>4
  <2> QED BY <1>2, <2>2, <2>3, <2>4
<1>8. Max(products) = i
  BY <1>7, LargestIs
<1>9. means[<<a, b>>] = Applied(ts[i].kind, Known(v), Known(w))
  <2>1. products # {}
    BY <1>7
  <2>2. means[<<a, b>>] = Applied(ts[Max(products)].kind, means[<<a, Max(products) - 1>>], means[<<Max(products) + 1, b>>])
    <3>1. MeaningCases(means, vs, ts, a, b, sums, products, means[<<a, b>>])
      BY <1>4, <1>5, MeansAt
    <3> QED BY <1>4, <1>6, <2>1, <3>1 DEF MeaningCases
  <2> QED BY <1>2, <1>8, <2>2
<1>10. /\ ts[i].kind = "*" => means[<<a, b>>] = Known(v * w)
       /\ ts[i].kind = "/" /\ w # 0 => means[<<a, b>>] = Known(Quotient(v, w))
  BY <1>9, AppliedKnown
<1> QED BY <1>1, <1>3, <1>5, <1>6, <1>10 DEF ProductUpTo, SumUpTo

(* A sum and a product. *)
LEMMA SumJoins ==
  ASSUME NEW vs, NEW ts \in Seq(Tokens), NEW means, Means(means, vs, ts), NEW a, NEW i \in 1 .. Len(ts), NEW q \in Int,
         NEW v \in Int, NEW w \in Int, ts[i].kind \in {"+", "-"},
         SumUpTo(means, ts, a, i, v), ProductUpTo(means, ts, i + 1, q, w)
  PROVE  /\ ts[i].kind = "+" => SumUpTo(means, ts, a, q, v + w)
         /\ ts[i].kind = "-" => SumUpTo(means, ts, a, q, v - w)
<1>1. PICK b : b = q - 1
  OBVIOUS
<1>2. /\ Piece(ts, a, i - 1) /\ Piece(ts, i + 1, b) /\ ts[i].kind \in Operators
      /\ Splits(ts, i + 1, b, {"+", "-"}) = {}
      /\ means[<<a, i - 1>>] = Known(v) /\ means[<<i + 1, b>>] = Known(w)
  BY <1>1 DEF ProductUpTo, SumUpTo, Operators
<1>3. Piece(ts, a, b) /\ a < i /\ i < b
  BY <1>2, JoinedPiece
<1>4. a \in 1 .. Len(ts) /\ b \in 1 .. Len(ts) /\ a <= b
  BY <1>3 DEF Piece
<1>5. PICK sums : sums = Splits(ts, a, b, {"+", "-"})
  OBVIOUS
<1>6. i \in sums /\ \A j \in sums : j \in Int /\ j <= i
  <2>1. {"+", "-"} \subseteq Operators
    BY DEF Operators
  <2>2. \A j : j \in sums <=> \/ j \in Splits(ts, a, i - 1, {"+", "-"})
                              \/ j = i /\ ts[i].kind \in {"+", "-"}
                              \/ j \in Splits(ts, i + 1, b, {"+", "-"})
    BY <1>2, <1>5, <2>1, JoinedSplits
  <2>3. \A j \in Splits(ts, a, i - 1, {"+", "-"}) : j \in a + 1 .. i - 1 - 1
    BY DEF Splits
  <2>4. \A j \in a + 1 .. i - 1 - 1 : j \in Int /\ j <= i
    BY <1>4
  <2> QED BY <1>2, <2>2, <2>3, <2>4
<1>7. Max(sums) = i
  BY <1>6, LargestIs
<1>8. means[<<a, b>>] = Applied(ts[i].kind, Known(v), Known(w))
  <2>1. sums # {}
    BY <1>6
  <2>2. means[<<a, b>>] = Applied(ts[Max(sums)].kind, means[<<a, Max(sums) - 1>>], means[<<Max(sums) + 1, b>>])
    <3>1. MeaningCases(means, vs, ts, a, b, sums, Splits(ts, a, b, {"*", "/"}), means[<<a, b>>])
      BY <1>4, <1>5, MeansAt
    <3> QED BY <1>4, <2>1, <3>1 DEF MeaningCases
  <2> QED BY <1>2, <1>7, <2>2
<1>9. /\ ts[i].kind = "+" => means[<<a, b>>] = Known(v + w)
      /\ ts[i].kind = "-" => means[<<a, b>>] = Known(v - w)
  BY <1>8, AppliedKnown
<1> QED BY <1>1, <1>3, <1>9 DEF SumUpTo

(* The single values. *)
LEMMA SingleUpTo ==
  ASSUME NEW vs, NEW ts \in Seq(Tokens), NEW means, Means(means, vs, ts), NEW a, NEW q \in Int, NEW v,
         Piece(ts, a, q - 1), Splits(ts, a, q - 1, {"+", "-"}) = {}, Splits(ts, a, q - 1, {"*", "/"}) = {},
         SingleMeaning(means, vs, ts, a, q - 1) = Known(v)
  PROVE  AtomUpTo(means, ts, a, q, v)
<1>1. PICK b : b = q - 1
  OBVIOUS
<1>2. a \in 1 .. Len(ts) /\ b \in 1 .. Len(ts) /\ a <= b
  BY <1>1 DEF Piece
<1>3. means[<<a, b>>] = SingleMeaning(means, vs, ts, a, b)
  <2>1. MeaningCases(means, vs, ts, a, b, Splits(ts, a, b, {"+", "-"}), Splits(ts, a, b, {"*", "/"}), means[<<a, b>>])
    BY <1>2, MeansAt
  <2> QED BY <1>1, <1>2, <2>1 DEF MeaningCases
<1> QED BY <1>1, <1>3 DEF AtomUpTo, ProductUpTo, SumUpTo

(* A sign and a value are a value.                                            *)
LEMMA SignedUpTo ==
  ASSUME NEW vs, NEW ts \in Seq(Tokens), NEW means, Means(means, vs, ts), NEW a \in 1 .. Len(ts), NEW q \in Int,
         NEW v \in Int, ts[a].kind = "-", AtomUpTo(means, ts, a + 1, q, v)
  PROVE  AtomUpTo(means, ts, a, q, -v)
<1>1. PICK b : b = q - 1
  OBVIOUS
<1>2. /\ Piece(ts, a + 1, b) /\ means[<<a + 1, b>>] = Known(v)
      /\ Splits(ts, a + 1, b, {"+", "-"}) = {} /\ Splits(ts, a + 1, b, {"*", "/"}) = {}
  BY <1>1 DEF AtomUpTo, ProductUpTo, SumUpTo
<1>3. /\ Piece(ts, a, b) /\ Splits(ts, a, b, {"+", "-"}) = {} /\ Splits(ts, a, b, {"*", "/"}) = {}
  <2>1. Piece(ts, a, b) /\ \A ops : Splits(ts, a, b, ops) \subseteq Splits(ts, a + 1, b, ops)
    BY <1>2, SignedPiece
  <2>2. Splits(ts, a, b, {"+", "-"}) \subseteq {} /\ Splits(ts, a, b, {"*", "/"}) \subseteq {}
    BY <1>2, <2>1
  <2> QED BY <2>1, <2>2
<1>4. PICK kind, last, x, one, rest, inner, m :
        /\ kind = ts[a].kind /\ last = ts[b].kind /\ x = ts[a].value /\ one = (a = b)
        /\ rest = means[<<a + 1, b>>] /\ inner = means[<<a + 1, b - 1>>]
        /\ m = SingleMeaning(means, vs, ts, a, b)
  OBVIOUS
<1>5. SingleCases(vs, kind, last, x, one, rest, inner, m)
  BY <1>4, SingleIs
<1>6. rest.ok = TRUE /\ rest.v = v
  BY <1>2, <1>4, KnownIs
<1>7. m = Known(-v)
  BY <1>4, <1>5, <1>6 DEF SingleCases
<1> QED BY <1>1, <1>3, <1>4, <1>7, SingleUpTo

(* A sum in brackets is a value.                                              *)
LEMMA BracketUpTo ==
  ASSUME NEW vs, NEW ts \in Seq(Tokens), NEW means, Means(means, vs, ts), NEW a \in 1 .. Len(ts), NEW p \in 1 .. Len(ts),
         NEW v \in Int, ts[a].kind = "(", SumUpTo(means, ts, a + 1, p, v), ts[p].kind = ")"
  PROVE  AtomUpTo(means, ts, a, p + 1, v)
<1>1. (p + 1) - 1 = p /\ p + 1 \in Int
  OBVIOUS
<1>2. Piece(ts, a + 1, p - 1) /\ means[<<a + 1, p - 1>>] = Known(v)
  BY DEF SumUpTo
<1>3. Piece(ts, a, p) /\ \A ops : Splits(ts, a, p, ops) = {}
  BY <1>2, BracketPiece
<1>4. PICK kind, last, x, one, rest, inner, m :
        /\ kind = ts[a].kind /\ last = ts[p].kind /\ x = ts[a].value /\ one = (a = p)
        /\ rest = means[<<a + 1, p>>] /\ inner = means[<<a + 1, p - 1>>]
        /\ m = SingleMeaning(means, vs, ts, a, p)
  OBVIOUS
<1>5. SingleCases(vs, kind, last, x, one, rest, inner, m)
  BY <1>4, SingleIs
<1>6. m = Known(v)
  BY <1>2, <1>4, <1>5 DEF SingleCases
<1>7. Splits(ts, a, p, {"+", "-"}) = {} /\ Splits(ts, a, p, {"*", "/"}) = {}
  BY <1>3
<1> QED BY <1>1, <1>3, <1>4, <1>6, <1>7, SingleUpTo

(* A number or a variable is a value.                                         *)
LEMMA TokenUpTo ==
  ASSUME NEW vs, NEW ts \in Seq(Tokens), NEW means, Means(means, vs, ts), NEW a \in 1 .. Len(ts),
         NEW x, x = ts[a].value
  PROVE  /\ ts[a].kind = "num" => AtomUpTo(means, ts, a, a + 1, x)
         /\ ts[a].kind = "ident" /\ x \in DOMAIN vs => AtomUpTo(means, ts, a, a + 1, vs[x])
<1>1. (a + 1) - 1 = a /\ a + 1 \in Int
  OBVIOUS
<1>2. PICK kind, rest, inner, m :
        /\ kind = ts[a].kind /\ rest = means[<<a + 1, a>>] /\ inner = means[<<a + 1, a - 1>>]
        /\ m = SingleMeaning(means, vs, ts, a, a)
  OBVIOUS
<1>3. SingleCases(vs, kind, kind, x, (a = a), rest, inner, m)
  BY <1>2, SingleIs
<1>4. /\ kind = "num" => m = Known(x)
      /\ kind = "ident" /\ x \in DOMAIN vs => m = Known(vs[x])
  BY <1>3 DEF SingleCases
<1>5. kind \in {"num", "ident"} =>
        /\ Piece(ts, a, a) /\ Splits(ts, a, a, {"+", "-"}) = {} /\ Splits(ts, a, a, {"*", "/"}) = {}
  BY <1>2, TokenPiece
<1>6. \A v : kind \in {"num", "ident"} /\ m = Known(v) => AtomUpTo(means, ts, a, a + 1, v)
  BY <1>1, <1>2, <1>5, SingleUpTo
<1> QED BY <1>2, <1>4, <1>6

-------------------------------------------------------------------------------
(* What a method returns without an error is what the tokens it read mean.    *)

SoundCall(means, ts, rule, here, res) ==
  res.error = NoError =>
    /\ here.error = NoError
    /\ rule = "atom" => AtomUpTo(means, ts, here.pos, res.pos, res.v)
    /\ rule = "mul_div" => ProductUpTo(means, ts, here.pos, res.pos, res.v)
    /\ rule = "add_sub" => SumUpTo(means, ts, here.pos, res.pos, res.v)
    /\ rule = "mul_div_rest" =>
         \A a : ProductUpTo(means, ts, a, here.pos, here.v) => ProductUpTo(means, ts, a, res.pos, res.v)
    /\ rule = "add_sub_rest" =>
         \A a : SumUpTo(means, ts, a, here.pos, here.v) => SumUpTo(means, ts, a, res.pos, res.v)

SoundBelow(parse, means, ts, rule, here) ==
  \A rule2 \in Rules : \A there \in Results :
    CallSize(ts)[<<rule2, there>>] < CallSize(ts)[<<rule, here>>]
    => SoundCall(means, ts, rule2, there, parse[<<rule2, there>>])

(* parse_atom is sound if smaller calls are.                                  *)
LEMMA AtomSound ==
  ASSUME NEW vs, HasValues(vs), NEW ts \in Seq(Tokens), NEW parse, Does(parse, vs, ts), NEW means, Means(means, vs, ts),
         NEW here \in Results, SoundBelow(parse, means, ts, "atom", here)
  PROVE  SoundCall(means, ts, "atom", here, ParseAtom(parse, vs, ts, here))
<1>1. PICK kind, x, sum, inner, atom :
        /\ kind = At(ts, here.pos) /\ x = ts[here.pos].value
        /\ sum = parse[<<"add_sub", Past(here)>>] /\ inner = parse[<<"atom", Past(here)>>]
        /\ atom = ParseAtom(parse, vs, ts, here)
  OBVIOUS
<1>2. AtomCases(vs, ts, here, kind, x, sum, inner, atom)
  BY <1>1, AtomIs
<1>3. parse \in Parses /\ "atom" \in Rules /\ "add_sub" \in Rules
  BY DEF Does, Rules
<1>4. here.pos \in Nat \ {0} /\ here.pos + 1 \in Nat \ {0} /\ Len(ts) \in Nat /\ here.error \in Errors
  BY Fields
<1>5. CASE kind = "end"
  <2>1. atom.error # NoError
    BY <1>2, <1>5 DEF AtomCases, Result, NoError
  <2> QED BY <1>1, <2>1 DEF SoundCall
<1>6. CASE kind # "end"
  <2>1. here.pos \in 1 .. Len(ts) /\ kind = ts[here.pos].kind
    BY <1>1, <1>4, <1>6 DEF At
  <2>2. /\ Past(here) \in Results /\ Past(here).pos = here.pos + 1 /\ Past(here).error = here.error
        /\ CallSize(ts)[<<"add_sub", Past(here)>>] < CallSize(ts)[<<"atom", here>>]
        /\ CallSize(ts)[<<"atom", Past(here)>>] < CallSize(ts)[<<"atom", here>>]
    BY <1>1, <1>3, <1>6, NextCall
  <2>3. SoundCall(means, ts, "add_sub", Past(here), sum) /\ SoundCall(means, ts, "atom", Past(here), inner)
    BY <1>1, <1>3, <2>2 DEF SoundBelow
  <2>4. sum.pos \in Nat \ {0} /\ sum.v \in Int
    BY <1>1, <1>3, <1>6, NextCall
  <2>5. inner.pos \in Nat \ {0} /\ inner.v \in Int
    BY <1>1, <1>3, <1>6, NextCall
  <2>6. CASE kind \in {"num", "ident"}
    <3>1. SUFFICES ASSUME atom.error = NoError
                   PROVE  here.error = NoError /\ AtomUpTo(means, ts, here.pos, atom.pos, atom.v)
      BY <1>1 DEF SoundCall
    <3>2. CASE kind = "num"
      <4>1. atom.pos = here.pos + 1 /\ atom.v = x /\ atom.error = here.error
        BY <1>2, <3>2 DEF AtomCases, Result
      <4>2. AtomUpTo(means, ts, here.pos, here.pos + 1, x)
        BY <1>1, <2>1, <3>2, TokenUpTo
      <4> QED BY <3>1, <4>1, <4>2
    <3>3. CASE kind = "ident" /\ x \in DOMAIN vs
      <4>1. atom.pos = here.pos + 1 /\ atom.v = vs[x] /\ atom.error = here.error
        BY <1>2, <3>3 DEF AtomCases, Result
      <4>2. AtomUpTo(means, ts, here.pos, here.pos + 1, vs[x])
        BY <1>1, <2>1, <3>3, TokenUpTo
      <4> QED BY <3>1, <4>1, <4>2
    <3>4. CASE kind = "ident" /\ x \notin DOMAIN vs
      BY <1>2, <3>1, <3>4 DEF AtomCases, Result, NoError
    <3> QED BY <2>6, <3>2, <3>3, <3>4
  <2>7. CASE kind = "("
    <3>1. SUFFICES ASSUME atom.error = NoError
                   PROVE  here.error = NoError /\ AtomUpTo(means, ts, here.pos, atom.pos, atom.v)
      BY <1>1 DEF SoundCall
    <3>2. At(ts, sum.pos) = ")"
      BY <1>2, <2>7, <3>1 DEF AtomCases, Result, NoError
    <3>3. atom.pos = sum.pos + 1 /\ atom.v = sum.v /\ atom.error = sum.error
      BY <1>2, <2>7, <3>2 DEF AtomCases, Result
    <3>4. here.error = NoError /\ SumUpTo(means, ts, here.pos + 1, sum.pos, sum.v)
      BY <2>2, <2>3, <3>1, <3>3 DEF SoundCall
    <3>5. sum.pos \in 1 .. Len(ts) /\ ts[sum.pos].kind = ")"
      BY <1>4, <2>4, <3>2 DEF At
    <3>6. AtomUpTo(means, ts, here.pos, sum.pos + 1, sum.v)
      BY <2>1, <2>4, <2>7, <3>4, <3>5, BracketUpTo
    <3> QED BY <3>3, <3>4, <3>6
  <2>8. CASE kind = "-"
    <3>1. SUFFICES ASSUME atom.error = NoError
                   PROVE  here.error = NoError /\ AtomUpTo(means, ts, here.pos, atom.pos, atom.v)
      BY <1>1 DEF SoundCall
    <3>2. atom.pos = inner.pos /\ atom.v = -inner.v /\ atom.error = inner.error
      BY <1>2, <2>8 DEF AtomCases, Result
    <3>3. here.error = NoError /\ AtomUpTo(means, ts, here.pos + 1, inner.pos, inner.v)
      BY <2>2, <2>3, <3>1, <3>2 DEF SoundCall
    <3>4. AtomUpTo(means, ts, here.pos, inner.pos, -inner.v)
      <4>1. inner.pos \in Int /\ ts[here.pos].kind = "-"
        BY <2>1, <2>5, <2>8
      <4> QED BY <2>1, <2>5, <3>3, <4>1, SignedUpTo
    <3> QED BY <3>2, <3>3, <3>4
  <2>9. CASE kind \in {"+", "*", "/", ")"}
    <3>1. atom.error # NoError
      BY <1>2, <2>9 DEF AtomCases, Result, NoError
    <3> QED BY <1>1, <3>1 DEF SoundCall
  <2> QED BY <1>2, <1>6, <2>6, <2>7, <2>8, <2>9 DEF AtomCases, Kinds
<1> QED BY <1>5, <1>6

(* The loop of parse_mul_div is sound if smaller calls are.                   *)
LEMMA ProductSound ==
  ASSUME NEW vs, HasValues(vs), NEW ts \in Seq(Tokens), NEW parse, Does(parse, vs, ts), NEW means, Means(means, vs, ts),
         NEW left \in Results, SoundBelow(parse, means, ts, "mul_div_rest", left)
  PROVE  SoundCall(means, ts, "mul_div_rest", left, MulDivRest(parse, ts, left))
<1>1. PICK kind, right, product : /\ kind = At(ts, left.pos) /\ right = parse[<<"atom", Past(left)>>]
                                  /\ product = MulDivRest(parse, ts, left)
  OBVIOUS
<1>2. ProductCases(parse, left, kind, right, product)
  BY <1>1, ProductIs
<1>3. parse \in Parses /\ "atom" \in Rules /\ "mul_div_rest" \in Rules
  BY DEF Does, Rules
<1>4. left.pos \in Nat \ {0} /\ left.v \in Int /\ Len(ts) \in Nat
  BY Fields
<1>5. CASE kind \in {"*", "/"}
  <2>1. kind # "end" /\ left.pos \in 1 .. Len(ts) /\ kind = ts[left.pos].kind
    BY <1>1, <1>4, <1>5 DEF At
  <2>2. /\ Past(left) \in Results /\ Past(left).pos = left.pos + 1 /\ Past(left).error = left.error
        /\ CallSize(ts)[<<"atom", Past(left)>>] < CallSize(ts)[<<"mul_div_rest", left>>]
    BY <1>1, <1>3, <2>1, NextCall
  <2>3. /\ right.pos \in Nat \ {0} /\ right.v \in Int /\ right.error \in Errors /\ right.pos >= left.pos + 1
    BY <1>1, <1>3, <2>1, NextCall
  <2>4. SoundCall(means, ts, "atom", Past(left), right)
    BY <1>1, <1>3, <2>2 DEF SoundBelow
  <2>5. CASE kind = "/" /\ right.v = 0
    <3>1. product.error # NoError
      BY <1>2, <2>5 DEF ProductCases, Result, NoError
    <3> QED BY <1>1, <3>1 DEF SoundCall
  <2>6. CASE kind = "*" \/ right.v # 0
    <3>1. PICK w : w = IF kind = "*" THEN left.v * right.v ELSE Quotient(left.v, right.v)
      OBVIOUS
    <3>2. left.v * right.v \in Int
      BY <1>4, <2>3
    <3>3. w \in Int
      BY <1>4, <2>3, <2>6, <3>1, <3>2, QuotientInt
    <3>4. PICK there : there = Result(right.pos, w, right.error)
      OBVIOUS
    <3>5. product = parse[<<"mul_div_rest", there>>]
      BY <1>2, <1>5, <2>6, <3>1, <3>4 DEF ProductCases
    <3>6. there \in Results /\ there.pos = right.pos /\ there.v = w /\ there.error = right.error
      BY <2>3, <3>3, <3>4, Made
    <3>7. CallSize(ts)[<<"mul_div_rest", there>>] < CallSize(ts)[<<"mul_div_rest", left>>]
      <4>1. left.pos <= Len(ts) /\ there.pos >= left.pos + 1
        BY <2>1, <2>3, <3>6
      <4> QED BY <1>3, <3>6, <4>1, SmallerCall
    <3>8. SoundCall(means, ts, "mul_div_rest", there, product)
      BY <1>3, <3>5, <3>6, <3>7 DEF SoundBelow
    <3>9. SUFFICES ASSUME product.error = NoError
                   PROVE  /\ left.error = NoError
                          /\ \A a : ProductUpTo(means, ts, a, left.pos, left.v)
                                    => ProductUpTo(means, ts, a, product.pos, product.v)
      BY <1>1 DEF SoundCall
    <3>10. /\ right.error = NoError
           /\ \A a : ProductUpTo(means, ts, a, right.pos, w) => ProductUpTo(means, ts, a, product.pos, product.v)
      BY <3>6, <3>8, <3>9 DEF SoundCall
    <3>11. left.error = NoError /\ AtomUpTo(means, ts, left.pos + 1, right.pos, right.v)
      BY <2>2, <2>4, <3>10 DEF SoundCall
    <3>12. ASSUME NEW a, ProductUpTo(means, ts, a, left.pos, left.v)
           PROVE  ProductUpTo(means, ts, a, right.pos, w)
      <4>1. right.pos \in Int
        BY <2>3
      <4>2. /\ ts[left.pos].kind = "*" => ProductUpTo(means, ts, a, right.pos, left.v * right.v)
            /\ ts[left.pos].kind = "/" /\ right.v # 0 => ProductUpTo(means, ts, a, right.pos, Quotient(left.v, right.v))
        BY <1>4, <1>5, <2>1, <2>3, <3>11, <3>12, <4>1, ProductJoins
      <4> QED BY <1>5, <2>1, <2>6, <3>1, <4>2
    <3> QED BY <3>10, <3>11, <3>12
  <2> QED BY <1>5, <2>5, <2>6
<1>6. CASE kind \notin {"*", "/"}
  <2>1. product = left
    BY <1>2, <1>6 DEF ProductCases
  <2> QED BY <1>1, <2>1 DEF SoundCall
<1> QED BY <1>5, <1>6

(* The loop of parse_add_sub is sound if smaller calls are.                   *)
LEMMA SumSound ==
  ASSUME NEW vs, HasValues(vs), NEW ts \in Seq(Tokens), NEW parse, Does(parse, vs, ts), NEW means, Means(means, vs, ts),
         NEW left \in Results, SoundBelow(parse, means, ts, "add_sub_rest", left)
  PROVE  SoundCall(means, ts, "add_sub_rest", left, AddSubRest(parse, ts, left))
<1>1. PICK kind, right, sum : /\ kind = At(ts, left.pos) /\ right = parse[<<"mul_div", Past(left)>>]
                              /\ sum = AddSubRest(parse, ts, left)
  OBVIOUS
<1>2. SumCases(parse, left, kind, right, sum)
  BY <1>1, SumIs
<1>3. parse \in Parses /\ "mul_div" \in Rules /\ "add_sub_rest" \in Rules
  BY DEF Does, Rules
<1>4. left.pos \in Nat \ {0} /\ left.v \in Int /\ Len(ts) \in Nat
  BY Fields
<1>5. CASE kind \in {"+", "-"}
  <2>1. kind # "end" /\ left.pos \in 1 .. Len(ts) /\ kind = ts[left.pos].kind
    BY <1>1, <1>4, <1>5 DEF At
  <2>2. /\ Past(left) \in Results /\ Past(left).pos = left.pos + 1 /\ Past(left).error = left.error
        /\ CallSize(ts)[<<"mul_div", Past(left)>>] < CallSize(ts)[<<"add_sub_rest", left>>]
    BY <1>1, <1>3, <2>1, NextCall
  <2>3. /\ right.pos \in Nat \ {0} /\ right.v \in Int /\ right.error \in Errors /\ right.pos >= left.pos + 1
    BY <1>1, <1>3, <2>1, NextCall
  <2>4. SoundCall(means, ts, "mul_div", Past(left), right)
    BY <1>1, <1>3, <2>2 DEF SoundBelow
  <2>5. PICK w : w = IF kind = "+" THEN left.v + right.v ELSE left.v - right.v
    OBVIOUS
  <2>6. w \in Int
    BY <1>4, <2>3, <2>5
  <2>7. PICK there : there = Result(right.pos, w, right.error)
    OBVIOUS
  <2>8. sum = parse[<<"add_sub_rest", there>>]
    BY <1>2, <1>5, <2>5, <2>7 DEF SumCases
  <2>9. there \in Results /\ there.pos = right.pos /\ there.v = w /\ there.error = right.error
    BY <2>3, <2>6, <2>7, Made
  <2>10. CallSize(ts)[<<"add_sub_rest", there>>] < CallSize(ts)[<<"add_sub_rest", left>>]
    <3>1. left.pos <= Len(ts) /\ there.pos >= left.pos + 1
      BY <2>1, <2>3, <2>9
    <3> QED BY <1>3, <2>9, <3>1, SmallerCall
  <2>11. SoundCall(means, ts, "add_sub_rest", there, sum)
    BY <1>3, <2>8, <2>9, <2>10 DEF SoundBelow
  <2>12. SUFFICES ASSUME sum.error = NoError
                  PROVE  /\ left.error = NoError
                         /\ \A a : SumUpTo(means, ts, a, left.pos, left.v) => SumUpTo(means, ts, a, sum.pos, sum.v)
    BY <1>1 DEF SoundCall
  <2>13. /\ right.error = NoError
         /\ \A a : SumUpTo(means, ts, a, right.pos, w) => SumUpTo(means, ts, a, sum.pos, sum.v)
    BY <2>9, <2>11, <2>12 DEF SoundCall
  <2>14. left.error = NoError /\ ProductUpTo(means, ts, left.pos + 1, right.pos, right.v)
    BY <2>2, <2>4, <2>13 DEF SoundCall
  <2>15. ASSUME NEW a, SumUpTo(means, ts, a, left.pos, left.v)
         PROVE  SumUpTo(means, ts, a, right.pos, w)
    <3>1. right.pos \in Int
      BY <2>3
    <3>2. /\ ts[left.pos].kind = "+" => SumUpTo(means, ts, a, right.pos, left.v + right.v)
          /\ ts[left.pos].kind = "-" => SumUpTo(means, ts, a, right.pos, left.v - right.v)
      BY <1>4, <1>5, <2>1, <2>3, <2>14, <2>15, <3>1, SumJoins
    <3> QED BY <1>5, <2>1, <2>5, <3>2
  <2> QED BY <2>13, <2>14, <2>15
<1>6. CASE kind \notin {"+", "-"}
  <2>1. sum = left
    BY <1>2, <1>6 DEF SumCases
  <2> QED BY <1>1, <2>1 DEF SoundCall
<1> QED BY <1>5, <1>6

(* What a call returns. *)
RunsAt(parse, vs, ts, here) ==
  /\ parse[<<"add_sub", here>>] = parse[<<"add_sub_rest", parse[<<"mul_div", here>>]>>]
  /\ parse[<<"mul_div", here>>] = parse[<<"mul_div_rest", parse[<<"atom", here>>]>>]
  /\ parse[<<"add_sub_rest", here>>] = AddSubRest(parse, ts, here)
  /\ parse[<<"mul_div_rest", here>>] = MulDivRest(parse, ts, here)
  /\ parse[<<"atom", here>>] = ParseAtom(parse, vs, ts, here)

(* A parse that does what the methods do returns it for every call.           *)
LEMMA DoesIs ==
  ASSUME NEW vs, NEW ts, NEW parse, Does(parse, vs, ts), NEW here \in Results
  PROVE  RunsAt(parse, vs, ts, here)
<1>1. {"add_sub", "add_sub_rest", "mul_div", "mul_div_rest", "atom"} \subseteq Rules
  BY DEF Rules
<1>2. \A rule \in Rules : parse[<<rule, here>>] = Returned(parse, vs, ts, rule, here)
  BY DEF Does
<1>3. /\ Returned(parse, vs, ts, "add_sub", here) = parse[<<"add_sub_rest", parse[<<"mul_div", here>>]>>]
      /\ Returned(parse, vs, ts, "mul_div", here) = parse[<<"mul_div_rest", parse[<<"atom", here>>]>>]
  BY ReturnedIs DEF ParseAddSub, ParseMulDiv
<1> QED BY <1>1, <1>2, <1>3, ReturnedIs DEF RunsAt

(* A method and then its loop are sound if smaller calls are.                 *)
LEMMA RunSound ==
  ASSUME NEW vs, NEW ts \in Seq(Tokens), NEW parse, Does(parse, vs, ts), NEW means, NEW here \in Results
  PROVE  /\ SoundBelow(parse, means, ts, "add_sub", here) => SoundCall(means, ts, "add_sub", here, parse[<<"add_sub", here>>])
         /\ SoundBelow(parse, means, ts, "mul_div", here) => SoundCall(means, ts, "mul_div", here, parse[<<"mul_div", here>>])
<1>1. parse \in Parses /\ {"add_sub", "add_sub_rest", "mul_div", "mul_div_rest", "atom"} \subseteq Rules
  BY DEF Does, Rules
<1>2. here.pos \in Nat /\ here.pos >= here.pos
  BY Fields
<1>3. ASSUME SoundBelow(parse, means, ts, "add_sub", here)
      PROVE  SoundCall(means, ts, "add_sub", here, parse[<<"add_sub", here>>])
  <2>1. PICK there : there = parse[<<"mul_div", here>>]
    OBVIOUS
  <2>2. PICK res : res = parse[<<"add_sub_rest", there>>]
    OBVIOUS
  <2>3. there \in Results /\ there.pos >= here.pos
    BY <1>1, <2>1, CallGives
  <2>4. Level("mul_div") < Level("add_sub") /\ Level("add_sub_rest") < Level("add_sub")
    BY DEF Level
  <2>5. CallSize(ts)[<<"mul_div", here>>] < CallSize(ts)[<<"add_sub", here>>]
    BY <1>1, <1>2, <2>4, SmallerCall
  <2>6. CallSize(ts)[<<"add_sub_rest", there>>] < CallSize(ts)[<<"add_sub", here>>]
    BY <1>1, <2>3, <2>4, SmallerCall
  <2>7. SoundCall(means, ts, "mul_div", here, there)
    BY <1>1, <1>3, <2>1, <2>5 DEF SoundBelow
  <2>8. SoundCall(means, ts, "add_sub_rest", there, res)
    BY <1>1, <1>3, <2>2, <2>3, <2>6 DEF SoundBelow
  <2>9. SoundCall(means, ts, "add_sub", here, res)
    BY <2>7, <2>8 DEF SoundCall, ProductUpTo
  <2>10. parse[<<"add_sub", here>>] = parse[<<"add_sub_rest", parse[<<"mul_div", here>>]>>]
    <3>1. RunsAt(parse, vs, ts, here)
      BY DoesIs
    <3> QED BY <3>1 DEF RunsAt
  <2> QED BY <2>1, <2>2, <2>9, <2>10
<1>4. ASSUME SoundBelow(parse, means, ts, "mul_div", here)
      PROVE  SoundCall(means, ts, "mul_div", here, parse[<<"mul_div", here>>])
  <2>1. PICK there : there = parse[<<"atom", here>>]
    OBVIOUS
  <2>2. PICK res : res = parse[<<"mul_div_rest", there>>]
    OBVIOUS
  <2>3. there \in Results /\ there.pos >= here.pos
    BY <1>1, <2>1, CallGives
  <2>4. Level("atom") < Level("mul_div") /\ Level("mul_div_rest") < Level("mul_div")
    BY DEF Level
  <2>5. CallSize(ts)[<<"atom", here>>] < CallSize(ts)[<<"mul_div", here>>]
    BY <1>1, <1>2, <2>4, SmallerCall
  <2>6. CallSize(ts)[<<"mul_div_rest", there>>] < CallSize(ts)[<<"mul_div", here>>]
    BY <1>1, <2>3, <2>4, SmallerCall
  <2>7. SoundCall(means, ts, "atom", here, there)
    BY <1>1, <1>4, <2>1, <2>5 DEF SoundBelow
  <2>8. SoundCall(means, ts, "mul_div_rest", there, res)
    BY <1>1, <1>4, <2>2, <2>3, <2>6 DEF SoundBelow
  <2>9. SoundCall(means, ts, "mul_div", here, res)
    BY <2>7, <2>8 DEF SoundCall, AtomUpTo
  <2>10. parse[<<"mul_div", here>>] = parse[<<"mul_div_rest", parse[<<"atom", here>>]>>]
    <3>1. RunsAt(parse, vs, ts, here)
      BY DoesIs
    <3> QED BY <3>1 DEF RunsAt
  <2> QED BY <2>1, <2>2, <2>9, <2>10
<1> QED BY <1>3, <1>4

(* Every call is sound: there is no smallest one that is not.                 *)
LEMMA AllSound ==
  ASSUME NEW vs, HasValues(vs), NEW ts \in Seq(Tokens), NEW parse, Does(parse, vs, ts), NEW means, Means(means, vs, ts)
  PROVE  \A rule \in Rules : \A here \in Results : SoundCall(means, ts, rule, here, parse[<<rule, here>>])
<1>1. PICK A : A = {k \in Nat : \A rule \in Rules : \A here \in Results :
                      CallSize(ts)[<<rule, here>>] = k => SoundCall(means, ts, rule, here, parse[<<rule, here>>])}
  OBVIOUS
<1>2. \A rule \in Rules : \A here \in Results : CallSize(ts)[<<rule, here>>] \in Nat
  <2>1. \A rule \in Rules : \A here \in Results : <<rule, here>> \in Calls
    BY DEF Calls
  <2> QED BY <2>1, CallSizeIs
<1>3. ASSUME NEW k \in Nat, \A j \in Nat : j < k => j \in A  PROVE k \in A
  <2>1. ASSUME NEW rule \in Rules, NEW here \in Results, CallSize(ts)[<<rule, here>>] = k
        PROVE  SoundCall(means, ts, rule, here, parse[<<rule, here>>])
    <3>1. SoundBelow(parse, means, ts, rule, here)
      BY <1>1, <1>2, <1>3, <2>1 DEF SoundBelow
    <3>2. CASE rule = "add_sub"
      BY <3>1, <3>2, RunSound
    <3>3. CASE rule = "add_sub_rest"
      <4>1. parse[<<"add_sub_rest", here>>] = AddSubRest(parse, ts, here)
        <5>1. RunsAt(parse, vs, ts, here)
          BY DoesIs
        <5> QED BY <5>1 DEF RunsAt
      <4>2. SoundCall(means, ts, "add_sub_rest", here, AddSubRest(parse, ts, here))
        BY <3>1, <3>3, SumSound
      <4> QED BY <3>3, <4>1, <4>2
    <3>4. CASE rule = "mul_div"
      BY <3>1, <3>4, RunSound
    <3>5. CASE rule = "mul_div_rest"
      <4>1. parse[<<"mul_div_rest", here>>] = MulDivRest(parse, ts, here)
        <5>1. RunsAt(parse, vs, ts, here)
          BY DoesIs
        <5> QED BY <5>1 DEF RunsAt
      <4>2. SoundCall(means, ts, "mul_div_rest", here, MulDivRest(parse, ts, here))
        BY <3>1, <3>5, ProductSound
      <4> QED BY <3>5, <4>1, <4>2
    <3>6. CASE rule = "atom"
      <4>1. parse[<<"atom", here>>] = ParseAtom(parse, vs, ts, here)
        <5>1. RunsAt(parse, vs, ts, here)
          BY DoesIs
        <5> QED BY <5>1 DEF RunsAt
      <4>2. SoundCall(means, ts, "atom", here, ParseAtom(parse, vs, ts, here))
        BY <3>1, <3>6, AtomSound
      <4> QED BY <3>6, <4>1, <4>2
    <3> QED BY <3>2, <3>3, <3>4, <3>5, <3>6 DEF Rules
  <2> QED BY <1>1, <2>1
<1>4. \A k \in Nat : k \in A
  BY <1>3, AllSizes
<1> QED BY <1>1, <1>2, <1>4

-------------------------------------------------------------------------------
(* What means something is read without an error, up to its end.              *)

From(a) == Result(a, 0, NoError)
Read(b, m) == Result(b + 1, m.v, NoError)

Complete(parse, means, ts, a, b) ==
  means[<<a, b>>].ok =>
    /\ Splits(ts, a, b, {"+", "-"}) = {} /\ Splits(ts, a, b, {"*", "/"}) = {}
       => parse[<<"atom", From(a)>>] = Read(b, means[<<a, b>>])
    /\ Splits(ts, a, b, {"+", "-"}) = {}
       => parse[<<"mul_div", From(a)>>] = parse[<<"mul_div_rest", Read(b, means[<<a, b>>])>>]
    /\ At(ts, b + 1) \notin {"*", "/"}
       => parse[<<"add_sub", From(a)>>] = parse[<<"add_sub_rest", Read(b, means[<<a, b>>])>>]

CompleteBelow(parse, means, ts, a, b) ==
  \A part \in PartsOf(ts) :
    PartSize(ts)[part] < PartSize(ts)[<<a, b>>] => Complete(parse, means, ts, part[1], part[2])

(* A smaller part is read to its end.                                         *)
LEMMA BelowAt ==
  ASSUME NEW parse, NEW means, NEW ts, NEW a, NEW b, CompleteBelow(parse, means, ts, a, b),
         NEW e, NEW d, <<e, d>> \in PartsOf(ts), PartSize(ts)[<<e, d>>] < PartSize(ts)[<<a, b>>]
  PROVE  Complete(parse, means, ts, e, d)
<1>1. PICK part \in PartsOf(ts) : part = <<e, d>>
  OBVIOUS
<1>2. Complete(parse, means, ts, part[1], part[2])
  BY <1>1 DEF CompleteBelow
<1>3. part[1] = e /\ part[2] = d
  BY <1>1
<1> QED BY <1>2, <1>3

(* The place a method starts at, ...                                          *)
LEMMA FromIs ==
  ASSUME NEW a \in Nat \ {0}
  PROVE  /\ From(a) \in Results /\ From(a).pos = a /\ From(a).v = 0 /\ From(a).error = NoError
         /\ Past(From(a)) = From(a + 1)
<1>1. 0 \in Int /\ NoError \in Errors
  BY DEF Errors
<1> QED BY <1>1 DEF From, Result, Results, Past

(* ... and the one it is at when a part is read.                              *)
LEMMA ReadIs ==
  ASSUME NEW b \in Nat, NEW m \in Values
  PROVE  /\ Read(b, m) \in Results /\ Read(b, m).pos = b + 1 /\ Read(b, m).v = m.v /\ Read(b, m).error = NoError
<1>1. m.v \in Int /\ NoError \in Errors /\ b + 1 \in Nat \ {0}
  BY DEF Errors, Values
<1> QED BY <1>1 DEF Read, Result, Results

(* An empty part means nothing. *)
LEMMA EmptyPart ==
  ASSUME NEW vs, NEW ts \in Seq(Tokens), NEW means, Means(means, vs, ts),
         NEW a \in 1 .. Len(ts) + 1, NEW b \in 0 .. Len(ts), means[<<a, b>>].ok
  PROVE  a \in 1 .. Len(ts) /\ b \in 1 .. Len(ts) /\ a <= b
<1>1. Len(ts) \in Nat /\ a \in Int /\ b \in Int
  OBVIOUS
<1>2. means[<<a, b>>] = MeaningOf(means, vs, ts, a, b)
  BY DEF Means
<1>3. a > b => means[<<a, b>>] = Unknown
  BY <1>1, <1>2, MeaningOfIs DEF MeaningCases
<1>4. ~(a > b)
  BY <1>3 DEF Unknown
<1> QED BY <1>1, <1>4

(* A loop that finds none of its operators ends. *)
Rests(parse, ts, here) ==
  /\ At(ts, here.pos) \notin {"*", "/"} => parse[<<"mul_div_rest", here>>] = here
  /\ At(ts, here.pos) \notin {"+", "-"} => parse[<<"add_sub_rest", here>>] = here

(* A loop looks at one token to know whether it goes on.                      *)
LEMMA RestReads ==
  ASSUME NEW vs, NEW ts \in Seq(Tokens), NEW parse, Does(parse, vs, ts), NEW here \in Results
  PROVE  Rests(parse, ts, here)
<1>1. RunsAt(parse, vs, ts, here)
  BY DoesIs
<1>2. ProductCases(parse, here, At(ts, here.pos), parse[<<"atom", Past(here)>>], MulDivRest(parse, ts, here))
  BY ProductIs
<1>3. SumCases(parse, here, At(ts, here.pos), parse[<<"mul_div", Past(here)>>], AddSubRest(parse, ts, here))
  BY SumIs
<1>4. At(ts, here.pos) \notin {"*", "/"} => parse[<<"mul_div_rest", here>>] = here
  BY <1>1, <1>2 DEF RunsAt, ProductCases
<1>5. At(ts, here.pos) \notin {"+", "-"} => parse[<<"add_sub_rest", here>>] = here
  BY <1>1, <1>3 DEF RunsAt, SumCases
<1> QED BY <1>4, <1>5 DEF Rests

(* A single value. *)
LEMMA SingleReads ==
  ASSUME NEW vs, HasValues(vs), NEW ts \in Seq(Tokens), NEW parse, Does(parse, vs, ts), NEW means, Means(means, vs, ts),
         NEW a \in 1 .. Len(ts), NEW b \in 1 .. Len(ts), a <= b, CompleteBelow(parse, means, ts, a, b),
         Splits(ts, a, b, {"+", "-"}) = {}, Splits(ts, a, b, {"*", "/"}) = {}, means[<<a, b>>].ok
  PROVE  parse[<<"atom", From(a)>>] = Read(b, means[<<a, b>>])
<1>1. Len(ts) \in Nat /\ a \in Nat \ {0} /\ b \in Nat /\ a \in Int /\ b \in Int /\ a + 1 \in Nat \ {0}
  OBVIOUS
<1>2. PICK kind, last, x, rest, inner, m :
        /\ kind = ts[a].kind /\ last = ts[b].kind /\ x = ts[a].value
        /\ rest = means[<<a + 1, b>>] /\ inner = means[<<a + 1, b - 1>>] /\ m = means[<<a, b>>]
  OBVIOUS
<1>3. m = SingleMeaning(means, vs, ts, a, b)
  <2>1. MeaningCases(means, vs, ts, a, b, Splits(ts, a, b, {"+", "-"}), Splits(ts, a, b, {"*", "/"}), means[<<a, b>>])
    BY MeansAt
  <2> QED BY <1>1, <1>2, <2>1 DEF MeaningCases
<1>4. SingleCases(vs, kind, last, x, (a = b), rest, inner, m)
  <2>1. SingleCases(vs, ts[a].kind, ts[b].kind, ts[a].value, (a = b), means[<<a + 1, b>>], means[<<a + 1, b - 1>>],
                    SingleMeaning(means, vs, ts, a, b))
    BY SingleIs
  <2> QED BY <1>2, <1>3, <2>1
<1>5. PICK here : here = From(a)
  OBVIOUS
<1>6. here \in Results /\ here.pos = a /\ here.error = NoError /\ Past(here) = From(a + 1)
  BY <1>1, <1>5, FromIs
<1>7. PICK sum, atom, signed : /\ sum = parse[<<"add_sub", Past(here)>>] /\ signed = parse[<<"atom", Past(here)>>]
                               /\ atom = parse[<<"atom", here>>]
  OBVIOUS
<1>8. At(ts, a) = kind
  BY <1>1, <1>2 DEF At
<1>9. AtomCases(vs, ts, here, kind, x, sum, signed, atom)
  <2>1. atom = ParseAtom(parse, vs, ts, here)
    <3>1. RunsAt(parse, vs, ts, here)
      BY <1>6, DoesIs
    <3> QED BY <1>7, <3>1 DEF RunsAt
  <2> QED BY <1>2, <1>6, <1>7, <1>8, <2>1, AtomIs
<1>10. m.ok /\ Unknown.ok = FALSE
  BY <1>2 DEF Unknown
<1>11. <<a + 1, b>> \in PartsOf(ts) /\ PartSize(ts)[<<a + 1, b>>] < PartSize(ts)[<<a, b>>]
  <2>1. a + 1 \in a .. b + 1 /\ b \in a - 1 .. b /\ a + 1 # a
    BY <1>1
  <2> QED BY <2>1, SmallerParts
<1>12. <<a + 1, b - 1>> \in PartsOf(ts) /\ PartSize(ts)[<<a + 1, b - 1>>] < PartSize(ts)[<<a, b>>]
  <2>1. a + 1 \in a .. b + 1 /\ b - 1 \in a - 1 .. b /\ a + 1 # a
    BY <1>1
  <2> QED BY <2>1, SmallerParts
<1>13. Complete(parse, means, ts, a + 1, b) /\ Complete(parse, means, ts, a + 1, b - 1)
  BY <1>11, <1>12, BelowAt
<1>14. rest \in Values /\ inner \in Values /\ m \in Values
  <2>1. m \in Values
    BY <1>2, MeansAt
  <2> QED BY <1>2, <1>11, <1>12, <2>1 DEF Means
<1>15. CASE kind = "num"
  <2>1. a = b /\ m = Known(x)
    BY <1>4, <1>10, <1>15 DEF SingleCases
  <2>2. a = b /\ m.v = x
    BY <2>1 DEF Known
  <2>3. atom = Result(a + 1, x, NoError)
    BY <1>6, <1>9, <1>15 DEF AtomCases
  <2> QED BY <1>2, <1>5, <1>7, <2>2, <2>3 DEF Read
<1>16. CASE kind = "ident"
  <2>1. a = b /\ x \in DOMAIN vs /\ m = Known(vs[x])
    BY <1>4, <1>10, <1>16 DEF SingleCases
  <2>2. a = b /\ m.v = vs[x]
    BY <2>1 DEF Known
  <2>3. atom = Result(a + 1, vs[x], NoError)
    BY <1>6, <1>9, <1>16, <2>1 DEF AtomCases
  <2> QED BY <1>2, <1>5, <1>7, <2>2, <2>3 DEF Read
<1>17. CASE kind = "-"
  <2>1. rest.ok /\ m = Known(-rest.v)
    BY <1>4, <1>10, <1>17 DEF SingleCases
  <2>2. m.v = -rest.v
    BY <2>1 DEF Known
  <2>3. Splits(ts, a + 1, b, {"+", "-"}) = {} /\ Splits(ts, a + 1, b, {"*", "/"}) = {}
    <3>1. Depth(ts, a) = Depth(ts, a - 1)
      BY <1>2, <1>17, DepthSteps
    <3>2. (a + 1) - 1 = a /\ \A j \in (a + 1) + 1 .. b - 1 : j \in a + 1 .. b - 1
      BY <1>1
    <3>3. ASSUME NEW ops  PROVE Splits(ts, a + 1, b, ops) \subseteq Splits(ts, a, b, ops)
      BY <3>1, <3>2 DEF Splits
    <3>4. /\ Splits(ts, a + 1, b, {"+", "-"}) \subseteq Splits(ts, a, b, {"+", "-"})
          /\ Splits(ts, a + 1, b, {"*", "/"}) \subseteq Splits(ts, a, b, {"*", "/"})
      BY <3>3
    <3> QED BY <3>4
  <2>4. signed = Read(b, rest)
    BY <1>2, <1>6, <1>7, <1>13, <2>1, <2>3 DEF Complete
  <2>5. atom = Result(signed.pos, -signed.v, signed.error)
    BY <1>9, <1>17 DEF AtomCases
  <2>6. signed.pos = b + 1 /\ signed.v = rest.v /\ signed.error = NoError
    BY <1>1, <1>14, <2>4, ReadIs
  <2>7. atom = Result(b + 1, m.v, NoError)
    BY <2>2, <2>5, <2>6
  <2> QED BY <1>2, <1>5, <1>7, <2>7 DEF Read
<1>18. CASE kind = "("
  <2>1. last = ")" /\ m = inner
    BY <1>4, <1>10, <1>18 DEF SingleCases
  <2>2. (b - 1) + 1 = b /\ b - 1 \in Nat
    BY <1>1
  <2>3. At(ts, b) = ")"
    BY <1>1, <1>2, <2>1 DEF At
  <2>4. sum = parse[<<"add_sub_rest", Read(b - 1, inner)>>]
    <3>1. At(ts, (b - 1) + 1) \notin {"*", "/"}
      BY <2>2, <2>3
    <3> QED BY <1>2, <1>6, <1>7, <1>10, <1>13, <2>1, <3>1 DEF Complete
  <2>5. PICK end : end = Read(b - 1, inner)
    OBVIOUS
  <2>6. end \in Results /\ end.pos = b /\ end.v = inner.v /\ end.error = NoError
    BY <1>14, <2>2, <2>5, ReadIs
  <2>7. parse[<<"add_sub_rest", end>>] = end
    <3>1. At(ts, end.pos) \notin {"+", "-"}
      BY <2>3, <2>6
    <3>2. Rests(parse, ts, end)
      BY <2>6, RestReads
    <3> QED BY <3>1, <3>2 DEF Rests
  <2>8. sum = end
    BY <2>4, <2>5, <2>7
  <2>9. atom = Result(sum.pos + 1, sum.v, sum.error)
    BY <1>9, <1>18, <2>3, <2>6, <2>8 DEF AtomCases
  <2>10. atom = Result(b + 1, m.v, NoError)
    BY <2>1, <2>6, <2>8, <2>9
  <2> QED BY <1>2, <1>5, <1>7, <2>10 DEF Read
<1>19. CASE kind \notin {"num", "ident", "-", "("}
  BY <1>4, <1>10, <1>19 DEF SingleCases
<1> QED BY <1>15, <1>16, <1>17, <1>18, <1>19

(* On the sides of the operator that splits a part, its operators split too. *)
LEMMA SidesSplit ==
  ASSUME NEW ts \in Seq(Tokens), NEW a \in 1 .. Len(ts), NEW b \in 1 .. Len(ts), NEW i \in 1 .. Len(ts),
         NEW ops2, i \in Splits(ts, a, b, ops2), NEW ops
  PROVE  /\ Splits(ts, a, i - 1, ops) \subseteq Splits(ts, a, b, ops)
         /\ \A j \in Splits(ts, i + 1, b, ops) : j \in Splits(ts, a, b, ops) /\ j > i
<1>1. a \in Int /\ b \in Int /\ i \in a + 1 .. b - 1 /\ Depth(ts, i) = Depth(ts, a - 1) /\ (i + 1) - 1 = i
  BY DEF Splits
<1>2. \A j \in a + 1 .. (i - 1) - 1 : j \in a + 1 .. b - 1
  BY <1>1
<1>3. \A j \in (i + 1) + 1 .. b - 1 : j \in a + 1 .. b - 1 /\ j > i
  BY <1>1
<1>4. Splits(ts, a, i - 1, ops) \subseteq Splits(ts, a, b, ops)
  BY <1>2 DEF Splits
<1>5. ASSUME NEW j \in Splits(ts, i + 1, b, ops)  PROVE j \in Splits(ts, a, b, ops) /\ j > i
  BY <1>1, <1>3 DEF Splits
<1> QED BY <1>4, <1>5

(* A product. *)
LEMMA ProductReads ==
  ASSUME NEW vs, HasValues(vs), NEW ts \in Seq(Tokens), NEW parse, Does(parse, vs, ts), NEW means, Means(means, vs, ts),
         NEW a \in 1 .. Len(ts), NEW b \in 1 .. Len(ts), a <= b, CompleteBelow(parse, means, ts, a, b),
         Splits(ts, a, b, {"+", "-"}) = {}, means[<<a, b>>].ok
  PROVE  parse[<<"mul_div", From(a)>>] = parse[<<"mul_div_rest", Read(b, means[<<a, b>>])>>]
<1>1. Len(ts) \in Nat /\ a \in Nat \ {0} /\ b \in Nat
  OBVIOUS
<1>2. PICK products, m : products = Splits(ts, a, b, {"*", "/"}) /\ m = means[<<a, b>>]
  OBVIOUS
<1>3. PICK here : here = From(a)
  OBVIOUS
<1>4. here \in Results
  BY <1>1, <1>3, FromIs
<1>5. RunsAt(parse, vs, ts, here)
  BY <1>4, DoesIs
<1>6. CASE products = {}
  <2>1. parse[<<"atom", From(a)>>] = Read(b, means[<<a, b>>])
    BY <1>2, <1>6, SingleReads
  <2> QED BY <1>3, <1>5, <2>1 DEF RunsAt
<1>7. CASE products # {}
  <2>1. PICK i : i = Max(products)
    OBVIOUS
  <2>2. /\ i \in 1 .. Len(ts) /\ i \in products /\ ts[i].kind \in {"*", "/"}
        /\ <<a, i - 1>> \in PartsOf(ts) /\ PartSize(ts)[<<a, i - 1>>] < PartSize(ts)[<<a, b>>]
        /\ <<i + 1, b>> \in PartsOf(ts) /\ PartSize(ts)[<<i + 1, b>>] < PartSize(ts)[<<a, b>>]
    BY <1>2, <1>7, <2>1, SplitParts
  <2>3. \A j \in products : j <= i
    BY <1>2, <1>7, <2>1, SplitsIn
  <2>4. PICK l, w : l = means[<<a, i - 1>>] /\ w = means[<<i + 1, b>>]
    OBVIOUS
  <2>5. l \in Values /\ w \in Values
    BY <2>2, <2>4 DEF Means
  <2>6. m = Applied(ts[i].kind, l, w)
    <3>1. MeaningCases(means, vs, ts, a, b, Splits(ts, a, b, {"+", "-"}), products, m)
      BY <1>2, MeansAt
    <3> QED BY <1>1, <1>7, <2>1, <2>4, <3>1 DEF MeaningCases
  <2>7. /\ l.ok /\ w.ok
        /\ ts[i].kind = "*" => m.v = l.v * w.v
        /\ ts[i].kind = "/" => w.v # 0 /\ m.v = Quotient(l.v, w.v)
    BY <1>2, <2>2, <2>5, <2>6, AppliedIs
  <2>8. Complete(parse, means, ts, a, i - 1) /\ Complete(parse, means, ts, i + 1, b)
    BY <2>2, BelowAt
  <2>9. Splits(ts, a, i - 1, {"+", "-"}) = {}
    <3>1. Splits(ts, a, i - 1, {"+", "-"}) \subseteq Splits(ts, a, b, {"+", "-"})
      BY <1>2, <2>2, SidesSplit
    <3> QED BY <3>1
  <2>10. Splits(ts, i + 1, b, {"+", "-"}) = {} /\ Splits(ts, i + 1, b, {"*", "/"}) = {}
    <3>1. \A j \in Splits(ts, i + 1, b, {"+", "-"}) : j \in Splits(ts, a, b, {"+", "-"})
      BY <1>2, <2>2, SidesSplit
    <3>2. \A j \in Splits(ts, i + 1, b, {"*", "/"}) : j \in products /\ j > i
      BY <1>2, <2>2, SidesSplit
    <3>3. \A j \in products : j \in Int /\ i \in Int
      BY <1>2, <2>2 DEF Splits
    <3>4. Splits(ts, i + 1, b, {"*", "/"}) = {}
      BY <2>3, <3>2, <3>3
    <3> QED BY <3>1, <3>4
  <2>11. (i - 1) + 1 = i /\ i - 1 \in Nat /\ i \in Nat \ {0}
    BY <2>2
  <2>12. PICK left : left = Read(i - 1, l)
    OBVIOUS
  <2>13. left \in Results /\ left.pos = i /\ left.v = l.v /\ left.error = NoError
    BY <2>5, <2>11, <2>12, ReadIs
  <2>14. parse[<<"mul_div", here>>] = parse[<<"mul_div_rest", left>>]
    BY <1>3, <2>4, <2>7, <2>8, <2>9, <2>12 DEF Complete
  <2>15. PICK right : right = parse[<<"atom", Past(left)>>]
    OBVIOUS
  <2>16. Past(left) = From(i + 1)
    BY <2>13 DEF Past, From
  <2>17. right = Read(b, w)
    BY <2>4, <2>7, <2>8, <2>10, <2>15, <2>16 DEF Complete
  <2>18. right.pos = b + 1 /\ right.v = w.v /\ right.error = NoError
    BY <1>1, <2>5, <2>17, ReadIs
  <2>19. PICK product : product = parse[<<"mul_div_rest", left>>]
    OBVIOUS
  <2>20. ProductCases(parse, left, ts[i].kind, right, product)
    <3>1. product = MulDivRest(parse, ts, left)
      <4>1. RunsAt(parse, vs, ts, left)
        BY <2>13, DoesIs
      <4> QED BY <2>19, <4>1 DEF RunsAt
    <3>2. At(ts, left.pos) = ts[i].kind
      BY <1>1, <2>2, <2>13 DEF At
    <3> QED BY <2>15, <3>1, <3>2, ProductIs
  <2>21. product = parse[<<"mul_div_rest", Result(b + 1, m.v, NoError)>>]
    <3>1. CASE ts[i].kind = "*"
      BY <2>7, <2>13, <2>18, <2>20, <3>1 DEF ProductCases
    <3>2. CASE ts[i].kind = "/"
      BY <2>7, <2>13, <2>18, <2>20, <3>2 DEF ProductCases
    <3> QED BY <2>2, <3>1, <3>2
  <2> QED BY <1>2, <1>3, <2>14, <2>19, <2>21 DEF Read
<1> QED BY <1>6, <1>7

(* A sum, where no product goes on. *)
LEMMA SumReads ==
  ASSUME NEW vs, HasValues(vs), NEW ts \in Seq(Tokens), NEW parse, Does(parse, vs, ts), NEW means, Means(means, vs, ts),
         NEW a \in 1 .. Len(ts), NEW b \in 1 .. Len(ts), a <= b, CompleteBelow(parse, means, ts, a, b),
         At(ts, b + 1) \notin {"*", "/"}, means[<<a, b>>].ok
  PROVE  parse[<<"add_sub", From(a)>>] = parse[<<"add_sub_rest", Read(b, means[<<a, b>>])>>]
<1>1. Len(ts) \in Nat /\ a \in Nat \ {0} /\ b \in Nat
  OBVIOUS
<1>2. PICK sums, m : sums = Splits(ts, a, b, {"+", "-"}) /\ m = means[<<a, b>>]
  OBVIOUS
<1>3. PICK here : here = From(a)
  OBVIOUS
<1>4. here \in Results
  BY <1>1, <1>3, FromIs
<1>5. RunsAt(parse, vs, ts, here)
  BY <1>4, DoesIs
<1>6. ASSUME NEW x \in Values  PROVE parse[<<"mul_div_rest", Read(b, x)>>] = Read(b, x)
  <2>1. PICK end : end = Read(b, x)
    OBVIOUS
  <2>2. end \in Results /\ end.pos = b + 1
    BY <1>1, <2>1, ReadIs
  <2>3. Rests(parse, ts, end)
    BY <2>2, RestReads
  <2>4. parse[<<"mul_div_rest", end>>] = end
    BY <2>2, <2>3 DEF Rests
  <2> QED BY <2>1, <2>4
<1>7. CASE sums = {}
  <2>1. parse[<<"mul_div", From(a)>>] = parse[<<"mul_div_rest", Read(b, means[<<a, b>>])>>]
    BY <1>2, <1>7, ProductReads
  <2>2. m \in Values
    BY <1>2, MeansAt
  <2>3. parse[<<"mul_div_rest", Read(b, m)>>] = Read(b, m)
    BY <1>6, <2>2
  <2> QED BY <1>2, <1>3, <1>5, <2>1, <2>3 DEF RunsAt
<1>8. CASE sums # {}
  <2>1. PICK i : i = Max(sums)
    OBVIOUS
  <2>2. /\ i \in 1 .. Len(ts) /\ i \in sums /\ ts[i].kind \in {"+", "-"}
        /\ <<a, i - 1>> \in PartsOf(ts) /\ PartSize(ts)[<<a, i - 1>>] < PartSize(ts)[<<a, b>>]
        /\ <<i + 1, b>> \in PartsOf(ts) /\ PartSize(ts)[<<i + 1, b>>] < PartSize(ts)[<<a, b>>]
    BY <1>2, <1>8, <2>1, SplitParts
  <2>3. \A j \in sums : j <= i
    BY <1>2, <1>8, <2>1, SplitsIn
  <2>4. PICK l, w : l = means[<<a, i - 1>>] /\ w = means[<<i + 1, b>>]
    OBVIOUS
  <2>5. l \in Values /\ w \in Values
    BY <2>2, <2>4 DEF Means
  <2>6. m = Applied(ts[i].kind, l, w)
    <3>1. MeaningCases(means, vs, ts, a, b, sums, Splits(ts, a, b, {"*", "/"}), m)
      BY <1>2, MeansAt
    <3> QED BY <1>1, <1>8, <2>1, <2>4, <3>1 DEF MeaningCases
  <2>7. /\ l.ok /\ w.ok
        /\ ts[i].kind = "+" => m.v = l.v + w.v
        /\ ts[i].kind = "-" => m.v = l.v - w.v
    BY <1>2, <2>2, <2>5, <2>6, AppliedIs
  <2>8. Complete(parse, means, ts, a, i - 1) /\ Complete(parse, means, ts, i + 1, b)
    BY <2>2, BelowAt
  <2>9. Splits(ts, i + 1, b, {"+", "-"}) = {}
    <3>1. \A j \in Splits(ts, i + 1, b, {"+", "-"}) : j \in sums /\ j > i
      BY <1>2, <2>2, SidesSplit
    <3>2. \A j \in sums : j \in Int /\ i \in Int
      BY <1>2, <2>2 DEF Splits
    <3> QED BY <2>3, <3>1, <3>2
  <2>10. (i - 1) + 1 = i /\ i - 1 \in Nat /\ i \in Nat \ {0}
    BY <2>2
  <2>11. At(ts, i) = ts[i].kind
    BY <1>1, <2>2 DEF At
  <2>12. PICK left : left = Read(i - 1, l)
    OBVIOUS
  <2>13. left \in Results /\ left.pos = i /\ left.v = l.v /\ left.error = NoError
    BY <2>5, <2>10, <2>12, ReadIs
  <2>14. parse[<<"add_sub", here>>] = parse[<<"add_sub_rest", left>>]
    <3>1. At(ts, (i - 1) + 1) \notin {"*", "/"}
      BY <2>2, <2>10, <2>11
    <3> QED BY <1>3, <2>4, <2>7, <2>8, <2>12, <3>1 DEF Complete
  <2>15. PICK right : right = parse[<<"mul_div", Past(left)>>]
    OBVIOUS
  <2>16. Past(left) = From(i + 1)
    BY <2>13 DEF Past, From
  <2>17. right = Read(b, w)
    <3>1. right = parse[<<"mul_div_rest", Read(b, w)>>]
      BY <2>4, <2>7, <2>8, <2>9, <2>15, <2>16 DEF Complete
    <3> QED BY <1>6, <2>5, <3>1
  <2>18. right.pos = b + 1 /\ right.v = w.v /\ right.error = NoError
    BY <1>1, <2>5, <2>17, ReadIs
  <2>19. PICK sum : sum = parse[<<"add_sub_rest", left>>]
    OBVIOUS
  <2>20. SumCases(parse, left, ts[i].kind, right, sum)
    <3>1. sum = AddSubRest(parse, ts, left)
      <4>1. RunsAt(parse, vs, ts, left)
        BY <2>13, DoesIs
      <4> QED BY <2>19, <4>1 DEF RunsAt
    <3>2. At(ts, left.pos) = ts[i].kind
      BY <2>11, <2>13
    <3> QED BY <2>15, <3>1, <3>2, SumIs
  <2>21. sum = parse[<<"add_sub_rest", Result(b + 1, m.v, NoError)>>]
    <3>1. CASE ts[i].kind = "+"
      BY <2>7, <2>13, <2>18, <2>20, <3>1 DEF SumCases
    <3>2. CASE ts[i].kind = "-"
      BY <2>7, <2>13, <2>18, <2>20, <3>2 DEF SumCases
    <3> QED BY <2>2, <3>1, <3>2
  <2> QED BY <1>2, <1>3, <2>14, <2>19, <2>21 DEF Read
<1> QED BY <1>7, <1>8

(* Every part that means something is read to its end: there is no smallest   *)
(* one that is not.                                                           *)
LEMMA AllComplete ==
  ASSUME NEW vs, HasValues(vs), NEW ts \in Seq(Tokens), NEW parse, Does(parse, vs, ts), NEW means, Means(means, vs, ts)
  PROVE  \A part \in PartsOf(ts) : Complete(parse, means, ts, part[1], part[2])
<1>1. PICK A : A = {k \in Nat : \A part \in PartsOf(ts) :
                      PartSize(ts)[part] = k => Complete(parse, means, ts, part[1], part[2])}
  OBVIOUS
<1>2. \A part \in PartsOf(ts) :
        /\ part[1] \in 1 .. Len(ts) + 1 /\ part[2] \in 0 .. Len(ts) /\ part = <<part[1], part[2]>>
  BY DEF PartsOf
<1>3. \A part \in PartsOf(ts) : PartSize(ts)[part] \in Nat
  BY <1>2, PartIn
<1>4. ASSUME NEW k \in Nat, \A j \in Nat : j < k => j \in A  PROVE k \in A
  <2>1. ASSUME NEW part \in PartsOf(ts), PartSize(ts)[part] = k
        PROVE  Complete(parse, means, ts, part[1], part[2])
    <3>1. PICK a \in 1 .. Len(ts) + 1, b \in 0 .. Len(ts) : a = part[1] /\ b = part[2] /\ part = <<a, b>>
      BY <1>2
    <3>2. CompleteBelow(parse, means, ts, a, b)
      BY <1>1, <1>3, <1>4, <2>1, <3>1 DEF CompleteBelow
    <3>3. CASE ~means[<<a, b>>].ok
      BY <3>1, <3>3 DEF Complete
    <3>4. CASE means[<<a, b>>].ok
      <4>1. a \in 1 .. Len(ts) /\ b \in 1 .. Len(ts) /\ a <= b
        BY <3>4, EmptyPart
      <4>2. Splits(ts, a, b, {"+", "-"}) = {} /\ Splits(ts, a, b, {"*", "/"}) = {}
            => parse[<<"atom", From(a)>>] = Read(b, means[<<a, b>>])
        BY <3>2, <3>4, <4>1, SingleReads
      <4>3. Splits(ts, a, b, {"+", "-"}) = {}
            => parse[<<"mul_div", From(a)>>] = parse[<<"mul_div_rest", Read(b, means[<<a, b>>])>>]
        BY <3>2, <3>4, <4>1, ProductReads
      <4>4. At(ts, b + 1) \notin {"*", "/"}
            => parse[<<"add_sub", From(a)>>] = parse[<<"add_sub_rest", Read(b, means[<<a, b>>])>>]
        BY <3>2, <3>4, <4>1, SumReads
      <4> QED BY <3>1, <4>2, <4>3, <4>4 DEF Complete
    <3> QED BY <3>3, <3>4
  <2> QED BY <1>1, <2>1
<1>5. \A k \in Nat : k \in A
  BY <1>4, AllSizes
<1> QED BY <1>1, <1>3, <1>5

-------------------------------------------------------------------------------
(* The value of an expression is what it means.                               *)

Agrees(value, meaning) ==
  /\ (value.error = NoError) = meaning.ok
  /\ meaning.ok => value.v = meaning.v

(* No expression: an error, and no meaning.                                   *)
LEMMA EmptyAgrees ==
  ASSUME NEW vs, HasValues(vs)
  PROVE  Agrees(Eval(vs, <<>>), Meaning(vs, <<>>)) /\ Eval(vs, <<>>).v \in Int
<1>1. PICK ts : ts = <<>>
  OBVIOUS
<1>2. ts \in Seq(Tokens) /\ Len(ts) = 0
  BY <1>1
<1>3. Eval(vs, ts) = Result(1, 0, "empty_expression")
  BY <1>1 DEF Eval
<1>4. Eval(vs, ts).error = "empty_expression" /\ Eval(vs, ts).v = 0
  BY <1>3 DEF Result
<1>5. PICK means : Means(means, vs, ts) /\ Meaning(vs, ts) = means[<<1, Len(ts)>>]
  BY <1>2, MeaningIs
<1>6. 1 \in 1 .. Len(ts) + 1 /\ Len(ts) \in 0 .. Len(ts) /\ ~(1 <= Len(ts))
  BY <1>2
<1>7. means[<<1, Len(ts)>>] \in Values
  BY <1>2, <1>5, <1>6, PartIn DEF Means
<1>8. means[<<1, Len(ts)>>].ok = FALSE
  <2>1. ~means[<<1, Len(ts)>>].ok
    BY <1>2, <1>5, <1>6, EmptyPart
  <2> QED BY <1>7, <2>1 DEF Values
<1>9. Meaning(vs, ts).ok = FALSE
  BY <1>5, <1>8
<1>10. (Eval(vs, ts).error = NoError) = FALSE
  BY <1>4 DEF NoError
<1>11. Agrees(Eval(vs, ts), Meaning(vs, ts))
  BY <1>9, <1>10 DEF Agrees
<1>12. Eval(vs, ts).v \in Int
  BY <1>4
<1> QED BY <1>1, <1>11, <1>12

(* What the evaluator returns for some tokens. *)
Evaluated(parsed, value, end) ==
  value = IF parsed.pos # end + 1 /\ parsed.error = NoError
          THEN Result(parsed.pos, parsed.v, "unexpected_tokens") ELSE parsed

(* eval reports no error when all tokens were read without one.               *)
LEMMA EvaluatedIs ==
  ASSUME NEW parsed \in Results, NEW value, NEW end, Evaluated(parsed, value, end)
  PROVE  /\ value.v = parsed.v
         /\ value.error = NoError <=> parsed.pos = end + 1 /\ parsed.error = NoError
<1>1. CASE parsed.pos # end + 1 /\ parsed.error = NoError
  <2>1. value = Result(parsed.pos, parsed.v, "unexpected_tokens")
    BY <1>1 DEF Evaluated
  <2>2. value.v = parsed.v /\ value.error = "unexpected_tokens"
    BY <2>1 DEF Result
  <2> QED BY <1>1, <2>2 DEF NoError
<1>2. CASE ~(parsed.pos # end + 1 /\ parsed.error = NoError)
  BY <1>2 DEF Evaluated
<1> QED BY <1>1, <1>2

(* A first token is read, all tokens are, and nothing after them. *)
LEMMA AllRead ==
  ASSUME NEW vs, HasValues(vs), NEW ts \in Seq(Tokens), Len(ts) > 0,
         NEW parse, Does(parse, vs, ts), NEW means, Means(means, vs, ts), means[<<1, Len(ts)>>].ok
  PROVE  parse[<<"add_sub", From(1)>>] = Read(Len(ts), means[<<1, Len(ts)>>])
<1>1. PICK k : k = Len(ts)
  OBVIOUS
<1>2. k \in Nat /\ k > 0 /\ 1 \in 1 .. k + 1 /\ k \in 0 .. k /\ 1 \in 1 .. k /\ k \in 1 .. k
  BY <1>1
<1>3. At(ts, k + 1) = "end"
  BY <1>1, <1>2 DEF At
<1>4. Complete(parse, means, ts, 1, k)
  <2>1. PICK part \in PartsOf(ts) : part = <<1, k>>
    BY <1>1, <1>2, PartIn
  <2>2. Complete(parse, means, ts, part[1], part[2])
    BY AllComplete
  <2>3. part[1] = 1 /\ part[2] = k
    BY <2>1
  <2> QED BY <2>2, <2>3
<1>5. PICK m : m = means[<<1, k>>]
  OBVIOUS
<1>6. m \in Values
  BY <1>1, <1>2, <1>5, MeansAt
<1>7. parse[<<"add_sub", From(1)>>] = parse[<<"add_sub_rest", Read(k, m)>>]
  BY <1>1, <1>3, <1>4, <1>5 DEF Complete
<1>8. PICK end : end = Read(k, m)
  OBVIOUS
<1>9. end \in Results /\ end.pos = k + 1
  BY <1>2, <1>6, <1>8, ReadIs
<1>10. Rests(parse, ts, end)
  BY <1>9, RestReads
<1>11. parse[<<"add_sub_rest", end>>] = end
  BY <1>3, <1>9, <1>10 DEF Rests
<1> QED BY <1>1, <1>5, <1>7, <1>8, <1>11

(* The value of an expression is what it means, and a number in any case.     *)
LEMMA EvalIsMeaning ==
  ASSUME NEW vs, HasValues(vs), NEW ts \in Seq(Tokens)
  PROVE  Agrees(Eval(vs, ts), Meaning(vs, ts)) /\ Eval(vs, ts).v \in Int
<1>1. CASE ts = <<>>
  BY <1>1, EmptyAgrees
<1>2. CASE ts # <<>>
  <2>1. PICK k : k = Len(ts)
    OBVIOUS
  <2>2. k \in Nat /\ k > 0 /\ k \in 1 .. k /\ 1 \in 1 .. k /\ (k + 1) - 1 = k
    BY <1>2, <2>1
  <2>3. PICK parse : Does(parse, vs, ts) /\ ParseAll(vs, ts) = parse[<<"add_sub", From(1)>>]
    BY EvaluatorIs DEF From
  <2>4. PICK means : Means(means, vs, ts) /\ Meaning(vs, ts) = means[<<1, k>>]
    BY <2>1, MeaningIs
  <2>5. PICK parsed, value, m : parsed = ParseAll(vs, ts) /\ value = Eval(vs, ts) /\ m = means[<<1, k>>]
    OBVIOUS
  <2>6. From(1) \in Results /\ From(1).pos = 1 /\ "add_sub" \in Rules
    BY FromIs DEF Rules
  <2>7. parsed \in Results
    <3>1. <<"add_sub", From(1)>> \in Calls
      BY <2>6 DEF Calls
    <3>2. parse \in [Calls -> Results]
      BY <2>3 DEF Does, Parses, Allowed
    <3> QED BY <2>3, <2>5, <3>1, <3>2
  <2>8. m \in Values
    BY <2>1, <2>2, <2>4, <2>5, MeansAt
  <2>9. Evaluated(parsed, value, k)
    BY <1>2, <2>1, <2>5 DEF Eval, Evaluated
  <2>10. /\ value.v = parsed.v
         /\ value.error = NoError <=> parsed.pos = k + 1 /\ parsed.error = NoError
    BY <2>7, <2>9, EvaluatedIs
  <2>11. ASSUME value.error = NoError  PROVE m.ok /\ value.v = m.v
    <3>1. SoundCall(means, ts, "add_sub", From(1), parsed)
      BY <2>3, <2>4, <2>5, <2>6, AllSound
    <3>2. SumUpTo(means, ts, 1, k + 1, parsed.v)
      BY <2>6, <2>10, <2>11, <3>1 DEF SoundCall
    <3>3. m = Known(parsed.v)
      BY <2>2, <2>5, <3>2 DEF SumUpTo
    <3>4. parsed.v \in Int
      BY <2>7, Fields
    <3> QED BY <2>10, <3>3, <3>4, KnownIs
  <2>12. ASSUME m.ok  PROVE value.error = NoError /\ value.v = m.v
    <3>1. parsed = Read(k, m)
      BY <2>1, <2>2, <2>3, <2>4, <2>5, <2>12, AllRead
    <3>2. parsed.pos = k + 1 /\ parsed.v = m.v /\ parsed.error = NoError
      BY <2>2, <2>8, <3>1, ReadIs
    <3> QED BY <2>10, <3>2
  <2>13. m.ok \in BOOLEAN
    BY <2>8 DEF Values
  <2>14. Agrees(value, m)
    BY <2>11, <2>12, <2>13 DEF Agrees
  <2>15. value.v \in Int
    BY <2>7, <2>10, Fields
  <2> QED BY <2>4, <2>5, <2>14, <2>15
<1> QED BY <1>1, <1>2

-------------------------------------------------------------------------------
(* In every state of a script the variables have values and the line being    *)
(* read is made of tokens.                                                    *)
ScriptInv == HasValues(vars) /\ tokens \in Seq(Tokens)

(* No variable has no value.                                                  *)
LEMMA NoVarsHaveValues == HasValues(NoVars)
BY DEF HasValues, NoVars

(* A script starts without variables and tokens.                              *)
LEMMA ScriptInvInit == ScriptInit => ScriptInv
BY NoVarsHaveValues DEF ScriptInit, ScriptInv

(* set_var stores a value.                                                    *)
LEMMA SetVarHasValues ==
  ASSUME HasValues(vars), NEW x, NEW v \in Int
  PROVE  HasValues(SetVar(x, v))
<1>1. PICK f : f = SetVar(x, v)
  OBVIOUS
<1>2. DOMAIN f = DOMAIN vars \cup {x}
  BY <1>1 DEF SetVar
<1>3. ASSUME NEW y \in DOMAIN f  PROVE f[y] \in Int
  <2>1. f[y] = IF y = x THEN v ELSE vars[y]
    BY <1>1, <1>2, <1>3 DEF SetVar
  <2>2. y # x => vars[y] \in Int
    BY <1>2, <1>3 DEF HasValues
  <2> QED BY <2>1, <2>2
<1> QED BY <1>1, <1>3 DEF HasValues

(* Every step of a script keeps the invariant.                                *)
LEMMA ScriptInvNext ==
  ASSUME ScriptInv, [ScriptNext]_scvars
  PROVE  ScriptInv'
<1>1. HasValues(vars) /\ tokens \in Seq(Tokens)
  BY DEF ScriptInv
<1>2. CASE UNCHANGED scvars
  BY <1>1, <1>2 DEF ScriptInv, scvars, HasValues
<1>3. CASE RunScript
  BY <1>1, <1>3 DEF ScriptInv, RunScript, HasValues
<1>4. CASE ReadToken
  <2>1. PICK t \in Tokens : tokens' = Append(tokens, t)
    BY <1>4 DEF ReadToken
  <2>2. vars' = vars
    BY <1>4 DEF ReadToken
  <2>3. Append(tokens, t) \in Seq(Tokens)
    BY <1>1, <2>1
  <2>4. tokens' \in Seq(Tokens)
    BY <2>1, <2>3
  <2> QED BY <1>1, <2>2, <2>4 DEF ScriptInv, HasValues
<1>5. CASE ExecLine
  <2>1. <<>> \in Seq(Tokens)
    OBVIOUS
  <2>2. tokens' = <<>>
    BY <1>5 DEF ExecLine, Ended
  <2>3. \/ vars' = vars
        \/ \E x \in VarNames : vars' = SetVar(x, Eval(vars, tokens).v)
        \/ vars' = NoVars
    BY <1>5 DEF ExecLine, Ended
  <2>4. CASE vars' = vars
    BY <1>1, <2>1, <2>2, <2>4 DEF ScriptInv, HasValues
  <2>5. CASE \E x \in VarNames : vars' = SetVar(x, Eval(vars, tokens).v)
    <3>1. PICK x \in VarNames : vars' = SetVar(x, Eval(vars, tokens).v)
      BY <2>5
    <3>2. Eval(vars, tokens).v \in Int
      BY <1>1, EvalIsMeaning
    <3>3. HasValues(SetVar(x, Eval(vars, tokens).v))
      BY <1>1, <3>2, SetVarHasValues
    <3> QED BY <2>1, <2>2, <3>1, <3>3 DEF ScriptInv, HasValues
  <2>6. CASE vars' = NoVars
    BY <2>1, <2>2, <2>6, NoVarsHaveValues DEF ScriptInv, HasValues
  <2> QED BY <2>3, <2>4, <2>5, <2>6
<1> QED BY <1>2, <1>3, <1>4, <1>5 DEF ScriptNext

(* The invariant says enough for every line.                                  *)
LEMMA ScriptInvMeans == ScriptInv => ValueIsMeaning
<1>1. ASSUME ScriptInv  PROVE ValueIsMeaning
  <2>1. Agrees(Eval(vars, tokens), Meaning(vars, tokens))
    BY <1>1, EvalIsMeaning DEF ScriptInv
  <2> QED BY <2>1 DEF ValueIsMeaning, Agrees
<1> QED BY <1>1

(* What a script or calc computes from an expression is what the expression   *)
(* means, and an error is reported when it means nothing: whatever the        *)
(* numbers and the variables are, and however long the expression is (eval).  *)
THEOREM ValueIsMeaningTheorem == ScriptSpec => []ValueIsMeaning
<1>1. ScriptInit => ScriptInv
  BY ScriptInvInit
<1>2. ScriptInv /\ [ScriptNext]_scvars => ScriptInv'
  BY ScriptInvNext
<1>3. ScriptInv => ValueIsMeaning
  BY ScriptInvMeans
<1> QED BY <1>1, <1>2, <1>3, PTL DEF ScriptSpec
================================================================================
