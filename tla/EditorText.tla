------------------------------ MODULE EditorText -------------------------------
(* What the editor promises (the keys as apps/editor.rs names them): a text  *)
(* is a sequence of lines, a cursor stands on a character of a line or, while*)
(* text is inserted, between two.  How the lines lie in memory is left to    *)
(* Editor.tla, which implements this.                                        *)
EXTENDS Integers, Sequences, SequencesExt

CONSTANTS
  ROWS, COLS,   \* lines of a text and characters of a line
  Chars, Space  \* characters, and the one that ends a word

VARIABLES lines, row, col, mode   \* rows and columns count from 1

tvars == <<lines, row, col, mode>>

Line == lines[row]
SetLine(line) == lines' = [lines EXCEPT ![row] = line]

(* The cursor stays on a character; where a line is empty, at its start. *)
OnChar(line, c) == IF line = <<>> THEN 1 ELSE IF c > Len(line) THEN Len(line) ELSE c

MoveTo(r, c) == row' = r /\ col' = c /\ UNCHANGED <<lines, mode>>
Move ==
  /\ mode = "normal"
  /\ \/ col > 1 /\ MoveTo(row, col - 1)
     \/ col < Len(Line) /\ MoveTo(row, col + 1)
     \/ row < Len(lines) /\ MoveTo(row + 1, OnChar(lines[row + 1], col))
     \/ row > 1 /\ MoveTo(row - 1, OnChar(lines[row - 1], col))
     \/ MoveTo(row, 1)
     \/ MoveTo(row, OnChar(Line, Len(Line)))

(* i, a, A and I. *)
StartInsert ==
  /\ mode = "normal" /\ mode' = "insert"
  /\ col' \in {col, IF Line = <<>> THEN col ELSE col + 1, Len(Line) + 1, 1}
  /\ UNCHANGED <<lines, row>>

EndInsert ==
  /\ mode = "insert" /\ mode' = "normal"
  /\ col' = OnChar(Line, IF col > 1 THEN col - 1 ELSE 1)
  /\ UNCHANGED <<lines, row>>

Insert ==
  /\ mode = "insert" /\ Len(Line) < COLS
  /\ \E ch \in Chars : SetLine(InsertAt(Line, col, ch))
  /\ col' = col + 1
  /\ UNCHANGED <<row, mode>>

SplitLine ==
  /\ mode = "insert" /\ Len(lines) < ROWS
  /\ lines' = SubSeq(lines, 1, row - 1)
                \o <<SubSeq(Line, 1, col - 1), SubSeq(Line, col, Len(Line))>>
                \o SubSeq(lines, row + 1, Len(lines))
  /\ row' = row + 1 /\ col' = 1
  /\ UNCHANGED mode

(* Backspace: within the line, or joining it to the one before. *)
Erase ==
  /\ mode = "insert"
  /\ \/ col > 1 /\ SetLine(RemoveAt(Line, col - 1)) /\ col' = col - 1 /\ UNCHANGED row
     \/ /\ col = 1 /\ row > 1 /\ Len(lines[row - 1]) + Len(Line) <= COLS
        /\ lines' = RemoveAt(ReplaceAt(lines, row - 1, lines[row - 1] \o Line), row)
        /\ row' = row - 1 /\ col' = Len(lines[row - 1]) + 1
  /\ UNCHANGED mode

DeleteChar ==
  /\ mode = "normal" /\ Line # <<>>
  /\ SetLine(RemoveAt(Line, col))
  /\ col' = OnChar(RemoveAt(Line, col), col)
  /\ UNCHANGED <<row, mode>>

DeleteLine ==
  /\ mode = "normal"
  /\ IF Len(lines) = 1 THEN lines' = <<<<>>>> /\ UNCHANGED row
     ELSE lines' = RemoveAt(lines, row) /\ row' = IF row = Len(lines) THEN row - 1 ELSE row
  /\ col' = 1
  /\ UNCHANGED mode

(* The characters from the cursor to the end of the word, and the spaces     *)
(* behind it.                                                                *)
DeleteWord ==
  /\ mode = "normal" /\ Line # <<>>
  /\ \E word \in col .. Len(Line) + 1, next \in col .. Len(Line) + 1 :
       /\ word <= next
       /\ \A i \in col .. word - 1 : Line[i] # Space
       /\ word <= Len(Line) => Line[word] = Space
       /\ \A i \in word .. next - 1 : Line[i] = Space
       /\ next <= Len(Line) => Line[next] # Space
       /\ LET left == SubSeq(Line, 1, col - 1) \o SubSeq(Line, next, Len(Line))
          IN  SetLine(left) /\ col' = OnChar(left, col)
  /\ UNCHANGED <<row, mode>>

(* o, also when there is no room for a line. *)
OpenLine ==
  /\ mode = "normal" /\ mode' = "insert"
  /\ IF Len(lines) = ROWS THEN UNCHANGED <<lines, row, col>>
     ELSE lines' = InsertAt(lines, row + 1, <<>>) /\ row' = row + 1 /\ col' = 1

(* The command line is opened or left; commands leave the text alone. *)
CommandLine ==
  /\ <<mode, mode'>> \in {<<"normal", "command">>, <<"command", "normal">>}
  /\ UNCHANGED <<lines, row, col>>

Blank == lines = <<<<>>>> /\ row = 1 /\ col = 1 /\ mode = "closed"
Close == mode = "command" /\ Blank'

(* A file is opened: any text that fits. *)
Open ==
  /\ mode = "closed"
  /\ Len(lines') \in 1 .. ROWS /\ \A i \in 1 .. Len(lines') : Len(lines'[i]) <= COLS
  /\ row' = 1 /\ col' = 1 /\ mode' = "normal"

TextNext ==
  \/ Move \/ StartInsert \/ EndInsert \/ Insert \/ SplitLine \/ Erase \/ DeleteChar
  \/ DeleteLine \/ DeleteWord \/ OpenLine \/ CommandLine \/ Close \/ Open

TextSpec == Blank /\ [][TextNext]_tvars
================================================================================
