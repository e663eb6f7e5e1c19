------------------------------- MODULE ShellLine -------------------------------
(* The line of the shell (shell/mod.rs): read_line with its history, the      *)
(* completion of commands, and what of it is seen on the console.             *)
EXTENDS Console

CONSTANTS
  LINE_MAX, HISTORY_MAX,
  Letters,    \* characters the user types, Blank among them
  COMMANDS,   \* the commands, in their order
  MaxKeys     \* bound: keys

(* The prompt and a line leave the last row of the screen free: a screen of    *)
(* 80 by 25 has room for far more than the 128 characters of a line.          *)
ASSUME LineAssumption ==
  /\ LINE_MAX \in Nat \ {0} /\ HISTORY_MAX \in Nat \ {0} /\ MaxKeys \in Nat
  /\ LINE_MAX <= Columns * (Lines - 1)
  /\ Blank \in Letters /\ Newline \notin Letters /\ Rubout \notin Letters
  /\ COMMANDS \in Seq(Seq(Letters)) /\ \A i \in DOMAIN COMMANDS : Len(COMMANDS[i]) <= LINE_MAX

VARIABLES
  screen,
  line,       \* buf up to len
  history, histIdx,
  keys        \* bound

lvars == <<screen, line, history, histIdx, keys>>

Prompt == <<">">>           \* print_prompt
Times(ch, k) == [i \in 1 .. k |-> ch]

LineInit ==
  /\ screen = Put(Cleared, Prompt) /\ line = <<>>
  /\ history = <<>> /\ histIdx = 0 /\ keys = 0

(* A key hides the cursor, whatever it does. *)
Key(shown, newLine) ==
  /\ keys < MaxKeys /\ keys' = keys + 1
  /\ screen' = shown /\ line' = newLine

Blink == screen' = ToggleCursor(screen) /\ UNCHANGED <<line, history, histIdx, keys>>

Type(ch) ==
  /\ Len(line) < LINE_MAX
  /\ Key(Put(screen, <<ch>>), Append(line, ch))
  /\ UNCHANGED <<history, histIdx>>

Erase ==
  /\ line # <<>>
  /\ Key(Put(screen, <<Rubout>>), Front(line))
  /\ UNCHANGED <<history, histIdx>>

(* replace_line: the text on the screen goes and the new one comes. *)
Replaced(s, text) == Put(Put(s, Times(Rubout, Len(line))), text)

KeyUp ==
  /\ histIdx > 0 /\ histIdx' = histIdx - 1
  /\ Key(Replaced(screen, history[histIdx]), history[histIdx])
  /\ UNCHANGED history

KeyDown ==
  /\ histIdx < Len(history) /\ histIdx' = histIdx + 1
  /\ LET text == IF histIdx + 1 = Len(history) THEN <<>> ELSE history[histIdx + 2]
     IN  Key(Replaced(screen, text), text)
  /\ UNCHANGED history

(* tab_complete: one command that begins like the line takes its place; of    *)
(* several a list is printed, and the prompt and the line again.              *)
Matching == {i \in DOMAIN COMMANDS : IsPrefix(line, COMMANDS[i])}
Listed ==
  FlattenSeq([i \in DOMAIN COMMANDS |->
                IF i \in Matching THEN COMMANDS[i] \o <<Blank, Blank>> ELSE <<>>])

KeyTab ==
  /\ Blank \notin Range(line) /\ Matching # {}
  /\ \/ \E i \in Matching : Matching = {i} /\ Key(Replaced(screen, COMMANDS[i]), COMMANDS[i])
     \/ /\ \A i \in Matching : Matching # {i}
        /\ Key(Put(screen, <<Newline>> \o Listed \o <<Newline>> \o Prompt \o line), line)
  /\ UNCHANGED <<history, histIdx>>

(* trim *)
Kept == {i \in 1 .. Len(line) : line[i] # Blank}
Trimmed ==
  IF Kept = {} THEN <<>>
  ELSE SubSeq(line, CHOOSE i \in Kept : \A j \in Kept : i <= j,
                    CHOOSE i \in Kept : \A j \in Kept : i >= j)

(* push_history: not twice in a row, and the oldest goes. *)
Pushed(text) ==
  LET longer == IF history # <<>> /\ Last(history) = text THEN history ELSE Append(history, text)
  IN  IF Len(longer) > HISTORY_MAX THEN Tail(longer) ELSE longer

(* handle prints a line or clears the screen; an empty line does nothing. *)
KeyEnter ==
  /\ LET ended == Put(screen, <<Newline>>) IN
     IF Trimmed = <<>> THEN Key(Put(ended, Prompt), <<>>) /\ UNCHANGED history
     ELSE /\ \/ Key(Put(ended, <<"?", Newline>> \o Prompt), <<>>)
             \/ Key(Put(Cleared, Prompt), <<>>)
          /\ history' = Pushed(Trimmed)
  /\ histIdx' = Len(history')

LineNext == Blink \/ Erase \/ KeyUp \/ KeyDown \/ KeyTab \/ KeyEnter \/ \E ch \in Letters : Type(ch)

LineSpec == LineInit /\ [][LineNext]_lvars

-------------------------------------------------------------------------------

(* The cells of the screen one after the other. *)
Cell(place) == screen.cell[place \div Columns][place % Columns]
Here == screen.row * Columns + screen.col

(* What stands on the screen behind the prompt is the line Enter will run,    *)
(* and nothing stands behind it, through the ends of rows, scrolling, the     *)
(* blinking cursor, history and completion: backspace on the console takes    *)
(* back exactly what a character put there.                                   *)
ShownIsLine ==
  /\ \A i \in 1 .. Len(line) : Cell(Here - Len(line) + i - 1) = line[i]
  /\ Cell(Here - Len(line) - 1) = Prompt[1]
  /\ \A place \in Here .. Columns * Lines - 1 :
       Cell(place) = IF place = Here /\ screen.cursor /\ screen.col < Columns THEN Block ELSE Blank
================================================================================
