------------------------------ MODULE Calculator ------------------------------
(* The calculator window (gui/widgets/calc.rs).  It keeps the number on its   *)
(* display as text, and computes with what it reads there.  The build checks  *)
(* its arithmetic (the profile dev): a result that does not fit, or has no    *)
(* opposite and so cannot be shown, stops the kernel.                         *)
EXTENDS Arithmetic, Sequences, SequencesExt

CONSTANTS
  Digits,      \* digits that are pressed
  MaxDigits,   \* digits the display takes, 10 in the code
  Limit,       \* the largest number, 2^63 - 1 in the code
  MaxPressed   \* bound: keys pressed since the last C

ASSUME CalculatorAssumption ==
  /\ Digits \subseteq 0 .. 9 /\ MaxDigits \in Nat \ {0}
  /\ Limit \in Nat /\ Limit + 1 >= 10 ^ MaxDigits

VARIABLES
  calc,     \* Calc
  pressed   \* history: the keys since the last C

cvars == <<calc, pressed>>

Operators == {"+", "-", "*", "/", "="}
KeyOf(op, digit) == [op |-> op, digit |-> digit]

Number(digits) ==
  LET value[k \in 0 .. Len(digits)] == IF k = 0 THEN 0 ELSE 10 * value[k - 1] + digits[k]
  IN  value[Len(digits)]
(* Mistake: the sign on the display is passed over. *)
ParsedUnsigned(shown) == Number(shown.digits)
(* parse_i64 *)
Parsed(shown) == IF shown.neg THEN -Number(shown.digits) ELSE Number(shown.digits)

(* i64_to_string *)
TextOf(v) ==
  LET digits[n \in 0 .. Limit] == IF n < 10 THEN <<n>> ELSE Append(digits[n \div 10], n % 10)
  IN  [neg |-> v < 0, digits |-> digits[Abs(v)]]

NewCalc == [display |-> TextOf(0), acc |-> 0, pending |-> "none", fresh |-> TRUE, on |-> TRUE]

Computed(op, a, b) ==
  CASE op = "+" -> a + b
    [] op = "-" -> a - b
    [] op = "*" -> a * b
    [] op = "/" -> IF b = 0 THEN 0 ELSE Quotient(a, b)
    [] OTHER    -> b

(* press of a digit: it begins a new number after an operator. *)
PressDigit(d) ==
  LET before == IF calc.fresh \/ calc.display = TextOf(0) THEN <<>> ELSE calc.display.digits
      after == IF Len(before) < MaxDigits THEN Append(before, d) ELSE before
  IN  /\ calc' = [calc EXCEPT !.display = [neg |-> FALSE, digits |-> after], !.fresh = FALSE]
      /\ pressed' = Append(pressed, KeyOf("digit", d))

(* press of an operator: apply, and the new one waits for its second number. *)
PressOperator(op) ==
  LET v == Computed(calc.pending, calc.acc, Parsed(calc.display)) IN
  /\ calc' = IF Abs(v) > Limit THEN [calc EXCEPT !.on = FALSE]
             ELSE [calc EXCEPT !.acc = v, !.display = TextOf(v), !.fresh = TRUE,
                               !.pending = IF op = "=" THEN "none" ELSE op]
  /\ pressed' = Append(pressed, KeyOf(op, 0))

(* press of C; a window opened anew, after a restart too, is the same. *)
Clear == calc' = NewCalc /\ pressed' = <<>>

CalculatorInit == calc = NewCalc /\ pressed = <<>>
CalculatorNext ==
  \/ /\ calc.on /\ Len(pressed) < MaxPressed
     /\ (\E d \in Digits : PressDigit(d)) \/ (\E op \in Operators : PressOperator(op))
  \/ Clear

CalculatorSpec == CalculatorInit /\ [][CalculatorNext]_cvars

-------------------------------------------------------------------------------
(* What the keys mean.  The operand that ends before key i is the number      *)
(* typed there, without the zeros in front and cut off where the display is   *)
(* full, or where no number was typed the result of the operator before.      *)

OperatorsBefore(keys, i) == {j \in 1 .. i - 1 : keys[j].op \in Operators}
OperatorBefore(keys, i) ==
  LET before == OperatorsBefore(keys, i) IN IF before = {} THEN 0 ELSE Max(before)

TypedDigits(run) ==
  LET from == SelectInSeq(run, LAMBDA d : d # 0)
  IN  IF from = 0 THEN <<0>> ELSE SubSeq(run, from, Min({Len(run), from + MaxDigits - 1}))
RunBefore(keys, i) ==
  LET op == OperatorBefore(keys, i) IN [k \in 1 .. i - 1 - op |-> keys[op + k].digit]
OperandBefore(keys, i, result) ==
  IF OperatorBefore(keys, i) = i - 1 THEN result[i - 1] ELSE Number(TypedDigits(RunBefore(keys, i)))

(* The value after each operator, from the left to the right. *)
ResultAt(keys, i, result) ==
  LET before == OperatorBefore(keys, i) IN
  IF i = 0 \/ keys[i].op \notin Operators THEN 0
  ELSE IF before = 0 THEN OperandBefore(keys, i, result)
  ELSE Computed(keys[before].op, result[before], OperandBefore(keys, i, result))
Chain(keys) == LET result[i \in 0 .. Len(keys)] == ResultAt(keys, i, result) IN result

(* As long as no result is too large, the display shows the number being      *)
(* typed or the value of everything typed before, taken from the left to the  *)
(* right: writing a result as text and reading it again, the digit that       *)
(* begins a number and the operator that waits never get out of step (press,  *)
(* apply, parse_i64, i64_to_string).                                          *)
ShownIsChain ==
  calc.on =>
    LET end == Len(pressed) + 1 IN
    /\ Parsed(calc.display) = OperandBefore(pressed, end, Chain(pressed))
    /\ calc.acc = Chain(pressed)[OperatorBefore(pressed, end)]
================================================================================
