-------------------------------- MODULE Script --------------------------------
(* The script language (apps/script.rs), which calc and run use: its          *)
(* evaluator by recursive descent, and what an expression means.  Names and   *)
(* numbers are tokens already; numbers are 64 bits wide in the code and are   *)
(* kept far below that here.                                                  *)
EXTENDS Arithmetic, Sequences, FiniteSets, SequencesExt

CONSTANTS
  Numbers,    \* numbers that occur in expressions
  VarNames,   \* variables
  MaxTokens   \* bound: tokens of a script, all lines together

ASSUME ScriptAssumption == Numbers \subseteq Nat /\ MaxTokens \in Nat

VARIABLES
  vars,       \* Interp.vars
  tokens,     \* the expression of the line being read
  script      \* what became of the script, and the tokens read so far

scvars == <<vars, tokens, script>>

Num(k) == [kind |-> "num", value |-> k]
Ident(x) == [kind |-> "ident", value |-> x]
Op(o) == [kind |-> o, value |-> 0]
Tokens == {Num(k) : k \in Numbers} \cup {Ident(x) : x \in VarNames}
          \cup {Op(o) : o \in {"+", "-", "*", "/", "(", ")"}}

NoError == "none"

-------------------------------------------------------------------------------
(* The evaluator.  A parse is at token pos with a value and the last error;   *)
(* after an error it goes on.                                                 *)

At(ts, pos) == IF pos <= Len(ts) THEN ts[pos].kind ELSE "end"
Result(pos, v, error) == [pos |-> pos, v |-> v, error |-> error]
Errors == {NoError, "expected_value", "undefined_variable", "missing_bracket", "unexpected_token", "division_by_zero"}
Results == [pos : Nat \ {0}, v : Int, error : Errors]

(* The methods call each other: parse is what each returns, called at a token *)
(* with an error, and a loop goes on with the value it has so far.            *)
Rules == {"add_sub", "add_sub_rest", "mul_div", "mul_div_rest", "atom"}

ParseAtom(parse, vs, ts, here) ==
  LET kind == At(ts, here.pos)
      next == Result(here.pos + 1, 0, here.error)
  IN  CASE kind = "end" -> Result(here.pos, 0, "expected_value")
        [] kind = "num" -> Result(here.pos + 1, ts[here.pos].value, here.error)
        [] kind = "ident" ->
             LET x == ts[here.pos].value IN
             IF x \in DOMAIN vs THEN Result(here.pos + 1, vs[x], here.error)
             ELSE Result(here.pos + 1, 0, "undefined_variable")
        [] kind = "(" ->
             LET inner == parse[<<"add_sub", next>>] IN
             IF At(ts, inner.pos) = ")" THEN Result(inner.pos + 1, inner.v, inner.error)
             ELSE Result(inner.pos, inner.v, "missing_bracket")
        [] kind = "-" ->
             LET inner == parse[<<"atom", next>>] IN Result(inner.pos, -inner.v, inner.error)
        [] OTHER -> Result(here.pos, 0, "unexpected_token")

(* Mistake: of a product only the first two factors are taken. *)
MulDivRestOnce(parse, ts, left) ==
  LET right == parse[<<"atom", Result(left.pos + 1, 0, left.error)>>]
  IN  IF At(ts, left.pos) = "*" THEN Result(right.pos, left.v * right.v, right.error) ELSE left

(* A division by zero leaves this level at once, with the value 0. *)
MulDivRest(parse, ts, left) ==
  LET kind == At(ts, left.pos)
      right == parse[<<"atom", Result(left.pos + 1, 0, left.error)>>]
      GoOn(v) == parse[<<"mul_div_rest", Result(right.pos, v, right.error)>>]
  IN  CASE kind = "*" -> GoOn(left.v * right.v)
        [] kind = "/" /\ right.v = 0 -> Result(right.pos, 0, "division_by_zero")
        [] kind = "/" /\ right.v # 0 -> GoOn(Quotient(left.v, right.v))
        [] OTHER -> left

ParseMulDiv(parse, here) == parse[<<"mul_div_rest", parse[<<"atom", here>>]>>]

AddSubRest(parse, ts, left) ==
  LET kind == At(ts, left.pos)
      right == parse[<<"mul_div", Result(left.pos + 1, 0, left.error)>>]
      GoOn(v) == parse[<<"add_sub_rest", Result(right.pos, v, right.error)>>]
  IN  CASE kind = "+" -> GoOn(left.v + right.v)
        [] kind = "-" -> GoOn(left.v - right.v)
        [] OTHER -> left

ParseAddSub(parse, here) == parse[<<"add_sub_rest", parse[<<"mul_div", here>>]>>]

Returned(parse, vs, ts, rule, here) ==
  CASE rule = "add_sub"      -> ParseAddSub(parse, here)
    [] rule = "add_sub_rest" -> AddSubRest(parse, ts, here)
    [] rule = "mul_div"      -> ParseMulDiv(parse, here)
    [] rule = "mul_div_rest" -> MulDivRest(parse, ts, here)
    [] rule = "atom"         -> ParseAtom(parse, vs, ts, here)

ParseAll(vs, ts) ==
  LET parse[call \in Rules \X Results] == Returned(parse, vs, ts, call[1], call[2])
  IN  parse[<<"add_sub", Result(1, 0, NoError)>>]

Eval(vs, ts) ==
  LET parsed == ParseAll(vs, ts) IN
  IF ts = <<>> THEN Result(1, 0, "empty_expression")
  ELSE IF parsed.pos # Len(ts) + 1 /\ parsed.error = NoError
       THEN Result(parsed.pos, parsed.v, "unexpected_tokens") ELSE parsed

-------------------------------------------------------------------------------
(* What an expression means, without reading it from left to right: where it  *)
(* is not a single value, the operator that is applied last splits it.        *)

Known(v) == [ok |-> TRUE, v |-> v]
Unknown == [ok |-> FALSE, v |-> 0]

Depth(ts, i) ==
  LET upTo(kind) == Cardinality({j \in 1 .. i : ts[j].kind = kind}) IN upTo("(") - upTo(")")

(* In the tokens from .. to, operators between two values, outside of brackets. *)
Splits(ts, from, to, ops) ==
  {i \in from + 1 .. to - 1 :
     /\ ts[i].kind \in ops /\ Depth(ts, i) = Depth(ts, from - 1)
     /\ ts[i - 1].kind \in {"num", "ident", ")"}}

Applied(op, a, b) ==
  IF ~a.ok \/ ~b.ok \/ (op = "/" /\ b.v = 0) THEN Unknown
  ELSE Known(CASE op = "+" -> a.v + b.v
               [] op = "-" -> a.v - b.v
               [] op = "*" -> a.v * b.v
               [] op = "/" -> Quotient(a.v, b.v))

(* A number, a variable, a sign and a value, or an expression in brackets. *)
SingleMeaning(means, vs, ts, from, to) ==
  LET first == ts[from]
      rest == means[<<from + 1, to>>]
  IN  CASE first.kind = "num" /\ from = to -> Known(first.value)
        [] first.kind = "ident" /\ from = to /\ first.value \in DOMAIN vs -> Known(vs[first.value])
        [] first.kind = "-" /\ rest.ok -> Known(-rest.v)
        [] first.kind = "(" /\ ts[to].kind = ")" -> means[<<from + 1, to - 1>>]
        [] OTHER -> Unknown

MeaningOf(means, vs, ts, from, to) ==
  LET sums == Splits(ts, from, to, {"+", "-"})
      products == Splits(ts, from, to, {"*", "/"})
      i == Max(IF sums # {} THEN sums ELSE products)
  IN  IF from > to THEN Unknown
      ELSE IF sums \cup products = {} THEN SingleMeaning(means, vs, ts, from, to)
      ELSE Applied(ts[i].kind, means[<<from, i - 1>>], means[<<i + 1, to>>])

Meaning(vs, ts) ==
  LET means[part \in (1 .. Len(ts) + 1) \X (0 .. Len(ts))] == MeaningOf(means, vs, ts, part[1], part[2])
  IN  means[<<1, Len(ts)>>]

-------------------------------------------------------------------------------
(* run_file, line by line; calc is a script of one line that prints.  A line  *)
(* is a let or a print of the tokens read; any other line is an error, and    *)
(* the first error ends the script.                                           *)

NoVars == [x \in {} |-> 0]

ScriptInit ==
  /\ vars = NoVars /\ tokens = <<>>
  /\ script = [state |-> "none", read |-> 0]

RunScript ==
  /\ script.state = "none" /\ script' = [script EXCEPT !.state = "running"]
  /\ UNCHANGED <<vars, tokens>>

ReadToken ==
  /\ script.state = "running" /\ script.read < MaxTokens
  /\ \E t \in Tokens : tokens' = Append(tokens, t)
  /\ script' = [script EXCEPT !.read = @ + 1]
  /\ UNCHANGED vars

(* set_var updates a variable or adds it. *)
SetVar(x, v) == [y \in DOMAIN vars \cup {x} |-> IF y = x THEN v ELSE vars[y]]

Ended == script' = [script EXCEPT !.state = "none"] /\ tokens' = <<>> /\ vars' = NoVars

ExecLine ==
  LET value == Eval(vars, tokens) IN
  /\ script.state = "running"
  /\ \/ /\ value.error = NoError
        /\ \/ UNCHANGED vars
           \/ \E x \in VarNames : vars' = SetVar(x, value.v)
        /\ tokens' = <<>> /\ UNCHANGED script
     \/ Ended

ScriptNext == RunScript \/ ReadToken \/ ExecLine

ScriptSpec == ScriptInit /\ [][ScriptNext]_scvars

-------------------------------------------------------------------------------

(* The value the evaluator gives to an expression, and whether it reports an  *)
(* error, is what the expression means: products before sums, from the left,  *)
(* signs and brackets first, no value from half of an expression (eval).      *)
ValueIsMeaning ==
  script.state = "running" =>
    LET value == Eval(vars, tokens)
        meaning == Meaning(vars, tokens)
    IN  /\ (value.error = NoError) = meaning.ok
        /\ meaning.ok => value.v = meaning.v
================================================================================
