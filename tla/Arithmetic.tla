------------------------------ MODULE Arithmetic ------------------------------
(* What the script language and the calculator compute with.                  *)
EXTENDS Integers

Abs(x) == IF x < 0 THEN -x ELSE x

(* Division of Rust goes towards zero. *)
Quotient(a, b) ==
  LET q == Abs(a) \div Abs(b) IN IF (a < 0) = (b < 0) THEN q ELSE -q
================================================================================
