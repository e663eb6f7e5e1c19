--------------------------------- MODULE MCPs2 ---------------------------------
(* A keyboard of a few keys, each there for the path it takes through the  *)
(* decoders.                                                               *)
EXTENDS Ps2

Key(make, ext) == [make |-> make, ext |-> ext]

(* Both control keys, the arrow and the keypad key of the same make code,  *)
(* and the keys that change the loop. *)
FewKeys ==
  {Key("ctrl", FALSE), Key("ctrl", TRUE), Key("win", TRUE), Key("arrow", TRUE),
   Key("arrow", FALSE), Key("space", FALSE), Key("enter", FALSE), Key("esc", FALSE)}

ConsoleKeys == {Key("enter", FALSE), Key("esc", FALSE)}
===============================================================================
