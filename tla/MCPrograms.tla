------------------------------ MODULE MCPrograms ------------------------------
EXTENDS Programs
MCNames == <<"a", "b">>
MCCommands == <<<<"l", "s">>, <<"l", "l">>, <<"s", "l", "l">>>>
MCSongs == <<9, 4, 2>>

(* On the disk: a text with a space and two lines, or one that is too long for *)
(* the editor in both directions.                                              *)
Small == <<<<"x", " ", "x">>, <<"x">>>>
Large == <<<<"x", "x", "x", "x">>, <<>>, <<"x", "x">>, <<"x">>>>
Disk(file) ==
  0 :> [dir |-> TRUE, parent |-> 0, name |-> "/", content |-> <<>>]
  @@ 1 :> [dir |-> FALSE, parent |-> 0, name |-> "a", content |-> file]
MCDisks == {Disk(Small), Disk(Large)}

(* The window lies in cells 4 to 12 of 15, the terminal's icon behind it.      *)
MCIcons == <<"Clock", "Paint", "Player", "Terminal">>
MCIconX == "Clock" :> 0 @@ "Paint" :> 1 @@ "Player" :> 2 @@ "Terminal" :> 14
MCMoves == {-6, -1, 0, 2}
================================================================================
