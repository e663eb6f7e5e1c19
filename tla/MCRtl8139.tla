------------------------------ MODULE MCRtl8139 ------------------------------
(* A ring of 32 bytes, frames that take 12 or 16 of them. *)
EXTENDS Rtl8139

(* One byte, four, and one more than the library's buffer holds. *)
FromNetwork == {1, 4, 6}
ToNetwork == {1, 4}

(* The ring goes round, with a frame going out; five frames go out, so that *)
(* the first buffer is used again, with a frame coming in.                  *)
FewFrames == {[rx |-> 5, tx |-> 0], [rx |-> 1, tx |-> 5]}
===============================================================================
