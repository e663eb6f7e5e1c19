-------------------------------- MODULE MCMemory --------------------------------
(* Machines of a few frames. *)
EXTENDS Memory

Region(base, length, usable) == [base |-> base, length |-> length, usable |-> usable]

(* No map at all; no region that holds the bitmap; machines that are full  *)
(* before the heap is there; usable memory in two parts, of which the first *)
(* is too small for the bitmap; and one part.                               *)
FewMaps ==
  {<<>>, <<Region(0, 1, TRUE)>>, <<Region(0, 2, TRUE)>>,
   <<Region(0, 1, TRUE), Region(1, 8, FALSE), Region(9, 1, TRUE)>>,
   <<Region(0, 2, FALSE), Region(2, 5, TRUE)>>,
   <<Region(0, 1, TRUE), Region(1, 1, FALSE), Region(2, 11, TRUE), Region(13, 2, FALSE),
     Region(15, 7, TRUE)>>,
   <<Region(0, 18, TRUE)>>}
================================================================================
