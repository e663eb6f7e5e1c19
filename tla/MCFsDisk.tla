------------------------------- MODULE MCFsDisk -------------------------------
(* The file system on a small disk, one sector write at a time. *)
EXTENDS FsDisk

===============================================================================
