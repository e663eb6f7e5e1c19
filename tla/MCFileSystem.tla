----------------------------- MODULE MCFileSystem -----------------------------
(* The file system on a small disk. *)
EXTENDS FileSystem

===============================================================================
