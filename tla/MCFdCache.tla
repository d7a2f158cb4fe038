----------------------------- MODULE MCFdCache -----------------------------
(* Small instances of FdCache for TLC; the values are in the cfg files. *)
EXTENDS FdCache
=============================================================================
