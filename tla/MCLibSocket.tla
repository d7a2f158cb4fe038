----------------------------- MODULE MCLibSocket -----------------------------
(* Instances of LibSocket for TLC. *)
EXTENDS LibSocket
=============================================================================
