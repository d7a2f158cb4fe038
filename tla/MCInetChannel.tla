--------------------------- MODULE MCInetChannel ---------------------------
(* Small instances of InetChannel for TLC. *)
EXTENDS InetChannel
=============================================================================
