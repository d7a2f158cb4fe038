----------------------------- MODULE MCNetClock -----------------------------
(* Instances of NetClock for TLC; the bounds are in the cfg files. *)
EXTENDS NetClock, TLC

(* A backward, a plausible and an absurd step, in seconds. *)
AllJumps == {-1, 1, 4}

=============================================================================
