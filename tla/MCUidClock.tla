----------------------------- MODULE MCUidClock -----------------------------
(* Instances of UidClock for TLC. *)
EXTENDS UidClock

CONSTANTS p1, p2
=============================================================================
