------------------------------ MODULE MCUidRing ------------------------------
(* Instances of UidRing for TLC. *)
EXTENDS UidRing, TLC

CONSTANTS t1, t2

Symmetric == Permutations(Taker)
=============================================================================
