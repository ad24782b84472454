----------------------------- MODULE MCNodeLoad -----------------------------
(* Instances of NodeLoad for TLC. *)
EXTENDS NodeLoad, TLC

CONSTANTS n1, n2, n3, c1, c2, w1, w2

Symmetric == Permutations(Node)
=============================================================================
