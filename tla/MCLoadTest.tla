----------------------------- MODULE MCLoadTest -----------------------------
(* An instance of LoadTest for TLC: two tests of one user each, two nodes; one *)
(* message of a newer client, one with every field at its default.  With Exact *)
(* at 4, 10 is as near to 8 as to 12, and 4095, the last int64, becomes 4096.  *)
EXTENDS LoadTest

CONSTANTS s1, s2, v1, v2, n1, n2

OneEach == [v \in VU |-> IF v = v1 THEN s1 ELSE s2]
AllOne  == [v \in VU |-> s1]

Newer   == [type |-> 2, content |-> "hello", timestamp |-> -10, more |-> TRUE]
Empty   == [type |-> 0, content |-> "", timestamp |-> 0, more |-> FALSE]
Times   == {0, 1, -10, 4095}
Sent    == {Newer, Empty}
=============================================================================
