---------------------------- MODULE MCConnectHub ----------------------------
(* Instances of ConnectHub for TLC: every session on one event loop, or every  *)
(* session on a loop of its own.                                               *)
EXTENDS ConnectHub, TLC

CONSTANTS s1, s2, s3, l1, c1, c2

OneLoop == [s \in Session |-> l1]
OwnLoop == [s \in Session |-> s]

Symmetric == Permutations(Session) \cup Permutations(Channel)
=============================================================================
