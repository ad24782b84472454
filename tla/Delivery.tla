------------------------------ MODULE Delivery ------------------------------
(***************************************************************************)
(* What a client hears of a connection to a connect node: the packets      *)
(* written to the connection, in the order they were written, each at most *)
(* once, each with the field values it was built with, as JavaScript holds *)
(* them; when the connection ends, the rest is lost.  LoadTest, with the   *)
(* wire format, implements it.                                             *)
(***************************************************************************)
EXTENDS Naturals, Sequences

CONSTANTS Client,       \* the clients, each with one connection at a time
          Content       \* the packets a node may send, field values by name

VARIABLES sent,         \* sent[v]: packets written to v's present connection
          heard         \* heard[v]: packets v has been handed

Init == /\ sent  = [v \in Client |-> <<>>]
        /\ heard = [v \in Client |-> <<>>]

Put(v, p) ==
    /\ sent' = [sent EXCEPT ![v] = Append(@, p)]
    /\ UNCHANGED heard

Get(v) ==
    /\ Len(heard[v]) < Len(sent[v])
    /\ heard' = [heard EXCEPT ![v] = Append(@, sent[v][Len(@) + 1])]
    /\ UNCHANGED sent

Cut(v) ==
    /\ sent'  = [sent  EXCEPT ![v] = <<>>]
    /\ heard' = [heard EXCEPT ![v] = <<>>]

Next == \E v \in Client: \/ \E p \in Content: Put(v, p)
                         \/ Get(v)
                         \/ Cut(v)

Spec == Init /\ [][Next]_<<sent, heard>>
=============================================================================
