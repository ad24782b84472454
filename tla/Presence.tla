------------------------------ MODULE Presence ------------------------------
(***************************************************************************)
(* What im-connect promises to the services behind Kafka about each        *)
(* WebSocket session: an ONLINE event, then the session's messages, then   *)
(* one OFFLINE event and nothing more.  The connect nodes' load, and the   *)
(* routing of every channel message, are computed from these records.      *)
(* ConnectHub is the implementation.                                       *)
(***************************************************************************)
EXTENDS Naturals, Sequences

CONSTANTS Session,      \* WebSocket connections over the life of the node
          MaxFrames     \* bound on the message frames of one session

VARIABLE published      \* published[s]: the records sent on behalf of s

Ends(s) == published[s][Len(published[s])]

Append1(s, kind) == published' = [published EXCEPT ![s] = Append(@, kind)]

Init == published = [s \in Session |-> <<>>]

Online(s) ==
    /\ published[s] = <<>>
    /\ Append1(s, "ONLINE")

Message(s) ==
    /\ published[s] # <<>>
    /\ Ends(s) # "OFFLINE"
    /\ Len(published[s]) =< MaxFrames
    /\ Append1(s, "MESSAGE")

Offline(s) ==
    /\ published[s] # <<>>
    /\ Ends(s) # "OFFLINE"
    /\ Append1(s, "OFFLINE")

Next == \E s \in Session: Online(s) \/ Message(s) \/ Offline(s)

Spec == Init /\ [][Next]_published
=============================================================================
