-------------------------- MODULE ConnectHub_proof --------------------------
(***************************************************************************)
(* Proofs about ConnectHub, for every set of sessions, channels and loops. *)
(*                                                                         *)
(* Inv is the inductive invariant.  It ties together, session by session,  *)
(* the four places that say where a session is: its callback (pc), the hub *)
(* (channelMap), the object it joined (home, clients) and the records sent *)
(* for it (published).  None of the properties is inductive alone: what    *)
(* channelInactive may do depends on what onOpen left behind.              *)
(* The last section shows that a node implements Presence.                 *)
(***************************************************************************)
EXTENDS ConnectHub, TLAPS

Opening == {"create", "join", "open"}
Closing == {"offline", "unmap", "size", "drop", "leave"}

(* The hub, the joined object and the callback of a session agree. *)
Registered(s) ==
    /\ channelMap[s] # None => channelMap[s] = req[s].cid
    /\ pc[s] = "http" => channelMap[s] = None
    /\ pc[s] \in Opening \cup {"offline", "unmap"} => channelMap[s] # None
    /\ pc[s] \in {"size", "drop", "leave"} => channelMap[s] = None
    /\ pc[s] \in Closing => home[s] # None /\ req[s].cid # None /\ req[s].uid
    /\ pc[s] \in {"http", "create"} => home[s] = None
    /\ home[s] # None => req[home[s]].cid = req[s].cid
    /\ \A o \in Session: s \in clients[o] => home[s] = o

(* Every object is listed under the channel id it was made for. *)
Listed == \A c \in Channel: channels[c] # None => req[channels[c]].cid = c

(* The records of a session agree with where it is. *)
Recorded(s) ==
    /\ pc[s] \in {"http"} \cup Opening => "ONLINE" \notin Said(s) /\ "OFFLINE" \notin Said(s)
    /\ ~req[s].uid => "ONLINE" \notin Said(s) /\ "OFFLINE" \notin Said(s)
    /\ pc[s] = "deliver" => req[s].uid /\ channelMap[s] # None
    /\ "OFFLINE" \in Said(s) =>
          /\ pc[s] \in {"unmap", "size", "drop", "leave", "closed"}
          /\ pc[s] # "unmap" => channelMap[s] = None
    /\ pc[s] \in {"unmap", "size", "drop", "leave"} => "OFFLINE" \in Said(s)
    /\ "ONLINE" \in Said(s) /\ channelMap[s] = None => "OFFLINE" \in Said(s)
    /\ ~BrokerFails /\ channelMap[s] # None /\ req[s].uid /\ pc[s] \notin Opening =>
          "ONLINE" \in Said(s)

(* The broadcast in progress stays within its channel. *)
Addressed ==
    bcast # None => /\ bcast.obj # None => req[bcast.obj].cid = bcast.to
                    /\ \A s \in bcast.seen: req[s].cid = bcast.to

Inv == /\ TypeOK
       /\ \A s \in Session: Registered(s)
       /\ Listed
       /\ \A s \in Session: Recorded(s)
       /\ Addressed

(* With all sessions on one loop, callbacks exclude each other, and the object *)
(* a registered session joined stays listed.                                   *)
Alone  == \A s, t \in Session: pc[s] \in Running /\ pc[t] \in Running => s = t

Kept(s) ==
    /\ pc[s] = "drop" => \A t \in Session: channelMap[t] = None
    /\ channelMap[s] # None /\ home[s] # None => channels[req[s].cid] = home[s]
    /\ home[s] # None /\ pc[s] \notin {"size", "drop", "leave", "closed"} =>
          channelMap[s] # None

OneLoopInv == Alone /\ \A s \in Session: Kept(s)

-----------------------------------------------------------------------------
(* What a record appended to a session's records changes of Said. *)
LEMMA AppendSaid ==
    ASSUME NEW q \in Seq(Kind), NEW new \in Kind
    PROVE  {Append(q, new)[i] : i \in 1 .. Len(Append(q, new))}
              = {q[i] : i \in 1 .. Len(q)} \cup {new}
OBVIOUS

(* A published record is added to what its session said, and to nobody else's. *)
LEMMA PublishSaid ==
    ASSUME TypeOK, NEW s \in Session, NEW new \in Kind, Publish(s, new)
    PROVE  /\ published' \in [Session -> Seq(Kind)]
           /\ Said(s)' = Said(s) \cup {new}
           /\ \A t \in Session \ {s}: Said(t)' = Said(t)
<1>1. /\ published \in [Session -> Seq(Kind)]
      /\ published' = [published EXCEPT ![s] = Append(@, new)]
  BY DEF TypeOK, Publish
<1>2. Said(s)' = Said(s) \cup {new}
  BY <1>1, AppendSaid DEF Said
<1>3. \A t \in Session \ {s}: Said(t)' = Said(t)
  BY <1>1 DEF Said
<1>4. QED
  BY <1>1, <1>2, <1>3

(* A node that just started, with no request answered yet, satisfies Inv. *)
LEMMA InitInv == Init => Inv
<1> SUFFICES ASSUME Init PROVE Inv
  OBVIOUS
<1>2. TypeOK
  BY DEF Init, TypeOK, Resting, Running
<1>3. \A s \in Session: Registered(s)
  BY DEF Init, Registered, Opening, Closing
<1>4. \A s \in Session: Recorded(s)
  <2>1. \A s \in Session: Said(s) = {}
    <3>1. \A s \in Session: published[s] = <<>>
      BY DEF Init
    <3>2. 1 .. Len(<<>>) = {}
      OBVIOUS
    <3>3. QED
      BY <3>1, <3>2 DEF Said
  <2>2. QED
    BY <2>1 DEF Init, Recorded, Opening
<1>5. Listed /\ Addressed
  BY DEF Init, Listed, Addressed
<1>6. QED
  BY <1>2, <1>3, <1>4, <1>5 DEF Inv

-----------------------------------------------------------------------------
(* Without a new record, what every session said stays. *)
LEMMA SaidSame ==
    published' = published => \A t \in Session: Said(t)' = Said(t)
BY DEF Said

(* What Send leaves behind, whichever way it ends. *)
LEMMA SendEffect ==
    ASSUME TypeOK, NEW s \in Session, NEW kind \in Kind,
           NEW sent \in Running \cup Resting, NEW thrown \in Running \cup Resting,
           Send(s, kind, sent, thrown)
    PROVE  /\ published' \in [Session -> Seq(Kind)]
           /\ \/ /\ pc' = [pc EXCEPT ![s] = sent]
                 /\ Said(s)' = Said(s) \cup {kind}
                 /\ \A t \in Session \ {s}: Said(t)' = Said(t)
              \/ /\ BrokerFails
                 /\ pc' = [pc EXCEPT ![s] = thrown]
                 /\ published' = published
<1>1. CASE Goto(s, sent) /\ Publish(s, kind)
  BY <1>1, PublishSaid DEF Goto
<1>2. CASE BrokerFails /\ Goto(s, thrown) /\ UNCHANGED published
  BY <1>2 DEF Goto, TypeOK
<1>3. QED
  BY <1>1, <1>2 DEF Send

(* However a send ends, it leaves well-typed records and callbacks, and puts   *)
(* no session where it would need a channel object.                            *)
LEMMA SendTypes ==
    ASSUME TypeOK, NEW s \in Session, NEW kind \in Kind,
           NEW sent \in {"idle", "unmap"}, NEW thrown \in {"idle", "fault", "closed", "unmap"},
           Send(s, kind, sent, thrown)
    PROVE  /\ published' \in [Session -> Seq(Kind)]
           /\ pc' \in [Session -> Running \cup Resting]
           /\ \A t \in Session: pc'[t] = pc[t] \/ pc'[t] \notin {"join", "open", "leave"}
<1>1. sent \in Running \cup Resting /\ thrown \in Running \cup Resting
  BY DEF Running, Resting
<1>2. published' \in [Session -> Seq(Kind)]
  BY <1>1, SendEffect
<1>3. pc' = [pc EXCEPT ![s] = sent] \/ pc' = [pc EXCEPT ![s] = thrown]
  BY <1>1, SendEffect
<1>4. pc \in [Session -> Running \cup Resting]
  BY DEF TypeOK
<1>5. pc' \in [Session -> Running \cup Resting]
  BY <1>1, <1>3, <1>4
<1>6. ASSUME NEW t \in Session
      PROVE  pc'[t] = pc[t] \/ pc'[t] \notin {"join", "open", "leave"}
  BY <1>3, <1>4
<1>7. QED
  BY <1>2, <1>5, <1>6

(* The same, seen from the sending session. *)
LEMMA SendOutcome ==
    ASSUME TypeOK, NEW s \in Session, NEW kind \in Kind,
           NEW sent \in {"idle", "unmap"}, NEW thrown \in {"idle", "fault", "closed", "unmap"},
           Send(s, kind, sent, thrown)
    PROVE  \/ pc'[s] = sent /\ Said(s)' = Said(s) \cup {kind}
           \/ BrokerFails /\ pc'[s] = thrown /\ Said(s)' = Said(s)
<1>1. sent \in Running \cup Resting /\ thrown \in Running \cup Resting
  BY DEF Running, Resting
<1>2. pc \in [Session -> Running \cup Resting]
  BY DEF TypeOK
<1>3. CASE pc' = [pc EXCEPT ![s] = sent] /\ Said(s)' = Said(s) \cup {kind}
  BY <1>2, <1>3
<1>4. CASE BrokerFails /\ pc' = [pc EXCEPT ![s] = thrown] /\ published' = published
  BY <1>2, <1>4, SaidSame
<1>5. QED
  BY <1>1, <1>3, <1>4, SendEffect

(* Every action keeps the variables in their types. *)
LEMMA TypeStep ==
    ASSUME TypeOK, NEW s \in Session, Registered(s), Session1(s)
    PROVE  TypeOK'
<1>1. CASE Handshake(s)
  BY <1>1 DEF Handshake, TypeOK, Request, Running, Resting, Goto, hub, Registered, Closing
<1>2. CASE Refuse(s)
  BY <1>2 DEF Refuse, TypeOK, Request, Running, Resting, Goto, hub, Registered, Closing
<1>3. CASE CreateChannel(s)
  <2>1. req[s].cid \in Channel
    BY <1>3 DEF CreateChannel, TypeOK, Request, Registered, Opening
  <2>2. channels' \in [Channel -> Session \cup {None}] /\ home' \in [Session -> Session \cup {None}]
    BY <1>3, <2>1 DEF CreateChannel, TypeOK
  <2>3. home'[s] # None /\ \A t \in Session: home[t] # None => home'[t] # None
    BY <1>3, <2>1, NoneIsNew DEF CreateChannel, TypeOK
  <2>4. QED
    BY <1>3, <2>1, <2>2, <2>3 DEF CreateChannel, TypeOK, Goto, Running, Resting
<1>4. CASE JoinChannel(s)
  BY <1>4 DEF JoinChannel, TypeOK, Request, Running, Resting, Goto, hub, Registered, Closing
<1>5. CASE OnOpen(s)
  <2>1. /\ published' \in [Session -> Seq(Kind)]
        /\ pc' \in [Session -> Running \cup Resting]
        /\ \A t \in Session: pc'[t] = pc[t] \/ pc'[t] \notin {"join", "open", "leave"}
    <3>1. CASE Send(s, "ONLINE", "idle", "idle")
      BY <3>1, SendTypes DEF Kind
    <3>2. CASE Goto(s, "idle") /\ UNCHANGED published
      BY <3>2 DEF Goto, TypeOK, Running, Resting
    <3>3. QED
      BY <1>5, <3>1, <3>2 DEF OnOpen
  <2>2. QED
    BY <1>5, <2>1 DEF OnOpen, TypeOK, hub
<1>6. CASE ReadMessage(s)
  BY <1>6 DEF ReadMessage, TypeOK, Request, Running, Resting, Goto, hub, Registered, Closing
<1>7. CASE SendUp(s)
  <2>1. /\ published' \in [Session -> Seq(Kind)]
        /\ pc' \in [Session -> Running \cup Resting]
        /\ \A t \in Session: pc'[t] = pc[t] \/ pc'[t] \notin {"join", "open", "leave"}
    <3>1. CASE Send(s, "MESSAGE", "idle", "fault")
      BY <3>1, SendTypes DEF Kind
    <3>2. CASE Goto(s, "idle") /\ UNCHANGED published
      BY <3>2 DEF Goto, TypeOK, Running, Resting
    <3>3. QED
      BY <1>7, <3>1, <3>2 DEF SendUp
  <2>2. QED
    BY <1>7, <2>1 DEF SendUp, TypeOK, hub
<1>8. CASE ReadBroken(s)
  BY <1>8 DEF ReadBroken, TypeOK, Request, Running, Resting, Goto, hub, Registered, Closing
<1>9. CASE ExceptionCaught(s)
  BY <1>9 DEF ExceptionCaught, TypeOK, Request, Running, Resting, Goto, hub, Registered, Closing
<1>10. CASE ClientGone(s)
  BY <1>10 DEF ClientGone, TypeOK, Request, Running, Resting, Goto, hub, Registered, Closing
<1>11. CASE ChannelInactive(s)
  BY <1>11 DEF ChannelInactive, TypeOK, Request, Running, Resting, Goto, hub, Registered, Closing
<1>12. CASE SendOffline(s)
  <2>1. /\ published' \in [Session -> Seq(Kind)]
        /\ pc' \in [Session -> Running \cup Resting]
        /\ \A t \in Session: pc'[t] = pc[t] \/ pc'[t] \notin {"join", "open", "leave"}
    <3>1. CASE Send(s, "OFFLINE", "unmap", "closed")
      BY <3>1, SendTypes DEF Kind
    <3>2. CASE Goto(s, "unmap") /\ UNCHANGED published
      BY <3>2 DEF Goto, TypeOK, Running, Resting
    <3>3. QED
      BY <1>12, <3>1, <3>2 DEF SendOffline
  <2>2. QED
    BY <1>12, <2>1 DEF SendOffline, TypeOK, hub
<1>13. CASE Unmap(s)
  BY <1>13 DEF Unmap, TypeOK, Request, Running, Resting, Goto, hub, Registered, Closing
<1>14. CASE ReadSize(s)
  BY <1>14 DEF ReadSize, TypeOK, Request, Running, Resting, Goto, hub, Registered, Closing
<1>15. CASE DropChannel(s)
  BY <1>15 DEF DropChannel, TypeOK, Request, Running, Resting, Goto, hub, Registered, Closing
<1>16. CASE Leave(s)
  BY <1>16 DEF Leave, TypeOK, Request, Running, Resting, Goto, hub, Registered, Closing
<1>17. QED
  BY <1>1, <1>2, <1>3, <1>4, <1>5, <1>6, <1>7, <1>8, <1>9, <1>10, <1>11, <1>12, <1>13, <1>14, <1>15, <1>16 DEF Session1, Callback

-----------------------------------------------------------------------------
(* Every action keeps hub, joined object and callback of each session in step. *)
LEMMA RegisteredStep ==
    ASSUME TypeOK, \A t \in Session: Registered(t), Listed,
           NEW s \in Session, Session1(s), NEW t \in Session
    PROVE  Registered(t)'
<1>1. CASE Handshake(s)
  BY <1>1 DEF Handshake, TypeOK, Registered, Opening, Closing, Goto, hub, Found, Throws, Listed
<1>2. CASE Refuse(s)
  BY <1>2 DEF Refuse, TypeOK, Registered, Opening, Closing, Goto, hub, Found, Throws, Listed
<1>3. CASE CreateChannel(s)
  <2>1. req[s].cid \in Channel /\ channelMap[s] # None /\ home[s] = None
    BY <1>3 DEF CreateChannel, TypeOK, Request, Registered, Opening
  <2>2. \A o \in Session: s \notin clients[o]
    BY <2>1, NoneIsNew DEF Registered
  <2>3. /\ home' = [home EXCEPT ![s] = home'[s]]
        /\ home'[s] \in Session /\ req[home'[s]].cid = req[s].cid
    <3>1. CASE channels[req[s].cid] = None
      BY <1>3, <2>1, <3>1 DEF CreateChannel, TypeOK
    <3>2. CASE channels[req[s].cid] # None
      BY <1>3, <2>1, <3>2 DEF CreateChannel, TypeOK, Listed
    <3>3. QED
      BY <3>1, <3>2
  <2>4. /\ pc' = [pc EXCEPT ![s] = "join"]
        /\ UNCHANGED <<req, channelMap, clients>>
    BY <1>3 DEF CreateChannel, Goto
  <2>5. CASE t = s
    BY <1>3, <2>1, <2>2, <2>3, <2>4, <2>5 DEF TypeOK, Registered, Opening, Closing
  <2>6. CASE t # s
    BY <2>3, <2>4, <2>6 DEF TypeOK, Registered, Opening, Closing
  <2>7. QED
    BY <2>5, <2>6
<1>4. CASE JoinChannel(s)
  BY <1>4 DEF JoinChannel, TypeOK, Registered, Opening, Closing, Goto, hub, Found, Throws, Listed
<1>5. CASE OnOpen(s)
  <2>1. pc' = [pc EXCEPT ![s] = "idle"] \/ pc' = [pc EXCEPT ![s] = "idle"]
    BY <1>5 DEF OnOpen, Send, Goto
  <2>2. QED
    BY <1>5, <2>1 DEF OnOpen, TypeOK, Registered, Opening, Closing, Goto, hub
<1>6. CASE ReadMessage(s)
  BY <1>6 DEF ReadMessage, TypeOK, Registered, Opening, Closing, Goto, hub, Found, Throws, Listed
<1>7. CASE SendUp(s)
  <2>1. pc' = [pc EXCEPT ![s] = "idle"] \/ pc' = [pc EXCEPT ![s] = "fault"]
    BY <1>7 DEF SendUp, Send, Goto
  <2>2. QED
    BY <1>7, <2>1 DEF SendUp, TypeOK, Registered, Opening, Closing, Goto, hub
<1>8. CASE ReadBroken(s)
  BY <1>8 DEF ReadBroken, TypeOK, Registered, Opening, Closing, Goto, hub, Found, Throws, Listed
<1>9. CASE ExceptionCaught(s)
  BY <1>9 DEF ExceptionCaught, TypeOK, Registered, Opening, Closing, Goto, hub, Found, Throws, Listed
<1>10. CASE ClientGone(s)
  BY <1>10 DEF ClientGone, TypeOK, Registered, Opening, Closing, Goto, hub, Found, Throws, Listed
<1>11. CASE ChannelInactive(s)
  BY <1>11 DEF ChannelInactive, TypeOK, Registered, Opening, Closing, Goto, hub, Found, Throws, Listed
<1>12. CASE SendOffline(s)
  <2>1. pc' = [pc EXCEPT ![s] = "unmap"] \/ pc' = [pc EXCEPT ![s] = "closed"]
    BY <1>12 DEF SendOffline, Send, Goto
  <2>2. QED
    BY <1>12, <2>1 DEF SendOffline, TypeOK, Registered, Opening, Closing, Goto, hub
<1>13. CASE Unmap(s)
  BY <1>13 DEF Unmap, TypeOK, Registered, Opening, Closing, Goto, hub, Found, Throws, Listed
<1>14. CASE ReadSize(s)
  BY <1>14 DEF ReadSize, TypeOK, Registered, Opening, Closing, Goto, hub, Found, Throws, Listed
<1>15. CASE DropChannel(s)
  BY <1>15 DEF DropChannel, TypeOK, Registered, Opening, Closing, Goto, hub, Found, Throws, Listed
<1>16. CASE Leave(s)
  BY <1>16 DEF Leave, TypeOK, Registered, Opening, Closing, Goto, hub, Found, Throws, Listed
<1>17. QED
  BY <1>1, <1>2, <1>3, <1>4, <1>5, <1>6, <1>7, <1>8, <1>9, <1>10, <1>11, <1>12, <1>13, <1>14, <1>15, <1>16 DEF Session1, Callback

-----------------------------------------------------------------------------
(* Objects are only listed under their own channel id, and only made once. *)
LEMMA ListedStep ==
    ASSUME TypeOK, Listed, NEW s \in Session, Registered(s), Session1(s)
    PROVE  Listed'
<1>1. CASE CreateChannel(s)
  <2>1. req[s].cid \in Channel
    BY <1>1 DEF CreateChannel, TypeOK, Request, Registered, Opening
  <2>2. QED
    BY <1>1, <2>1 DEF CreateChannel, TypeOK, Listed
<1>2. CASE DropChannel(s)
  BY <1>2 DEF DropChannel, TypeOK, Listed
<1>3. CASE ~CreateChannel(s) /\ ~DropChannel(s)
  <2>1. UNCHANGED <<req, channels>>
    BY <1>3 DEF Session1, Callback, Handshake, Refuse, JoinChannel, OnOpen, ReadMessage,
                SendUp, ReadBroken, ExceptionCaught, ClientGone, ChannelInactive,
                SendOffline, Unmap, ReadSize, Leave, hub
  <2>2. QED
    BY <2>1 DEF Listed
<1>4. QED
  BY <1>1, <1>2, <1>3


-----------------------------------------------------------------------------
(* A step of one session leaves callback, registration and records of the      *)
(* others, and everybody's request, as they are.                               *)
LEMMA OthersStay ==
    ASSUME TypeOK, NEW s \in Session, Session1(s), NEW t \in Session, t # s
    PROVE  /\ pc'[t] = pc[t]
           /\ channelMap'[t] = channelMap[t]
           /\ Said(t)' = Said(t)
<1>1. pc'[t] = pc[t] /\ channelMap'[t] = channelMap[t]
  BY DEF TypeOK, Session1, Callback, hub, Goto, Send, Handshake, Refuse, CreateChannel,
         JoinChannel, OnOpen, ReadMessage, SendUp, ReadBroken, ExceptionCaught, ClientGone,
         ChannelInactive, SendOffline, Unmap, ReadSize, DropChannel, Leave
<1>2. published'[t] = published[t]
  BY DEF TypeOK, Session1, Callback, hub, Publish, Send, Handshake, Refuse, CreateChannel,
         JoinChannel, OnOpen, ReadMessage, SendUp, ReadBroken, ExceptionCaught, ClientGone,
         ChannelInactive, SendOffline, Unmap, ReadSize, DropChannel, Leave
<1>3. QED
  BY <1>1, <1>2 DEF Said

(* The query parameters of a connection never change. *)
LEMMA RequestStays ==
    ASSUME NEW s \in Session, Session1(s)
    PROVE  req' = req
BY DEF Session1, Callback, Handshake, Refuse, CreateChannel, JoinChannel, OnOpen,
       ReadMessage, SendUp, ReadBroken, ExceptionCaught, ClientGone, ChannelInactive,
       SendOffline, Unmap, ReadSize, DropChannel, Leave

(* The records of a session stay in agreement with where it is, if it moves... *)
LEMMA RecordedStep ==
    ASSUME TypeOK, NEW s \in Session, Session1(s), Registered(s), Recorded(s)
    PROVE  Recorded(s)'
<1>0. req' = req
  BY RequestStays
<1>1. CASE Handshake(s)
  <2>1. Said(s)' = Said(s)
    BY <1>1 DEF Handshake, Said
  <2>2. pc'[s] = "idle" \/ pc'[s] = "create"
    BY <1>1 DEF Handshake, Goto, TypeOK
  <2>3. QED
    BY <1>0, <1>1, <2>1, <2>2 DEF Handshake, hub, TypeOK, Recorded, Registered, Opening, Closing, Goto, Request
<1>2. CASE Refuse(s)
  <2>1. Said(s)' = Said(s)
    BY <1>2 DEF Refuse, Said
  <2>2. pc'[s] = "closed"
    BY <1>2 DEF Refuse, Goto, TypeOK
  <2>3. QED
    BY <1>0, <1>2, <2>1, <2>2 DEF Refuse, hub, TypeOK, Recorded, Registered, Opening, Closing, Goto
<1>3. CASE CreateChannel(s)
  <2>1. Said(s)' = Said(s)
    BY <1>3 DEF CreateChannel, Said
  <2>2. pc'[s] = "join"
    BY <1>3 DEF CreateChannel, Goto, TypeOK
  <2>3. QED
    BY <1>0, <1>3, <2>1, <2>2 DEF CreateChannel, hub, TypeOK, Recorded, Registered, Opening, Closing, Goto
<1>4. CASE JoinChannel(s)
  <2>1. Said(s)' = Said(s)
    BY <1>4 DEF JoinChannel, Said
  <2>2. pc'[s] = "open"
    BY <1>4 DEF JoinChannel, Goto, TypeOK
  <2>3. QED
    BY <1>0, <1>4, <2>1, <2>2 DEF JoinChannel, hub, TypeOK, Recorded, Registered, Opening, Closing, Goto
<1>5. CASE ReadMessage(s)
  <2>1. Said(s)' = Said(s)
    BY <1>5 DEF ReadMessage, Said
  <2>2. pc'[s] = "deliver" \/ pc'[s] = "fault"
    BY <1>5 DEF ReadMessage, Goto, TypeOK
  <2>3. QED
    BY <1>0, <1>5, <2>1, <2>2 DEF ReadMessage, hub, TypeOK, Recorded, Registered, Opening, Closing, Goto, Found, Throws
<1>6. CASE ReadBroken(s)
  <2>1. Said(s)' = Said(s)
    BY <1>6 DEF ReadBroken, Said
  <2>2. pc'[s] = "fault"
    BY <1>6 DEF ReadBroken, Goto, TypeOK
  <2>3. QED
    BY <1>0, <1>6, <2>1, <2>2 DEF ReadBroken, hub, TypeOK, Recorded, Registered, Opening, Closing, Goto
<1>7. CASE ExceptionCaught(s)
  <2>1. Said(s)' = Said(s)
    BY <1>7 DEF ExceptionCaught, Said
  <2>2. pc'[s] = "idle" \/ pc'[s] = "dead"
    BY <1>7 DEF ExceptionCaught, Goto, TypeOK
  <2>3. QED
    BY <1>0, <1>7, <2>1, <2>2 DEF ExceptionCaught, hub, TypeOK, Recorded, Registered, Opening, Closing, Goto
<1>8. CASE ClientGone(s)
  <2>1. Said(s)' = Said(s)
    BY <1>8 DEF ClientGone, Said
  <2>2. pc'[s] = "dead"
    BY <1>8 DEF ClientGone, Goto, TypeOK
  <2>3. QED
    BY <1>0, <1>8, <2>1, <2>2 DEF ClientGone, hub, TypeOK, Recorded, Registered, Opening, Closing, Goto
<1>9. CASE ChannelInactive(s)
  <2>1. Said(s)' = Said(s) /\ channelMap'[s] = channelMap[s] /\ pc[s] = "dead"
    BY <1>9 DEF ChannelInactive, Said, hub
  <2>2. pc'[s] = "offline" \/ pc'[s] = "closed"
    BY <1>9 DEF ChannelInactive, Goto, TypeOK
  <2>3. "OFFLINE" \notin Said(s)
    BY <1>0, <2>1 DEF Recorded
  <2>4. QED
    BY <1>0, <2>1, <2>2, <2>3 DEF Recorded, Opening
<1>10. CASE Unmap(s)
  <2>1. Said(s)' = Said(s)
    BY <1>10 DEF Unmap, Said
  <2>2. pc'[s] = "size"
    BY <1>10 DEF Unmap, Goto, TypeOK
  <2>3. QED
    BY <1>0, <1>10, <2>1, <2>2 DEF Unmap, hub, TypeOK, Recorded, Registered, Opening, Closing, Goto
<1>11. CASE ReadSize(s)
  <2>1. Said(s)' = Said(s)
    BY <1>11 DEF ReadSize, Said
  <2>2. pc'[s] = "drop" \/ pc'[s] = "leave"
    BY <1>11 DEF ReadSize, Goto, TypeOK
  <2>3. QED
    BY <1>0, <1>11, <2>1, <2>2 DEF ReadSize, hub, TypeOK, Recorded, Registered, Opening, Closing, Goto
<1>12. CASE DropChannel(s)
  <2>1. Said(s)' = Said(s)
    BY <1>12 DEF DropChannel, Said
  <2>2. pc'[s] = "leave"
    BY <1>12 DEF DropChannel, Goto, TypeOK
  <2>3. QED
    BY <1>0, <1>12, <2>1, <2>2 DEF DropChannel, hub, TypeOK, Recorded, Registered, Opening, Closing, Goto
<1>13. CASE Leave(s)
  <2>1. Said(s)' = Said(s)
    BY <1>13 DEF Leave, Said
  <2>2. pc'[s] = "closed"
    BY <1>13 DEF Leave, Goto, TypeOK
  <2>3. QED
    BY <1>0, <1>13, <2>1, <2>2 DEF Leave, hub, TypeOK, Recorded, Registered, Opening, Closing, Goto
<1>14. CASE SendUp(s)
  <2>1. Send(s, "MESSAGE", "idle", "fault") /\ UNCHANGED channelMap
    BY <1>14 DEF SendUp, hub
  <2>2. CASE pc'[s] = "idle" /\ Said(s)' = Said(s) \cup {"MESSAGE"}
    BY <1>0, <1>14, <2>1, <2>2 DEF SendUp, Recorded, Registered, Opening, Closing
  <2>3. CASE BrokerFails /\ pc'[s] = "fault" /\ Said(s)' = Said(s)
    BY <1>0, <1>14, <2>1, <2>3 DEF SendUp, Recorded, Registered, Opening, Closing
  <2>4. QED
    BY <2>1, <2>2, <2>3, SendOutcome DEF Kind
<1>15. CASE SendOffline(s)
  <2>1. Send(s, "OFFLINE", "unmap", "closed") /\ UNCHANGED channelMap
    BY <1>15 DEF SendOffline, hub
  <2>2. CASE pc'[s] = "unmap" /\ Said(s)' = Said(s) \cup {"OFFLINE"}
    BY <1>0, <1>15, <2>1, <2>2 DEF SendOffline, Recorded, Registered, Opening, Closing
  <2>3. CASE BrokerFails /\ pc'[s] = "closed" /\ Said(s)' = Said(s)
    <3>1. pc[s] = "offline" /\ channelMap'[s] = channelMap[s]
      BY <1>15, <2>1 DEF SendOffline
    <3>2. "OFFLINE" \notin Said(s)
      BY <1>0, <3>1 DEF Recorded
    <3>3. QED
      BY <1>0, <2>3, <3>1, <3>2 DEF Recorded, Opening
  <2>4. QED
    BY <2>1, <2>2, <2>3, SendOutcome DEF Kind
<1>16. CASE OnOpen(s)
  <2>1. CASE req[s].uid
    <3>1. Send(s, "ONLINE", "idle", "idle") /\ UNCHANGED channelMap
      BY <1>16, <2>1 DEF OnOpen, hub
    <3>2. CASE pc'[s] = "idle" /\ Said(s)' = Said(s) \cup {"ONLINE"}
      BY <1>0, <1>16, <2>1, <3>1, <3>2 DEF OnOpen, Recorded, Registered, Opening, Closing
    <3>3. CASE BrokerFails /\ pc'[s] = "idle" /\ Said(s)' = Said(s)
      BY <1>0, <1>16, <2>1, <3>1, <3>3 DEF OnOpen, Recorded, Registered, Opening, Closing
    <3>4. QED
      BY <3>1, <3>2, <3>3, SendOutcome DEF Kind
  <2>2. CASE ~req[s].uid
    <3>1. Said(s)' = Said(s) /\ pc'[s] = "idle" /\ UNCHANGED channelMap
      BY <1>16, <2>2 DEF OnOpen, Said, Goto, TypeOK, hub
    <3>2. QED
      BY <1>0, <1>16, <2>2, <3>1 DEF OnOpen, Recorded, Registered, Opening, Closing
  <2>3. QED
    BY <2>1, <2>2 DEF TypeOK, Request
<1>17. QED
  BY <1>1, <1>2, <1>3, <1>4, <1>5, <1>6, <1>7, <1>8, <1>9, <1>10, <1>11, <1>12, <1>13, <1>14, <1>15, <1>16 DEF Session1, Callback

(* ... and if another one moves. *)
LEMMA RecordedOther ==
    ASSUME TypeOK, NEW s \in Session, Session1(s), NEW t \in Session, t # s, Recorded(t)
    PROVE  Recorded(t)'
BY OthersStay, RequestStays DEF Recorded

-----------------------------------------------------------------------------
(* The broadcast visits sessions of its channel object, whose channel id is    *)
(* theirs; no session's own step touches it.                                   *)
LEMMA ListenerStep ==
    ASSUME TypeOK, \A s \in Session: Registered(s), Listed, Addressed, Listener
    PROVE  /\ UNCHANGED <<pc, req, hub, published>>
           /\ bcast' \in Broadcast \cup {None}
           /\ Addressed'
<1>1. CASE \E c \in Channel: BroadcastGet(c)
  <2>1. PICK c \in Channel: BroadcastGet(c)
    BY <1>1
  <2>2. /\ bcast' = [to |-> c, obj |-> channels[c], due |-> Listening(c),
                     start |-> IF channels[c] = None THEN {} ELSE clients[channels[c]],
                     seen |-> {}]
        /\ UNCHANGED <<pc, req, hub, published>>
    BY <2>1 DEF BroadcastGet
  <2>3. bcast' \in Broadcast
    BY <2>2 DEF Broadcast, TypeOK, Listening
  <2>4. Addressed'
    BY <2>2 DEF Addressed, Listed, hub
  <2>5. QED
    BY <2>2, <2>3, <2>4
<1>2. CASE \E t \in Session: BroadcastNext(t)
  <2>1. PICK t \in Session: BroadcastNext(t)
    BY <1>2
  <2>2. /\ bcast \in Broadcast /\ bcast.obj \in Session /\ t \in clients[bcast.obj]
        /\ bcast' = [bcast EXCEPT !.seen = @ \cup {t}]
        /\ UNCHANGED <<pc, req, hub, published>>
    BY <2>1 DEF BroadcastNext, TypeOK, Broadcast
  <2>3. bcast' \in Broadcast
    BY <2>2 DEF Broadcast
  <2>4. req[t].cid = bcast.to
    <3>1. req[bcast.obj].cid = bcast.to
      BY <2>1, <2>2 DEF Addressed, BroadcastNext
    <3>2. home[t] = bcast.obj /\ bcast.obj # None
      BY <2>1, <2>2 DEF Registered, BroadcastNext
    <3>3. QED
      BY <3>1, <3>2 DEF Registered
  <2>5. /\ bcast'.to = bcast.to /\ bcast'.obj = bcast.obj
        /\ bcast'.seen = bcast.seen \cup {t}
    BY <2>2 DEF Broadcast
  <2>6. Addressed'
    BY <2>1, <2>2, <2>4, <2>5 DEF Addressed, BroadcastNext
  <2>7. QED
    BY <2>2, <2>3, <2>6
<1>3. CASE BroadcastDone
  BY <1>3 DEF BroadcastDone, Addressed
<1>4. QED
  BY <1>1, <1>2, <1>3 DEF Listener

(* A session's own step changes neither the broadcast nor any request. *)
LEMMA AddressedStays ==
    ASSUME NEW s \in Session, Session1(s), Addressed
    PROVE  Addressed'
<1>1. req' = req
  BY RequestStays
<1>2. bcast' = bcast
  BY DEF Session1, Callback, Handshake, Refuse, CreateChannel, JoinChannel, OnOpen,
         ReadMessage, SendUp, ReadBroken, ExceptionCaught, ClientGone, ChannelInactive,
         SendOffline, Unmap, ReadSize, DropChannel, Leave
<1>3. QED
  BY <1>1, <1>2 DEF Addressed

(* Inv is inductive. *)
LEMMA InvStep == Inv /\ [Next]_vars => Inv'
<1> SUFFICES ASSUME Inv, [Next]_vars PROVE Inv'
  OBVIOUS
<1>0. /\ TypeOK /\ Listed /\ Addressed
      /\ \A s \in Session: Registered(s)
      /\ \A s \in Session: Recorded(s)
  BY DEF Inv
<1>1. ASSUME NEW s \in Session, Session1(s)
      PROVE  Inv'
  <2>1. TypeOK'
    BY <1>0, <1>1, TypeStep
  <2>2. \A t \in Session: Registered(t)'
    BY <1>0, <1>1, RegisteredStep
  <2>3. Listed'
    BY <1>0, <1>1, ListedStep
  <2>4. \A t \in Session: Recorded(t)'
    BY <1>0, <1>1, RecordedStep, RecordedOther
  <2>5. Addressed'
    BY <1>0, <1>1, AddressedStays
  <2>6. QED
    BY <2>1, <2>2, <2>3, <2>4, <2>5 DEF Inv
<1>2. ASSUME UNCHANGED <<pc, req, hub, published>>, bcast' \in Broadcast \cup {None}, Addressed'
      PROVE  Inv'
  <2>1. UNCHANGED <<pc, req, channels, channelMap, clients, home, published>>
    BY <1>2 DEF hub
  <2>2. TypeOK'
    BY <1>0, <1>2, <2>1 DEF TypeOK
  <2>3. (\A s \in Session: Registered(s))' /\ Listed'
    BY <1>0, <2>1 DEF Registered, Listed
  <2>4. (\A s \in Session: Recorded(s))'
    BY <1>0, <2>1 DEF Recorded, Said
  <2>5. QED
    BY <1>2, <2>2, <2>3, <2>4 DEF Inv
<1>3. CASE Listener
  BY <1>0, <1>2, <1>3, ListenerStep
<1>4. CASE UNCHANGED vars
  <2>1. UNCHANGED <<pc, req, hub, published, bcast>>
    BY <1>4 DEF vars
  <2>2. bcast' \in Broadcast \cup {None} /\ Addressed'
    BY <1>0, <2>1 DEF TypeOK, Addressed
  <2>3. QED
    BY <1>2, <2>1, <2>2
<1>5. QED
  BY <1>1, <1>3, <1>4 DEF Next

(* Inv is strong enough for the agreement of records and registrations. *)
LEMMA InvLedger == Inv => LedgerMatchesHub
<1> SUFFICES ASSUME Inv, NEW s \in Session,
                    pc[s] \notin {"create", "join", "open", "unmap"}
             PROVE  /\ Online(s) => channelMap[s] # None /\ req[s].uid
                    /\ ~BrokerFails /\ channelMap[s] # None /\ req[s].uid => Online(s)
  BY DEF LedgerMatchesHub
<1>1. Recorded(s) /\ Registered(s)
  BY DEF Inv
<1>2. ASSUME Online(s) PROVE channelMap[s] # None /\ req[s].uid
  BY <1>1, <1>2 DEF Online, Recorded
<1>3. ASSUME ~BrokerFails, channelMap[s] # None, req[s].uid PROVE Online(s)
  <2>1. pc[s] \notin Opening /\ pc[s] # "unmap"
    BY DEF Opening
  <2>2. "ONLINE" \in Said(s)
    BY <1>1, <1>3, <2>1 DEF Recorded
  <2>3. "OFFLINE" \notin Said(s)
    BY <1>1, <1>3, <2>1 DEF Recorded
  <2>4. QED
    BY <2>2, <2>3 DEF Online
<1>4. QED
  BY <1>2, <1>3

-----------------------------------------------------------------------------
(* The strengthening holds of every reachable state of a node. *)
THEOREM Invariance == Spec => []Inv
<1>1. Init => Inv
  BY InitInv
<1>2. Inv /\ [Next]_vars => Inv'
  BY InvStep
<1>3. QED
  BY <1>1, <1>2, PTL DEF Spec

(* Every variable of the node keeps its type, and a session whose callback is  *)
(* about to use its channel object (ChannelClient.join, leave) has one.        *)
THEOREM TypeCorrect == Spec => []TypeOK
<1>1. Inv => TypeOK
  BY DEF Inv
<1>2. QED
  BY <1>1, Invariance, PTL

(* For any number of sessions, channels and event loops: outside the callbacks *)
(* that open and close it, a session the records show online is registered,    *)
(* and without send failures the converse (onOpen, channelInactive, destroy).  *)
THEOREM LedgerSafe == Spec => []LedgerMatchesHub
<1>1. QED
  BY InvLedger, Invariance, PTL

(* For any interleaving of create, destroy and broadcast: the listener thread  *)
(* writes a channel's messages only to sessions that asked for that channel.   *)
THEOREM ChannelSafe == Spec => []OwnChannelOnly
<1>1. Inv => OwnChannelOnly
  BY DEF Inv, Addressed, OwnChannelOnly
<1>2. QED
  BY <1>1, Invariance, PTL

-----------------------------------------------------------------------------
(* OfflineIsFinal is inductive next to Inv: only Leave closes a session whose  *)
(* OFFLINE record is out, and only a session's own join puts it in a channel.  *)
LEMMA FinalStep == Inv /\ OfflineIsFinal /\ [Next]_vars => OfflineIsFinal'
<1> SUFFICES ASSUME Inv, OfflineIsFinal, [Next]_vars PROVE OfflineIsFinal'
  OBVIOUS
<1>1. ASSUME NEW s \in Session, Session1(s), NEW t \in Session,
             pc'[t] = "closed", "OFFLINE" \in Said(t)', NEW o \in Session
      PROVE  t \notin clients'[o]
  <2>0. TypeOK /\ Registered(t) /\ Recorded(t)
    BY DEF Inv
  <2>1. CASE t # s
    <3>1. t \notin clients[o]
      BY <1>1, <2>0, <2>1, OthersStay DEF OfflineIsFinal
    <3>2. clients'[o] \subseteq clients[o] \cup {s}
      <4>1. CASE JoinChannel(s)
        BY <2>0, <4>1 DEF JoinChannel, TypeOK
      <4>2. CASE Leave(s)
        BY <2>0, <4>2 DEF Leave, TypeOK
      <4>3. CASE ~JoinChannel(s) /\ ~Leave(s)
        <5>1. clients' = clients
          BY <1>1, <4>3 DEF Session1, Callback, hub, Handshake, Refuse, CreateChannel, OnOpen,
             ReadMessage, SendUp, ReadBroken, ExceptionCaught, ClientGone,
             ChannelInactive, SendOffline, Unmap, ReadSize, DropChannel
        <5>2. QED
          BY <5>1
      <4>4. QED
        BY <4>1, <4>2, <4>3
    <3>3. QED
      BY <2>1, <3>1, <3>2
  <2>2. CASE t = s
    <3>1. Leave(t) \/ Refuse(t) \/ ChannelInactive(t) \/ SendOffline(t)
      BY <1>1, <2>0, <2>2 DEF TypeOK, Goto, Send, Session1, Callback, Handshake, Refuse,
         CreateChannel, JoinChannel, OnOpen, ReadMessage, SendUp, ReadBroken, ExceptionCaught,
         ClientGone, ChannelInactive, SendOffline, Unmap, ReadSize, DropChannel, Leave
    <3>2. CASE Leave(t)
      <4>1. clients' = [clients EXCEPT ![home[t]] = @ \ {t}]
        BY <3>2 DEF Leave
      <4>2. CASE o = home[t]
        BY <2>0, <4>1, <4>2 DEF TypeOK
      <4>3. CASE o # home[t]
        BY <2>0, <4>1, <4>3 DEF TypeOK, Registered
      <4>4. QED
        BY <4>2, <4>3
    <3>3. CASE Refuse(t) \/ ChannelInactive(t)
      <4>1. Said(t)' = Said(t)
        BY <3>3 DEF Refuse, ChannelInactive, Said
      <4>2. pc[t] \in {"http", "dead"}
        BY <3>3 DEF Refuse, ChannelInactive
      <4>3. QED
        BY <1>1, <2>0, <4>1, <4>2 DEF Recorded
    <3>4. CASE SendOffline(t)
      <4>1. Said(t)' = Said(t)
        BY <1>1, <2>0, <3>4, SendOutcome DEF SendOffline, Kind
      <4>2. pc[t] = "offline"
        BY <3>4 DEF SendOffline
      <4>3. QED
        BY <1>1, <2>0, <4>1, <4>2 DEF Recorded
    <3>5. QED
      BY <3>1, <3>2, <3>3, <3>4
  <2>3. QED
    BY <2>1, <2>2
<1>2. CASE \E s \in Session: Session1(s)
  BY <1>1, <1>2 DEF OfflineIsFinal
<1>3. CASE UNCHANGED <<pc, req, hub, published>>
  BY <1>3 DEF OfflineIsFinal, Said, hub
<1>4. CASE Listener
  BY <1>3, <1>4 DEF Listener, BroadcastGet, BroadcastNext, BroadcastDone
<1>5. CASE UNCHANGED vars
  BY <1>3, <1>5 DEF vars
<1>6. QED
  BY <1>2, <1>4, <1>5 DEF Next

(* For any number of sessions and however objects of one channel id multiply:  *)
(* a session that has gone offline and been cleaned up is in no channel object. *)
THEOREM OfflineFinal == Spec => []OfflineIsFinal
<1>1. Init => OfflineIsFinal
  BY DEF Init, OfflineIsFinal
<1>2. QED
  BY <1>1, FinalStep, Invariance, PTL DEF Spec

-----------------------------------------------------------------------------
(* Only a free loop starts a callback; ClientGone starts none. *)
LEMMA LoopExcludes ==
    ASSUME NEW s \in Session, Session1(s), TypeOK
    PROVE  pc[s] \in Running \/ LoopFree(s) \/ pc'[s] = "dead"
BY DEF Session1, Callback, Running, TypeOK, Goto, Handshake, Refuse, CreateChannel, JoinChannel,
       OnOpen, ReadMessage, SendUp, ReadBroken, ExceptionCaught, ClientGone,
       ChannelInactive, SendOffline, Unmap, ReadSize, DropChannel, Leave

(* On one loop, callbacks go on excluding each other. *)
LEMMA AloneStep ==
    ASSUME \A t, u \in Session: LoopOf[t] = LoopOf[u], TypeOK, Alone,
           NEW s \in Session, Session1(s)
    PROVE  Alone'
<1> SUFFICES ASSUME NEW t \in Session, NEW u \in Session,
                    pc'[t] \in Running, pc'[u] \in Running, t # u
             PROVE  FALSE
  BY DEF Alone
<1>1. ASSUME NEW v \in Session, v # s, pc'[v] \in Running, pc'[s] \in Running
      PROVE  FALSE
  <2>1. pc[v] \in Running
    BY <1>1, OthersStay
  <2>2. ~LoopFree(s) /\ pc[s] \notin Running
    BY <1>1, <2>1 DEF LoopFree, Alone
  <2>3. pc'[s] # "dead"
    BY <1>1 DEF Running
  <2>4. QED
    BY <2>2, <2>3, LoopExcludes
<1>2. CASE t = s \/ u = s
  BY <1>1, <1>2
<1>3. CASE t # s /\ u # s
  BY <1>3, OthersStay DEF Alone
<1>4. QED
  BY <1>2, <1>3

(* What DropChannel and the registrations of others do to each other, on one   *)
(* loop: a session that is dropping a channel is the last one in the hub, and  *)
(* nobody registers until it has done so.                                      *)
LEMMA KeptStep ==
    ASSUME \A t, u \in Session: LoopOf[t] = LoopOf[u], TypeOK, Alone,
           \A t \in Session: Registered(t) /\ Kept(t),
           NEW s \in Session, Session1(s), NEW t \in Session
    PROVE  Kept(t)'
<1>0. req' = req /\ Kept(t) /\ Kept(s) /\ Registered(s) /\ Registered(t)
  BY RequestStays
<1>1. ASSUME pc'[t] = "drop" PROVE \A u \in Session: channelMap'[u] = None
  <2>1. CASE t = s
    <3>1. ReadSize(s) /\ \A u \in Session: channelMap[u] = None
      BY <1>1, <2>1 DEF Session1, Callback, TypeOK, Goto, Send, Handshake, Refuse, CreateChannel,
         JoinChannel, OnOpen, ReadMessage, SendUp, ReadBroken, ExceptionCaught, ClientGone,
         ChannelInactive, SendOffline, Unmap, ReadSize, DropChannel, Leave
    <3>2. QED
      BY <3>1 DEF ReadSize, hub
  <2>2. CASE t # s
    <3>1. pc[t] = "drop" /\ \A u \in Session: channelMap[u] = None
      BY <1>0, <1>1, <2>2, OthersStay DEF Kept
    <3>2. ~Handshake(s)
      BY <3>1 DEF Handshake, LoopFree, Running
    <3>3. channelMap'[s] = channelMap[s] \/ channelMap'[s] = None
      BY <3>2 DEF Session1, Callback, TypeOK, hub, Refuse, CreateChannel,
         JoinChannel, OnOpen, ReadMessage, SendUp, ReadBroken, ExceptionCaught, ClientGone,
         ChannelInactive, SendOffline, Unmap, ReadSize, DropChannel, Leave
    <3>4. QED
      BY <3>1, <3>3, OthersStay
  <2>3. QED
    BY <2>1, <2>2
<1>2. CASE CreateChannel(s)
  <2>1. req[s].cid \in Channel /\ home[s] = None /\ channelMap[s] # None
    BY <1>0, <1>2 DEF CreateChannel, TypeOK, Request, Registered, Opening
  <2>2. /\ channels'[req[s].cid] = home'[s] /\ channelMap' = channelMap
        /\ \A u \in Session \ {s}: home'[u] = home[u] /\ pc'[u] = pc[u]
        /\ pc'[s] = "join"
    BY <1>2, <2>1 DEF CreateChannel, TypeOK, Goto
  <2>3. \A c \in Channel: channels[c] # None => channels'[c] = channels[c]
    BY <1>2, <2>1 DEF CreateChannel, TypeOK
  <2>4. CASE t = s
    BY <1>0, <1>1, <2>1, <2>2, <2>4 DEF Kept
  <2>5. CASE t # s
    <3>1. ASSUME channelMap[t] # None, home[t] # None
          PROVE  channels'[req[t].cid] = home[t]
      <4>1. channels[req[t].cid] = home[t] /\ req[t].cid \in Channel
        BY <1>0, <3>1 DEF Kept, Registered, TypeOK, Request
      <4>2. QED
        BY <2>3, <3>1, <4>1
    <3>2. QED
      BY <1>0, <1>1, <2>2, <2>5, <3>1 DEF Kept
  <2>6. QED
    BY <2>4, <2>5
<1>3. CASE DropChannel(s)
  <2>1. /\ pc[s] = "drop" /\ pc' = [pc EXCEPT ![s] = "leave"]
        /\ channelMap' = channelMap /\ home' = home
    BY <1>3 DEF DropChannel, Goto
  <2>2. channelMap'[t] = None /\ channelMap[t] = None
    BY <1>0, <2>1 DEF Kept
  <2>3. pc'[t] = pc[t] \/ pc'[t] = "leave"
    BY <2>1 DEF TypeOK
  <2>4. QED
    BY <1>0, <1>1, <2>1, <2>2, <2>3 DEF Kept
<1>4. CASE ~CreateChannel(s) /\ ~DropChannel(s)
  <2>1. channels' = channels /\ home' = home
    BY <1>4 DEF Session1, Callback, hub, Handshake, Refuse, JoinChannel, OnOpen, ReadMessage,
                SendUp, ReadBroken, ExceptionCaught, ClientGone, ChannelInactive,
                SendOffline, Unmap, ReadSize, Leave
  <2>2. CASE t # s
    BY <1>0, <1>1, <2>1, <2>2, OthersStay DEF Kept
  <2>3. CASE Handshake(s)
    BY <1>0, <1>1, <2>1, <2>3, OthersStay DEF Kept, Handshake, Registered
  <2>4. CASE Unmap(s)
    BY <1>0, <1>1, <2>1, <2>4, OthersStay DEF Kept, Unmap, TypeOK, Goto
  <2>5. CASE t = s /\ ~Handshake(s) /\ ~Unmap(s)
    <3>1. channelMap' = channelMap
      BY <1>4, <2>5 DEF Session1, Callback, hub, Refuse, JoinChannel, OnOpen, ReadMessage,
                SendUp, ReadBroken, ExceptionCaught, ClientGone, ChannelInactive,
                SendOffline, ReadSize, Leave
    <3>2. \/ pc'[s] \in {"size", "drop", "leave", "closed"}
          \/ pc[s] = "http" /\ home[s] = None
          \/ pc[s] \notin {"size", "drop", "leave", "closed"}
      BY <1>0 DEF Session1, Callback, TypeOK, Goto, Send, Handshake, Refuse, CreateChannel,
         JoinChannel, OnOpen, ReadMessage, SendUp, ReadBroken, ExceptionCaught, ClientGone,
         ChannelInactive, SendOffline, Unmap, ReadSize, DropChannel, Leave, Registered
    <3>3. QED
      BY <1>0, <1>1, <2>1, <2>5, <3>1, <3>2 DEF Kept
  <2>6. QED
    BY <2>2, <2>3, <2>4, <2>5
<1>5. QED
  BY <1>2, <1>3, <1>4

(* OneLoopInv is inductive next to Inv, if all sessions share one loop. *)
LEMMA OneLoopStep ==
    ASSUME \A t, u \in Session: LoopOf[t] = LoopOf[u]
    PROVE  Inv /\ OneLoopInv /\ [Next]_vars => OneLoopInv'
<1> SUFFICES ASSUME Inv, OneLoopInv, [Next]_vars PROVE OneLoopInv'
  OBVIOUS
<1>0. TypeOK /\ Alone /\ \A t \in Session: Registered(t) /\ Kept(t)
  BY DEF Inv, OneLoopInv
<1>1. ASSUME NEW s \in Session, Session1(s) PROVE OneLoopInv'
  <2>1. Alone'
    BY <1>0, <1>1, AloneStep
  <2>2. \A t \in Session: Kept(t)'
    BY <1>0, <1>1, KeptStep
  <2>3. QED
    BY <2>1, <2>2 DEF OneLoopInv
<1>2. CASE UNCHANGED <<pc, req, hub>>
  BY <1>0, <1>2 DEF OneLoopInv, Alone, Kept, hub
<1>3. CASE Listener
  BY <1>2, <1>3 DEF Listener, BroadcastGet, BroadcastNext, BroadcastDone
<1>4. CASE UNCHANGED vars
  BY <1>2, <1>4 DEF vars
<1>5. QED
  BY <1>1, <1>3, <1>4 DEF Next

(* With all sessions on one event loop, for any number of them and any number  *)
(* of channels, destroy never takes away the channel object a connected client *)
(* joined: the race of the run ConnectHub_orphan needs a second loop.          *)
THEOREM OneLoopListed ==
    ASSUME \A t, u \in Session: LoopOf[t] = LoopOf[u]
    PROVE  Spec => []AllChannelsListed
<1>1. Init => OneLoopInv
  BY DEF Init, OneLoopInv, Alone, Kept, Running
<1>2. Inv /\ OneLoopInv /\ [Next]_vars => OneLoopInv'
  BY OneLoopStep
<1>3. OneLoopInv => AllChannelsListed
  BY DEF OneLoopInv, Kept, AllChannelsListed
<1>4. QED
  BY <1>1, <1>2, <1>3, Invariance, PTL DEF Spec

-----------------------------------------------------------------------------
(* A joined client is among the clients of the object it joined as long as its *)
(* connection is open.                                                         *)
Joined ==
    \A s \in Session: home[s] # None /\ pc[s] \in {"open", "idle", "deliver", "fault"} =>
        s \in clients[home[s]]

(* Who was listening when a broadcast began joined the object it goes through, *)
(* and was among the clients the iterator started from.                        *)
Heard ==
    bcast # None => \A s \in bcast.due:
        home[s] # None /\ bcast.obj = home[s] /\ s \in bcast.start

HearInv == Joined /\ Heard

(* The object a session joined is the one it made or found, for good. *)
LEMMA HomeStays ==
    ASSUME TypeOK, NEW s \in Session, Registered(s), Session1(s), NEW t \in Session,
           home[t] # None
    PROVE  home'[t] = home[t]
<1>1. CASE CreateChannel(s)
  BY <1>1 DEF CreateChannel, Registered, TypeOK
<1>2. CASE ~CreateChannel(s)
  BY <1>2 DEF Session1, Callback, Handshake, Refuse, JoinChannel, OnOpen, ReadMessage, SendUp,
     ReadBroken, ExceptionCaught, ClientGone, ChannelInactive, SendOffline, Unmap, ReadSize,
     DropChannel, Leave, hub
<1>3. QED
  BY <1>1, <1>2

LEMMA JoinedStep ==
    ASSUME TypeOK, \A t \in Session: Registered(t), Joined, NEW s \in Session, Session1(s)
    PROVE  Joined'
<1> SUFFICES ASSUME NEW t \in Session, home'[t] # None,
                    pc'[t] \in {"open", "idle", "deliver", "fault"}
             PROVE  t \in clients'[home'[t]]
  BY DEF Joined
<1>0. /\ pc \in [Session -> Running \cup Resting]
      /\ home \in [Session -> Session \cup {None}] /\ clients \in [Session -> SUBSET Session]
  BY DEF TypeOK
<1>1. CASE JoinChannel(s)
  <2>1. /\ home' = home /\ clients' = [clients EXCEPT ![home[s]] = @ \cup {s}]
        /\ t # s => pc'[t] = pc[t]
    BY <1>0, <1>1 DEF JoinChannel, Goto
  <2>2. QED
    BY <1>0, <2>1 DEF Joined
<1>2. CASE Leave(s)
  <2>1. /\ home' = home /\ clients' = [clients EXCEPT ![home[s]] = @ \ {s}]
        /\ t # s /\ pc'[t] = pc[t]
    BY <1>0, <1>2 DEF Leave, Goto
  <2>2. QED
    BY <1>0, <2>1 DEF Joined
<1>3. CASE CreateChannel(s)
  <2>1. clients' = clients /\ t # s /\ pc'[t] = pc[t] /\ home'[t] = home[t]
    BY <1>0, <1>3 DEF CreateChannel, Goto
  <2>2. QED
    BY <2>1 DEF Joined
<1>4. CASE ~JoinChannel(s) /\ ~Leave(s) /\ ~CreateChannel(s)
  <2>1. clients' = clients /\ home' = home
    BY <1>4 DEF Session1, Callback, Handshake, Refuse, OnOpen, ReadMessage, SendUp, ReadBroken,
       ExceptionCaught, ClientGone, ChannelInactive, SendOffline, Unmap, ReadSize, DropChannel,
       hub
  <2>2. pc[t] \in {"http", "open", "idle", "deliver", "fault"}
    BY <1>0, <1>4 DEF Session1, Callback, Handshake, Refuse, OnOpen, ReadMessage, SendUp,
       ReadBroken, ExceptionCaught, ClientGone, ChannelInactive, SendOffline, Unmap, ReadSize,
       DropChannel, Goto, Send
  <2>3. pc[t] # "http"
    BY <2>1 DEF Registered
  <2>4. QED
    BY <2>1, <2>2, <2>3 DEF Joined
<1>5. QED
  BY <1>1, <1>2, <1>3, <1>4

(* On one loop the broadcast takes up the object every listening session joined. *)
LEMMA BroadcastFinds ==
    ASSUME TypeOK, \A t \in Session: Kept(t), Joined, NEW c \in Channel, BroadcastGet(c)
    PROVE  Heard'
<1>1. bcast'.due = Listening(c) /\ bcast'.obj = channels[c]
      /\ bcast'.start = (IF channels[c] = None THEN {} ELSE clients[channels[c]])
      /\ home' = home
  BY DEF BroadcastGet, hub
<1>2. ASSUME NEW s \in Listening(c)
      PROVE  home[s] # None /\ channels[c] = home[s] /\ s \in clients[home[s]]
  <2>1. /\ s \in Session /\ pc[s] \in {"open", "idle", "deliver"} /\ req[s].cid = c
        /\ home[s] # None
    BY DEF Listening
  <2>2. channelMap[s] # None
    BY <2>1 DEF Kept
  <2>3. channels[c] = home[s]
    BY <2>1, <2>2 DEF Kept
  <2>4. QED
    BY <2>1, <2>3 DEF Joined
<1>3. QED
  BY <1>1, <1>2 DEF Heard

LEMMA HearStep ==
    ASSUME Inv, OneLoopInv, HearInv, [Next]_vars
    PROVE  HearInv'
<1>0. TypeOK /\ \A t \in Session: Registered(t) /\ Kept(t)
  BY DEF Inv, OneLoopInv
<1>1. ASSUME NEW s \in Session, Session1(s) PROVE HearInv'
  <2>1. Joined'
    BY <1>0, <1>1, JoinedStep DEF HearInv
  <2>2. bcast' = bcast
    BY <1>1 DEF Session1, Callback, Handshake, Refuse, CreateChannel, JoinChannel, OnOpen,
       ReadMessage, SendUp, ReadBroken, ExceptionCaught, ClientGone, ChannelInactive,
       SendOffline, Unmap, ReadSize, DropChannel, Leave
  <2>3. bcast # None => bcast.due \subseteq Session
    BY <1>0 DEF TypeOK, Broadcast
  <2>4. Heard'
    BY <1>0, <1>1, <2>2, <2>3, HomeStays DEF HearInv, Heard
  <2>5. QED
    BY <2>1, <2>4 DEF HearInv
<1>2. CASE UNCHANGED <<pc, hub, bcast>>
  BY <1>2 DEF HearInv, Joined, Heard, hub
<1>3. ASSUME NEW c \in Channel, BroadcastGet(c) PROVE HearInv'
  <2>1. Joined'
    BY <1>3 DEF HearInv, Joined, BroadcastGet, hub
  <2>2. Heard'
    BY <1>0, <1>3, BroadcastFinds DEF HearInv
  <2>3. QED
    BY <2>1, <2>2 DEF HearInv
<1>4. ASSUME NEW t \in Session, BroadcastNext(t) PROVE HearInv'
  <2>1. /\ bcast # None /\ UNCHANGED <<pc, hub>>
        /\ bcast' = [bcast EXCEPT !.seen = @ \cup {t}]
    BY <1>4 DEF BroadcastNext
  <2>2. bcast \in Broadcast
    BY <1>0, <2>1 DEF TypeOK
  <2>3. bcast'.due = bcast.due /\ bcast'.obj = bcast.obj /\ bcast'.start = bcast.start
    BY <2>1, <2>2 DEF Broadcast
  <2>4. QED
    BY <2>1, <2>3 DEF HearInv, Joined, Heard, hub
<1>5. CASE BroadcastDone
  BY <1>5 DEF BroadcastDone, HearInv, Joined, Heard, hub
<1>6. QED
  BY <1>1, <1>2, <1>3, <1>4, <1>5 DEF Next, Listener, vars

(* With all sessions on one event loop, for any number of them and of channels, *)
(* a broadcast that finishes has been written to every session that listened   *)
(* when it began and still does, whatever clients join and leave while the     *)
(* iterator runs (MessageService.broadcast, WebsocketChannel.getAllClient).    *)
THEOREM OneLoopReaches ==
    ASSUME \A t, u \in Session: LoopOf[t] = LoopOf[u]
    PROVE  Spec => []BroadcastReaches
<1>1. Init => OneLoopInv /\ HearInv
  BY DEF Init, OneLoopInv, Alone, Kept, Running, HearInv, Joined, Heard
<1>2. Inv /\ OneLoopInv /\ [Next]_vars => OneLoopInv'
  BY OneLoopStep
<1>3. Inv /\ OneLoopInv /\ HearInv /\ [Next]_vars => HearInv'
  BY HearStep
<1>4. HearInv => BroadcastReaches
  <2> SUFFICES ASSUME HearInv, Exhausted, NEW s \in bcast.due, s \in Listening(bcast.to)
               PROVE  s \in bcast.seen
    BY DEF BroadcastReaches
  <2>1. bcast # None /\ home[s] # None /\ bcast.obj = home[s] /\ s \in bcast.start
    BY DEF Exhausted, HearInv, Heard
  <2>2. s \in clients[home[s]]
    BY <2>1 DEF HearInv, Joined, Listening
  <2>3. QED
    BY <2>1, <2>2 DEF Exhausted
<1>5. QED
  BY <1>1, <1>2, <1>3, <1>4, Invariance, PTL DEF Spec

-----------------------------------------------------------------------------
(* ConnectHub implements Presence when sends succeed: every step of the node   *)
(* is, for the records, a step of Presence or none.  Inv says which session    *)
(* may send what; Quiet adds where a session has sent nothing yet, and how     *)
(* many records it has when a frame is about to become another one.            *)

Quiet(s) ==
    /\ pc[s] \in {"http"} \cup Opening => published[s] = <<>>
    /\ pc[s] = "deliver" => Len(published[s]) =< MaxFrames

(* A step of another session leaves the records of t as they are. *)
LEMMA RecordsOfOthers ==
    ASSUME TypeOK, NEW s \in Session, Session1(s), NEW t \in Session, t # s
    PROVE  published'[t] = published[t]
BY DEF TypeOK, Session1, Callback, hub, Publish, Send, Handshake, Refuse, CreateChannel,
       JoinChannel, OnOpen, ReadMessage, SendUp, ReadBroken, ExceptionCaught, ClientGone,
       ChannelInactive, SendOffline, Unmap, ReadSize, DropChannel, Leave

(* Only onOpen, onMessage and onClose send. *)
LEMMA RecordsStay ==
    ASSUME TypeOK, NEW s \in Session, Session1(s),
           ~OnOpen(s), ~SendUp(s), ~SendOffline(s)
    PROVE  published' = published
BY DEF Session1, Callback, hub, Handshake, Refuse, CreateChannel, JoinChannel,
       ReadMessage, ReadBroken, ExceptionCaught, ClientGone, ChannelInactive,
       Unmap, ReadSize, DropChannel, Leave

(* The callbacks that send end outside the opening ones and outside deliver. *)
LEMMA SendersEnd ==
    ASSUME TypeOK, NEW s \in Session, OnOpen(s) \/ SendUp(s) \/ SendOffline(s)
    PROVE  pc'[s] \in {"idle", "fault", "unmap", "closed"}
BY DEF TypeOK, OnOpen, SendUp, SendOffline, Send, Goto

(* Quiet is inductive next to TypeOK. *)
LEMMA QuietStep ==
    ASSUME TypeOK, \A t \in Session: Quiet(t), [Next]_vars, NEW t \in Session
    PROVE  Quiet(t)'
<1>1. ASSUME NEW s \in Session, Session1(s) PROVE Quiet(t)'
  <2>1. CASE t # s
    <3>1. pc'[t] = pc[t] /\ published'[t] = published[t]
      BY <1>1, <2>1, OthersStay, RecordsOfOthers
    <3>2. QED
      BY <3>1 DEF Quiet
  <2>2. CASE t = s /\ (OnOpen(s) \/ SendUp(s) \/ SendOffline(s))
    BY <1>1, <2>2, SendersEnd DEF Quiet, Opening
  <2>3. CASE t = s /\ ~OnOpen(s) /\ ~SendUp(s) /\ ~SendOffline(s)
    <3>1. published' = published
      BY <1>1, <2>3, RecordsStay
    <3>2. pc'[s] = "deliver" => Len(published[s]) =< MaxFrames
      BY <1>1, <2>3 DEF Quiet, TypeOK, Session1, Callback, Goto, Handshake, Refuse,
         CreateChannel, JoinChannel, ReadMessage, ReadBroken, ExceptionCaught,
         ClientGone, ChannelInactive, Unmap, ReadSize, DropChannel, Leave
    <3>3. pc'[s] \in {"http"} \cup Opening => pc[s] \in {"http"} \cup Opening
      BY <1>1, <2>3 DEF TypeOK, Opening, Session1, Callback, Goto, Handshake, Refuse,
         CreateChannel, JoinChannel, ReadMessage, ReadBroken, ExceptionCaught,
         ClientGone, ChannelInactive, Unmap, ReadSize, DropChannel, Leave
    <3>4. QED
      BY <2>3, <3>1, <3>2, <3>3 DEF Quiet
  <2>4. QED
    BY <2>1, <2>2, <2>3
<1>2. CASE UNCHANGED <<pc, published>>
  BY <1>2 DEF Quiet
<1>3. CASE Listener
  BY <1>2, <1>3 DEF Listener, BroadcastGet, BroadcastNext, BroadcastDone
<1>4. CASE UNCHANGED vars
  BY <1>2, <1>4 DEF vars
<1>5. QED
  BY <1>1, <1>3, <1>4 DEF Next

(* A session that has said something has records, the last of which it said. *)
LEMMA LastIsSaid ==
    ASSUME TypeOK, NEW s \in Session, NEW kind \in Said(s)
    PROVE  published[s] # <<>> /\ published[s][Len(published[s])] \in Said(s)
<1>1. published[s] \in Seq(Kind)
  BY DEF TypeOK
<1>2. Len(published[s]) \in Nat /\ Len(published[s]) > 0
  BY <1>1 DEF Said
<1>3. QED
  BY <1>1, <1>2 DEF Said

(* A step of a session is a step of Presence for its records. *)
LEMMA PresenceStep ==
    ASSUME ~BrokerFails, Inv, \A t \in Session: Quiet(t), NEW s \in Session, Session1(s)
    PROVE  Promise!Next \/ UNCHANGED published
<1>0. TypeOK /\ Registered(s) /\ Recorded(s) /\ Quiet(s)
  BY DEF Inv
<1>1. CASE OnOpen(s)
  <2>1. published[s] = <<>>
    BY <1>0, <1>1 DEF Quiet, OnOpen, Opening
  <2>2. UNCHANGED published \/ Publish(s, "ONLINE")
    BY <1>1 DEF OnOpen, Send
  <2>3. QED
    BY <2>1, <2>2 DEF Promise!Next, Promise!Online, Promise!Append1, Publish
<1>2. CASE SendUp(s)
  <2>1. Publish(s, "MESSAGE") /\ pc[s] = "deliver"
    BY <1>2 DEF SendUp, Send
  <2>2. "ONLINE" \in Said(s) /\ "OFFLINE" \notin Said(s)
    BY <1>0, <2>1 DEF Recorded, Opening
  <2>3. published[s] # <<>> /\ published[s][Len(published[s])] # "OFFLINE"
    BY <1>0, <2>2, LastIsSaid
  <2>4. Len(published[s]) =< MaxFrames
    BY <1>0, <2>1 DEF Quiet
  <2>5. QED
    BY <2>1, <2>3, <2>4
       DEF Promise!Next, Promise!Message, Promise!Append1, Promise!Ends, Publish
<1>3. CASE SendOffline(s)
  <2>1. Publish(s, "OFFLINE") /\ pc[s] = "offline"
    BY <1>3 DEF SendOffline, Send
  <2>2. "ONLINE" \in Said(s) /\ "OFFLINE" \notin Said(s)
    BY <1>0, <2>1 DEF Recorded, Registered, Opening, Closing
  <2>3. published[s] # <<>> /\ published[s][Len(published[s])] # "OFFLINE"
    BY <1>0, <2>2, LastIsSaid
  <2>4. QED
    BY <2>1, <2>3 DEF Promise!Next, Promise!Offline, Promise!Append1, Promise!Ends, Publish
<1>4. CASE ~OnOpen(s) /\ ~SendUp(s) /\ ~SendOffline(s)
  BY <1>0, <1>4, RecordsStay
<1>5. QED
  BY <1>1, <1>2, <1>3, <1>4

-----------------------------------------------------------------------------
(* For any sessions, channels and loops, if Kafka accepts every send, the      *)
(* records of each session follow Presence: ONLINE, messages, one OFFLINE      *)
(* (MessageService.onOpen, onMessage, onClose).                                *)
THEOREM PresenceRefined ==
    ASSUME ~BrokerFails
    PROVE  Spec => PresenceHolds
<1>1. Init => Promise!Init /\ \A s \in Session: Quiet(s)
  BY DEF Init, Promise!Init, Quiet
<1>2. Inv /\ (\A s \in Session: Quiet(s)) /\ [Next]_vars => (\A s \in Session: Quiet(s))'
  BY QuietStep DEF Inv
<1>3. Inv /\ (\A s \in Session: Quiet(s)) /\ [Next]_vars => [Promise!Next]_published
  <2> SUFFICES ASSUME Inv, \A s \in Session: Quiet(s), [Next]_vars
               PROVE  Promise!Next \/ UNCHANGED published
    OBVIOUS
  <2>1. ASSUME NEW s \in Session, Session1(s) PROVE Promise!Next \/ UNCHANGED published
    BY <2>1, PresenceStep
  <2>2. CASE Listener
    BY <2>2 DEF Listener, BroadcastGet, BroadcastNext, BroadcastDone
  <2>3. CASE UNCHANGED vars
    BY <2>3 DEF vars
  <2>4. QED
    BY <2>1, <2>2, <2>3 DEF Next
<1>4. QED
  BY <1>1, <1>2, <1>3, Invariance, PTL DEF Spec, PresenceHolds, Promise!Spec
=============================================================================
