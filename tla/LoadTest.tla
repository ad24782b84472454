------------------------------ MODULE LoadTest ------------------------------
(***************************************************************************)
(* The clients of the system: the k6 scripts of load-test (script.js,      *)
(* script1.js and script2.js differ in the number of virtual users and the *)
(* user id only).  A script asks im-message once, in setup, for the nodes  *)
(* of its channel; its virtual users then connect to the first node of     *)
(* that answer, again and again, and read the packets the node broadcasts  *)
(* with the codec of packet_pb.js.  k6, the sockets and the node are here  *)
(* as far as the scripts see them.                                         *)
(***************************************************************************)
EXTENDS PacketPb

CONSTANTS
    Script,       \* the test runs, one per script
    VU,           \* virtual users
    ScriptOf,     \* the script a virtual user runs
    Node,         \* connect nodes
    Content,      \* message contents, the empty one included
    Time,         \* timestamps, zero included
    Clock,        \* what nodes stamp their packets with
    Traffic,      \* the messages nodes broadcast
    MaxFrames,    \* bound on the packets sent over one connection
    MaxLosses     \* bound on the losses of nodes and connections

ASSUME ScriptOfType    == ScriptOf \in [VU -> Script]
ASSUME FramesAreNat    == MaxFrames \in Nat /\ MaxLosses \in Nat
ASSUME DefaultsAreThere == "" \in Content /\ 0 \in Time
ASSUME TimeIsInt64      == Time \subseteq Int64 /\ Clock \subseteq Time \ {0}
ASSUME NullIsNoValue    == Null \notin Content /\ Null \notin Int
ASSUME NullIsNoArray    ==
    LET Type == (0 .. 6) \cup {Null}
        Text == Content \cup {Null}
        When == Int \cup {Null}
    IN  Null \notin (Type \X Text \X When) \cup (Text \X Text \X Type \X When)

VARIABLES
    up,           \* nodes that accept connections
    losses,       \* number of losses so far
    phase,        \* phase[s]: of k6's test run
    nodeInfo,     \* nodeInfo[s]: what setup returned to the virtual users
    at,           \* at[v]: where the iteration of v is
    link,         \* link[v]: the connection of v as the network has it
    inbox,        \* inbox[v]: packets on their way to v, and their bytes
    heard         \* heard[v]: packets handed to v over this connection

vars == <<up, losses, phase, nodeInfo, at, link, inbox, heard>>
Conn == <<at, link, inbox, heard>>

-----------------------------------------------------------------------------
(* The Java side's packet.proto and message.proto: values by field name.  A    *)
(* message that came from a client of a newer schema has fields the service    *)
(* does not know, kept and written again by protobuf-java (`more`).            *)

JMessage == [type: 0 .. 6, content: Content, timestamp: Time, more: BOOLEAN]
JEvent   == [channelId: Content, userId: Content, type: 0 .. 6, timestamp: Time]
JPacket  == [dataType: 0 .. 1, timestamp: Time,
             message: JMessage \cup {Null}, event: JEvent \cup {Null}]
JData    == [channelId: Content, content: Content, messageId: Content, timestamp: Time]

EncodeMessage(m) ==
    Written(1, m.type, 0) \o Written(2, m.content, "") \o Written(3, m.timestamp, 0)
      \o IF m.more THEN << <<9, Null>> >> ELSE <<>>

EncodeEvent(e) ==
    Written(1, e.channelId, "") \o Written(2, e.userId, "")
      \o Written(3, e.type, 0) \o Written(4, e.timestamp, 0)

EncodeData(d) ==
    Written(1, d.channelId, "") \o Written(2, d.content, "")
      \o Written(3, d.messageId, "") \o Written(4, d.timestamp, 0)

EncodePacket(p) ==
    Written(1, p.dataType, 0) \o Written(2, p.timestamp, 0)
      \o (IF p.message = Null THEN <<>> ELSE << <<3, EncodeMessage(p.message)>> >>)
      \o (IF p.event = Null THEN <<>> ELSE << <<4, EncodeEvent(p.event)>> >>)

ASSUME TrafficAssumption == Traffic \subseteq JMessage
ASSUME NullIsNoMessage   ==
    /\ Null \notin [type: 0 .. 6, content: Content, timestamp: Int, more: BOOLEAN]
    /\ Null \notin [channelId: Content, userId: Content, type: 0 .. 6, timestamp: Int]

(* What is left of such values when an int64 becomes a JavaScript number *)
Rounded(r)  == [r EXCEPT !.timestamp = ReadInt64(@)]
Received(p) == [Rounded(p) EXCEPT !.message = IF @ = Null THEN Null ELSE Rounded(@),
                                  !.event   = IF @ = Null THEN Null ELSE Rounded(@)]

(* The values a client should see of it, by packet_pb.js's names of the fields *)
Seen(p) ==
    LET m == p.message
        e == p.event
    IN  [datatype  |-> p.dataType,
         timestamp |-> p.timestamp,
         message   |-> IF m = Null THEN Null
                       ELSE [type |-> m.type, content |-> m.content,
                             timestamp |-> m.timestamp],
         event     |-> IF e = Null THEN Null
                       ELSE [channelid |-> e.channelId, userid |-> e.userId,
                             type |-> e.type, timestamp |-> e.timestamp]]

SeenData(d) == [channelid |-> d.channelId, content |-> d.content,
                messageid |-> d.messageId, timestamp |-> d.timestamp]

(* handlerMessage broadcasts no other packet than a message stamped with now.  *)
Broadcast(m, now) == [dataType |-> 0, timestamp |-> now, message |-> m, event |-> Null]

-----------------------------------------------------------------------------
TypeOK ==
    /\ up \subseteq Node
    /\ losses \in 0 .. MaxLosses
    /\ phase \in [Script -> {"setup", "running", "over"}]
    /\ \A s \in Script: nodeInfo[s] \in Seq(Node) /\ Len(nodeInfo[s]) =< 2
    /\ at \in [VU -> {"idle", "connecting", "open"}]
    /\ link \in [VU -> {"none", "up", "closed", "silent"}]
    /\ \A v \in VU:
          /\ link[v] # "none" <=> at[v] = "open"
          /\ link[v] = "none" => inbox[v] = <<>> /\ heard[v] = <<>>
          /\ Len(inbox[v]) + Len(heard[v]) =< MaxFrames
          /\ at[v] # "idle" => nodeInfo[ScriptOf[v]] # <<>>

Init ==
    /\ up = Node
    /\ losses = 0
    /\ phase = [s \in Script |-> "setup"]
    /\ nodeInfo = [s \in Script |-> <<>>]
    /\ at = [v \in VU |-> "idle"]
    /\ link = [v \in VU |-> "none"]
    /\ inbox = [v \in VU |-> <<>>]
    /\ heard = [v \in VU |-> <<>>]

(* data.nodeInfo[0]: the node this script's virtual users go to, all along.    *)
Target(v) == nodeInfo[ScriptOf[v]][1]

-----------------------------------------------------------------------------
(* setup: im-message answers with at most two nodes, none when it knows of     *)
(* none; what it answers may be out of date.                                   *)
Setup(s) ==
    /\ phase[s] = "setup"
    /\ phase' = [phase EXCEPT ![s] = "running"]
    /\ \E k \in 0 .. 2: \E list \in [1 .. k -> Node]:
          nodeInfo' = [nodeInfo EXCEPT ![s] = list]
    /\ UNCHANGED <<up, losses, Conn>>

(* No answer: res.json() throws, and k6 does not start the test. *)
SetupFails(s) ==
    /\ phase[s] = "setup"
    /\ phase' = [phase EXCEPT ![s] = "over"]
    /\ UNCHANGED <<up, losses, nodeInfo, Conn>>

(* An iteration up to ws.connect.  With no node in the answer it ends at       *)
(* nodeInfo.protocol, a TypeError, and changes nothing.                        *)
Iterate(v) ==
    /\ phase[ScriptOf[v]] = "running"
    /\ at[v] = "idle"
    /\ nodeInfo[ScriptOf[v]] # <<>>
    /\ at' = [at EXCEPT ![v] = "connecting"]
    /\ UNCHANGED <<up, losses, phase, nodeInfo, link, inbox, heard>>

Open(v) ==
    /\ at[v] = "connecting"
    /\ Target(v) \in up
    /\ at' = [at EXCEPT ![v] = "open"]
    /\ link' = [link EXCEPT ![v] = "up"]
    /\ UNCHANGED <<up, losses, phase, nodeInfo, inbox, heard>>

(* No connection: ws.connect gives no response, the check counts a failure. *)
Refused(v) ==
    /\ at[v] = "connecting"
    /\ Target(v) \notin up
    /\ at' = [at EXCEPT ![v] = "idle"]
    /\ UNCHANGED <<up, losses, phase, nodeInfo, link, inbox, heard>>

(* The node writes a broadcast message to the connection. *)
Send(v, m, now) ==
    /\ link[v] = "up"
    /\ Len(inbox[v]) + Len(heard[v]) < MaxFrames
    /\ LET p == Broadcast(m, now)
       IN  inbox' = [inbox EXCEPT ![v] =
                       Append(@, [packet |-> p, bytes |-> EncodePacket(p)])]
    /\ UNCHANGED <<up, losses, phase, nodeInfo, at, link, heard>>

(* What arrived before the connection ended is still handed to the script. *)
OnBinaryMessage(v) ==
    /\ inbox[v] # <<>>
    /\ heard' = [heard EXCEPT ![v] = Append(@, PacketFromReader(Head(inbox[v]).bytes))]
    /\ inbox' = [inbox EXCEPT ![v] = Tail(@)]
    /\ UNCHANGED <<up, losses, phase, nodeInfo, at, link>>

(* Mutant: what was on its way is left to the next connection. *)
EndsUnread(v) ==
    /\ at' = [at EXCEPT ![v] = "idle"]
    /\ link' = [link EXCEPT ![v] = "none"]
    /\ heard' = [heard EXCEPT ![v] = <<>>]
    /\ UNCHANGED <<up, losses, phase, nodeInfo, inbox>>

(* The socket's loop and ws.connect end, and with them the iteration. *)
Ends(v) ==
    /\ at' = [at EXCEPT ![v] = "idle"]
    /\ link' = [link EXCEPT ![v] = "none"]
    /\ inbox' = [inbox EXCEPT ![v] = <<>>]
    /\ heard' = [heard EXCEPT ![v] = <<>>]
    /\ UNCHANGED <<up, losses, phase, nodeInfo>>

(* The end of the connection is read from the socket. *)
OnClose(v) ==
    /\ link[v] = "closed"
    /\ Ends(v)

(* Mutant: without socket.ping(), nothing is written to a silent connection. *)
IntervalWithoutPing(v) ==
    /\ link[v] = "silent"
    /\ UNCHANGED vars

(* The script's ping every 30 s only writes and logs, like its error handler,   *)
(* and on a live connection nothing comes of it (the node's onPing logs).  On a *)
(* connection whose loss nobody reported the kernel gives up on it, and k6 ends *)
(* the socket's loop.                                                          *)
Interval(v) ==
    /\ link[v] = "silent"
    /\ Ends(v)

(* After 300 s no iteration starts; the ones under way are interrupted. *)
Over(s) ==
    /\ phase[s] = "running"
    /\ phase' = [phase EXCEPT ![s] = "over"]
    /\ UNCHANGED <<up, losses, nodeInfo, Conn>>

Interrupt(v) ==
    /\ phase[ScriptOf[v]] = "over"
    /\ at[v] # "idle"
    /\ Ends(v)

-----------------------------------------------------------------------------
(* The node closes a connection, or the network loses it without a word. *)
Drop(v, how) ==
    /\ link[v] = "up" /\ losses < MaxLosses
    /\ losses' = losses + 1
    /\ link' = [link EXCEPT ![v] = how]
    /\ UNCHANGED <<up, phase, nodeInfo, at, inbox, heard>>

(* A node stops, in order or without a word, and may come back. *)
NodeDown(n, how) ==
    /\ n \in up /\ losses < MaxLosses
    /\ losses' = losses + 1
    /\ up' = up \ {n}
    /\ link' = [v \in VU |-> IF link[v] = "up" /\ Target(v) = n THEN how ELSE link[v]]
    /\ UNCHANGED <<phase, nodeInfo, at, inbox, heard>>

NodeUp(n) ==
    /\ n \notin up
    /\ up' = up \cup {n}
    /\ UNCHANGED <<losses, phase, nodeInfo, Conn>>

User(v) == \/ Iterate(v) \/ Open(v) \/ Refused(v)
           \/ OnClose(v) \/ Interval(v)

Network == \/ \E v \in VU: \E how \in {"closed", "silent"}: Drop(v, how)
           \/ \E n \in Node: NodeUp(n) \/ \E how \in {"closed", "silent"}: NodeDown(n, how)

Next == \/ \E s \in Script: Setup(s) \/ SetupFails(s) \/ Over(s)
        \/ \E v \in VU: \/ User(v) \/ OnBinaryMessage(v) \/ Interrupt(v)
                        \/ \E m \in Traffic, now \in Clock: Send(v, m, now)
        \/ Network

Spec == Init /\ [][Next]_vars

(* k6 runs the iterations and the socket's events of each virtual user.        *)
FairSpec == Spec /\ \A v \in VU: WF_vars(User(v))

-----------------------------------------------------------------------------
(* CodecAgrees: packet_pb.js and the services' protocol files are separate     *)
(* copies of one schema.  Every packet, and every Data, the Java side can      *)
(* encode, of whatever type and with every combination of defaults and absent  *)
(* parts, is read by the script with the same field values, a timestamp being  *)
(* what readInt64 makes of it: the same up to Exact, else wrong by no more     *)
(* than one part in Exact.  Written again it has the same bytes, except for    *)
(* the fields the JavaScript reader does not know and what the timestamps      *)
(* lost, unless one was rounded out of the range of an int64.  That is asked   *)
(* of the codec a test is about to start with: packets are read one by one     *)
(* into new objects, so no later state tells more.                             *)
Abs(i) == IF i < 0 THEN -i ELSE i
ReadsTime(t) ==
    LET u == ReadInt64(t)
    IN  IF Abs(t) =< Exact THEN u = t ELSE Abs(u - t) * Exact =< Abs(t)

Stamps(p) == {p.timestamp} \cup {part.timestamp: part \in {p.message, p.event} \ {Null}}
Known(p)  == IF p.message = Null THEN p ELSE [p EXCEPT !.message.more = FALSE]

ReadsPacket(p) ==
    LET read == PacketFromReader(EncodePacket(p))
        got  == Received(p)
    IN  /\ PacketToObject(read) = Seen(got)
        /\ (\A t \in Stamps(got): CanWriteInt64(t)) =>
              PacketToWriter(read) = EncodePacket(Known(got))

ReadsData(d) ==
    LET read == DataFromReader(EncodeData(d))
        got  == Rounded(d)
    IN  /\ DataToObject(read) = SeenData(got)
        /\ CanWriteInt64(got.timestamp) => DataToWriter(read) = EncodeData(got)

CodecAgrees ==
    (\A s \in Script: phase[s] = "setup") =>
        /\ \A t \in Time: ReadsTime(t)
        /\ \A p \in JPacket: ReadsPacket(p)
        /\ \A d \in JData: ReadsData(d)

(* DeliveryHolds: over one connection a script is handed what the node wrote,  *)
(* in order, once, with the values it was built with, as far as JavaScript can *)
(* hold a timestamp (CodecAgrees), until the connection ends (script.js,       *)
(* binaryMessage).                                                             *)
Packets     == {Broadcast(m, now) : m \in Traffic, now \in Clock}
ToHear      == [p \in Packets |-> Seen(Received(p))]

Log(v)      == [i \in 1 .. Len(heard[v]) |-> PacketToObject(heard[v][i])]
OnTheWay(v) == [i \in 1 .. Len(inbox[v]) |-> ToHear[inbox[v][i].packet]]

Promise == INSTANCE Delivery WITH
             Client  <- VU,
             Content <- {ToHear[p] : p \in Packets},
             sent    <- [v \in VU |-> Log(v) \o OnTheWay(v)],
             heard   <- [v \in VU |-> Log(v)]
DeliveryHolds == Promise!Spec

(* Reconnects: as long as a test runs and the node of its setup stays up, each *)
(* of its users is connected again and again, whatever was lost before and     *)
(* however silently.                                                           *)
Running(v)   == phase[ScriptOf[v]] = "running" /\ nodeInfo[ScriptOf[v]] # <<>>
Reconnects ==
    \A v \in VU: <>[](Running(v) /\ Target(v) \in up) => []<>(link[v] = "up")
=============================================================================
