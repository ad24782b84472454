----------------------------- MODULE ConnectHub -----------------------------
(***************************************************************************)
(* One im-connect node: the life of its WebSocket sessions, the ChannelsHub*)
(* they register in, and the broadcast of a channel's messages to them.    *)
(*                                                                         *)
(* A session's callbacks run on the netty event loop it is bound to, one   *)
(* callback at a time per loop; the loops and the Kafka listener thread    *)
(* interleave at every access of the shared maps.  A WebsocketChannel is   *)
(* named by the session whose ChannelsHub.create allocated it: two objects *)
(* for the same channel id can exist at once.                              *)
(***************************************************************************)
EXTENDS Naturals, Sequences

CONSTANTS
    Session,      \* WebSocket connections, each used once
    Channel,      \* channel ids a client can put in its "cid" parameter
    Loop,         \* netty worker event loops (WebSocketProperties.workNum)
    LoopOf,       \* the loop netty bound each session to
    MaxFrames,    \* bound on the message frames of one session
    BrokerFails,  \* whether KafkaTemplate.send may throw
    None          \* Java's null

ASSUME NoneIsNew      == None \notin Session \cup Channel
ASSUME LoopOfType     == LoopOf \in [Session -> Loop]
ASSUME BoundIsNat     == MaxFrames \in Nat
ASSUME BrokerIsBool   == BrokerFails \in BOOLEAN

VARIABLES
    pc,           \* where each session's connection and current callback are
    req,          \* the query parameters of its upgrade request
    channels,     \* ChannelsHub.channels: channel id -> WebsocketChannel
    channelMap,   \* ChannelsHub.channelMap: session -> channel id
    clients,      \* WebsocketChannel.clients of each allocated object
    home,         \* ChannelClient.websocketChannel of each session
    published,    \* records handed to Kafka on behalf of each session
    bcast         \* the broadcast the Kafka listener thread is in, or None

hub  == <<channels, channelMap, clients, home>>
vars == <<pc, req, hub, published, bcast>>

Request == [cid: Channel \cup {None}, uid: BOOLEAN]
Kind    == {"ONLINE", "MESSAGE", "OFFLINE"}

Running == {"create", "join", "open", "deliver", "fault", "offline", "unmap",
            "size", "drop", "leave"}           \* inside a callback
Resting == {"http", "idle", "dead", "closed"}  \* between two callbacks

Broadcast ==
    [to: Channel, obj: Session \cup {None}, due: SUBSET Session,
     start: SUBSET Session, seen: SUBSET Session]

TypeOK ==
    /\ pc \in [Session -> Running \cup Resting]
    /\ req \in [Session -> Request]
    /\ channels \in [Channel -> Session \cup {None}]
    /\ channelMap \in [Session -> Channel \cup {None}]
    /\ clients \in [Session -> SUBSET Session]
    /\ home \in [Session -> Session \cup {None}]
    /\ published \in [Session -> Seq(Kind)]
    /\ bcast \in Broadcast \cup {None}
    /\ \A s \in Session: pc[s] \in {"join", "open", "leave"} => home[s] # None

-----------------------------------------------------------------------------
(* ChannelsHub.getWebSocketClient.  Only s's own callbacks write channelMap[s] *)
(* and s's entry of a client map, so its three lookups act as one read of      *)
(* channels.                                                                   *)
Throws(s) == \/ channelMap[s] = None
             \/ channels[channelMap[s]] = None
Found(s)  == /\ ~Throws(s)
             /\ s \in clients[channels[channelMap[s]]]

(* The event loop of s has no callback in progress. *)
LoopFree(s) == \A t \in Session: LoopOf[t] = LoopOf[s] => pc[t] \notin Running

Goto(s, where) == pc' = [pc EXCEPT ![s] = where]
Publish(s, kind) == published' = [published EXCEPT ![s] = Append(@, kind)]

(* MessageSender.sendEvent or sendMessage on behalf of s: the record is handed *)
(* to Kafka and the callback goes on at `sent`, or the send throws.            *)
Send(s, kind, sent, thrown) ==
    \/ Goto(s, sent) /\ Publish(s, kind)
    \/ BrokerFails /\ Goto(s, thrown) /\ UNCHANGED published

Init ==
    /\ pc = [s \in Session |-> "http"]
    /\ req \in [Session -> Request]
    /\ channels = [c \in Channel |-> None]
    /\ channelMap = [s \in Session |-> None]
    /\ clients = [s \in Session |-> {}]
    /\ home = [s \in Session |-> None]
    /\ published = [s \in Session |-> <<>>]
    /\ bcast = None

-----------------------------------------------------------------------------
(* The upgrade request: AuthorizeHandler, WebsocketHandler.handshake and the   *)
(* first step of connectClient.  Without a cid parameter connectClient throws  *)
(* inside the handshake's future, where netty only logs it: the connection     *)
(* stays open and unregistered.                                                *)
Handshake(s) ==
    /\ pc[s] = "http"
    /\ LoopFree(s)
    /\ IF req[s].cid = None
       THEN Goto(s, "idle") /\ UNCHANGED channelMap
       ELSE /\ Goto(s, "create")
            /\ channelMap' = [channelMap EXCEPT ![s] = req[s].cid]
    /\ UNCHANGED <<req, channels, clients, home, published, bcast>>

(* The request is refused, or the peer goes away before the handshake. *)
Refuse(s) ==
    /\ pc[s] = "http"
    /\ LoopFree(s)
    /\ Goto(s, "closed")
    /\ UNCHANGED <<req, hub, published, bcast>>

(* Mutant: create returns what putIfAbsent gives, null for a new channel. *)
CreateByPutIfAbsent(s) ==
    /\ pc[s] = "create"
    /\ LET there == channels[req[s].cid]
       IN  /\ channels' = [channels EXCEPT ![req[s].cid] = IF there = None THEN s ELSE there]
           /\ home' = [home EXCEPT ![s] = there]
    /\ Goto(s, "join")
    /\ UNCHANGED <<req, channelMap, clients, published, bcast>>

(* Mutant: create hands out a channel object the hub already has, of any id. *)
CreateShared(s) ==
    /\ pc[s] = "create"
    /\ LET made == {channels[c] : c \in Channel} \ {None}
           got  == IF made = {} THEN s ELSE CHOOSE o \in made: TRUE
       IN  /\ channels' = [channels EXCEPT ![req[s].cid] = got]
           /\ home' = [home EXCEPT ![s] = got]
    /\ Goto(s, "join")
    /\ UNCHANGED <<req, channelMap, clients, published, bcast>>

(* ChannelsHub.create: channels.computeIfAbsent, atomic in ConcurrentHashMap. *)
CreateChannel(s) ==
    /\ pc[s] = "create"
    /\ LET there == channels[req[s].cid]
           got   == IF there = None THEN s ELSE there
       IN  /\ channels' = [channels EXCEPT ![req[s].cid] = got]
           /\ home' = [home EXCEPT ![s] = got]
    /\ Goto(s, "join")
    /\ UNCHANGED <<req, channelMap, clients, published, bcast>>

(* Mutant: connectClient ends without calling onOpen. *)
JoinUnannounced(s) ==
    /\ pc[s] = "join"
    /\ clients' = [clients EXCEPT ![home[s]] = @ \cup {s}]
    /\ Goto(s, "idle")
    /\ UNCHANGED <<req, channels, channelMap, home, published, bcast>>

(* ChannelClient.join, WebsocketChannel.join *)
JoinChannel(s) ==
    /\ pc[s] = "join"
    /\ clients' = [clients EXCEPT ![home[s]] = @ \cup {s}]
    /\ Goto(s, "open")
    /\ UNCHANGED <<req, channels, channelMap, home, published, bcast>>

(* MessageService.onOpen.  No uid, or a failing send, throws into the          *)
(* handshake's future: the client stays joined and unannounced.                *)
OnOpen(s) ==
    /\ pc[s] = "open"
    /\ IF req[s].uid
       THEN Send(s, "ONLINE", "idle", "idle")
       ELSE Goto(s, "idle") /\ UNCHANGED published
    /\ UNCHANGED <<req, hub, bcast>>

-----------------------------------------------------------------------------
(* MessageHandler.channelRead0 up to the send: the session's client is looked  *)
(* up; a failed lookup, a null client and a missing uid all throw.             *)
ReadMessage(s) ==
    /\ pc[s] = "idle"
    /\ LoopFree(s)
    /\ Len(published[s]) =< MaxFrames
    /\ Goto(s, IF Found(s) /\ req[s].uid THEN "deliver" ELSE "fault")
    /\ UNCHANGED <<req, hub, published, bcast>>

(* MessageService.onMessage, KafkaMessageSender.sendMessage *)
SendUp(s) ==
    /\ pc[s] = "deliver"
    /\ Send(s, "MESSAGE", "idle", "fault")
    /\ UNCHANGED <<req, hub, bcast>>

(* A frame the decoders reject, or a ping or pong whose lookup throws. *)
ReadBroken(s) ==
    /\ pc[s] = "idle"
    /\ LoopFree(s)
    /\ Goto(s, "fault")
    /\ UNCHANGED <<req, hub, published, bcast>>

(* MessageHandler.exceptionCaught repeats the lookup: when that throws,        *)
(* ctx.close() is never reached.                                               *)
ExceptionCaught(s) ==
    /\ pc[s] = "fault"
    /\ Goto(s, IF Throws(s) THEN "idle" ELSE "dead")
    /\ UNCHANGED <<req, hub, published, bcast>>

(* The peer closes the connection or is lost; the loop has yet to notice. *)
ClientGone(s) ==
    /\ pc[s] = "idle"
    /\ Goto(s, "dead")
    /\ UNCHANGED <<req, hub, published, bcast>>

-----------------------------------------------------------------------------
(* MessageHandler.channelInactive: lookup, onClose, destroy, leave.  The       *)
(* callback is abandoned where the lookup or onClose throws.                   *)
ChannelInactive(s) ==
    /\ pc[s] = "dead"
    /\ LoopFree(s)
    /\ Goto(s, IF Found(s) /\ req[s].uid THEN "offline" ELSE "closed")
    /\ UNCHANGED <<req, hub, published, bcast>>

(* Mutant: what the send throws is caught, and the session destroyed anyway. *)
SendOfflineCaught(s) ==
    /\ pc[s] = "offline"
    /\ Send(s, "OFFLINE", "unmap", "unmap")
    /\ UNCHANGED <<req, hub, bcast>>

(* MessageService.onClose *)
SendOffline(s) ==
    /\ pc[s] = "offline"
    /\ Send(s, "OFFLINE", "unmap", "closed")
    /\ UNCHANGED <<req, hub, bcast>>

(* ChannelsHub.destroy: remove the session, then look whether ANY session is   *)
(* left on the node, then drop the channel.                                    *)
Unmap(s) ==
    /\ pc[s] = "unmap"
    /\ channelMap' = [channelMap EXCEPT ![s] = None]
    /\ Goto(s, "size")
    /\ UNCHANGED <<req, channels, clients, home, published, bcast>>

(* Mutant: the size is compared as if the session were still counted. *)
ReadSizeOffByOne(s) ==
    /\ pc[s] = "size"
    /\ Goto(s, IF \A t, u \in Session: channelMap[t] # None /\ channelMap[u] # None => t = u
               THEN "drop" ELSE "leave")
    /\ UNCHANGED <<req, hub, published, bcast>>

ReadSize(s) ==
    /\ pc[s] = "size"
    /\ Goto(s, IF \A t \in Session: channelMap[t] = None THEN "drop" ELSE "leave")
    /\ UNCHANGED <<req, hub, published, bcast>>

DropChannel(s) ==
    /\ pc[s] = "drop"
    /\ channels' = [channels EXCEPT ![req[s].cid] = None]
    /\ Goto(s, "leave")
    /\ UNCHANGED <<req, channelMap, clients, home, published, bcast>>

(* Mutant: the client leaves the channel the hub lists now. *)
LeaveListed(s) ==
    /\ pc[s] = "leave"
    /\ LET o == channels[req[s].cid]
       IN  clients' = IF o = None THEN clients ELSE [clients EXCEPT ![o] = @ \ {s}]
    /\ Goto(s, "closed")
    /\ UNCHANGED <<req, channels, channelMap, home, published, bcast>>

(* ChannelClient.leave, WebsocketChannel.leave *)
Leave(s) ==
    /\ pc[s] = "leave"
    /\ clients' = [clients EXCEPT ![home[s]] = @ \ {s}]
    /\ Goto(s, "closed")
    /\ UNCHANGED <<req, channels, channelMap, home, published, bcast>>

-----------------------------------------------------------------------------
(* Joined sessions of channel c whose connection is open. *)
Listening(c) == {s \in Session: /\ pc[s] \in {"open", "idle", "deliver"}
                                /\ req[s].cid = c
                                /\ home[s] # None}

(* KafkaMessageListener.onMessage, MessageService.handlerMessage and broadcast *)
(* up to the iterator over the channel's clients.  `due` is a history of who   *)
(* was listening then.                                                         *)
BroadcastGet(c) ==
    /\ bcast = None
    /\ LET o == channels[c]
       IN  bcast' = [to |-> c, obj |-> o, due |-> Listening(c),
                     start |-> IF o = None THEN {} ELSE clients[o], seen |-> {}]
    /\ UNCHANGED <<pc, req, hub, published>>

(* WebSocketClient.sendMessage to the next client of the weakly consistent     *)
(* iterator: one still in the map, not visited before.  (The JDK's iterator    *)
(* has fetched its next entry already, so a client that left just now may get  *)
(* one more packet, on a connection that is closed.)                           *)
BroadcastNext(t) ==
    /\ bcast # None
    /\ bcast.obj # None
    /\ t \in clients[bcast.obj] \ bcast.seen
    /\ bcast' = [bcast EXCEPT !.seen = @ \cup {t}]
    /\ UNCHANGED <<pc, req, hub, published>>

(* The iterator is exhausted: it has visited every client that was there when  *)
(* it was made and still is; a client that joined since may be missed.         *)
Exhausted ==
    /\ bcast # None
    /\ bcast.obj # None => bcast.start \cap clients[bcast.obj] \subseteq bcast.seen

BroadcastDone ==
    /\ Exhausted
    /\ bcast' = None
    /\ UNCHANGED <<pc, req, hub, published>>

-----------------------------------------------------------------------------
Callback(s) == \/ CreateChannel(s) \/ JoinChannel(s) \/ OnOpen(s)
               \/ SendUp(s) \/ ExceptionCaught(s)
               \/ SendOffline(s) \/ Unmap(s) \/ ReadSize(s)
               \/ DropChannel(s) \/ Leave(s)

Session1(s) == \/ Handshake(s) \/ Refuse(s)
               \/ ReadMessage(s) \/ ReadBroken(s) \/ ClientGone(s)
               \/ ChannelInactive(s)
               \/ Callback(s)

Listener == \/ \E c \in Channel: BroadcastGet(c)
            \/ \E t \in Session: BroadcastNext(t)
            \/ BroadcastDone

Next == (\E s \in Session: Session1(s)) \/ Listener

Spec == Init /\ [][Next]_vars

(* A loop runs every callback it started to its end, and takes every pending   *)
(* task, channelInactive among them, in turn.                                  *)
Fairness == \A s \in Session: /\ WF_vars(Callback(s))
                              /\ SF_vars(ChannelInactive(s))

FairSpec == Spec /\ Fairness

-----------------------------------------------------------------------------
(* The kinds of records sent on behalf of s. *)
Said(s) == {published[s][i] : i \in 1 .. Len(published[s])}

(* What the records say: announced, and not yet gone. *)
Online(s) == "ONLINE" \in Said(s) /\ "OFFLINE" \notin Said(s)

(* LedgerMatchesHub: outside the callbacks that open and close it, a session   *)
(* the records show online is registered in the hub, so that no session        *)
(* disappears from the node with its OFFLINE event unsent; and, when sends do  *)
(* not fail, a registered session with a uid is one the records show online,   *)
(* whatever callback threw in between (connectClient, channelInactive).        *)
LedgerMatchesHub ==
    \A s \in Session:
        pc[s] \notin {"create", "join", "open", "unmap"} =>
            /\ Online(s) => channelMap[s] # None /\ req[s].uid
            /\ ~BrokerFails /\ channelMap[s] # None /\ req[s].uid => Online(s)

(* OwnChannelOnly: however creations and removals of channel objects race, a   *)
(* broadcast reaches only sessions that asked for that channel.                *)
OwnChannelOnly ==
    bcast # None => \A s \in bcast.seen: req[s].cid = bcast.to

(* OfflineIsFinal: once a session's OFFLINE event is out and its               *)
(* channelInactive has returned, no channel object, current or orphaned, still *)
(* holds the client (WebsocketChannel.leave is called on the object joined).   *)
OfflineIsFinal ==
    \A s \in Session: pc[s] = "closed" /\ "OFFLINE" \in Said(s) =>
        \A o \in Session: s \notin clients[o]

(* AllChannelsListed: ChannelsHub.channels holds all channels: the object a    *)
(* connected client joined is the one the hub has under the client's channel   *)
(* id, so that broadcast and getWebSocketClient find the client.               *)
AllChannelsListed ==
    \A s \in Session:
        pc[s] \in {"idle", "deliver", "dead"} /\ home[s] # None =>
            channels[req[s].cid] = home[s]

(* BroadcastReaches: a broadcast that finishes has been written to every       *)
(* session that was listening on the channel when it began and still is.       *)
BroadcastReaches ==
    Exhausted => bcast.due \cap Listening(bcast.to) \subseteq bcast.seen

(* EventuallyOffline: a session announced online whose connection is lost is   *)
(* eventually reported OFFLINE (MessageHandler.channelInactive).               *)
EventuallyOffline ==
    \A s \in Session: pc[s] = "dead" /\ Online(s) ~> "OFFLINE" \in Said(s)

(* PresenceHolds: the records of every session follow Presence: ONLINE first,  *)
(* then messages, then OFFLINE and nothing after it.                           *)
Promise == INSTANCE Presence WITH Session <- Session, MaxFrames <- MaxFrames,
                                published <- published
PresenceHolds == Promise!Spec
=============================================================================
