------------------------------ MODULE NodeLoad ------------------------------
(***************************************************************************)
(* The routing state of im-message: which connect nodes are available, on  *)
(* which nodes each channel has sessions, and how loaded the nodes are     *)
(* (ConnectNodeLoadServiceImpl), driven by two kinds of threads:           *)
(*   - the Kafka listener, which takes the records of TOPIC_IM_MESSAGE one *)
(*     by one: ONLINE and OFFLINE events and channel messages;             *)
(*   - the HTTP threads that handle Consul's service notifications.        *)
(* The ConnectNodeLoad objects are <<node, n>>, n counting the starts of   *)
(* the node: map and queue share them, and a restart makes a new one.      *)
(* A record's label decides who handles it.  The listener expects events   *)
(* labelled EVENT; the sendEvent of im-connect labels them MESSAGE.        *)
(***************************************************************************)
EXTENDS Integers, Sequences, FiniteSets

CONSTANTS
    Node,         \* connect nodes, by Consul service id
    Channel,      \* channel ids
    Watcher,      \* HTTP threads handling Consul notifications
    MaxStarts,    \* bound on the starts of one node
    MaxRecords,   \* bound on the records produced to the topic
    Traffic,      \* the kinds of records the nodes produce
    EventLabel,   \* the DataType that ONLINE and OFFLINE records carry
    Lossy,        \* whether sending a record to Kafka may fail, or lose it
    None          \* Java's null

ASSUME NoneIsNew        == None \notin Node \cup Channel
ASSUME StartsAssumption  == MaxStarts \in Nat
ASSUME TrafficAssumption == Traffic \subseteq {"ONLINE", "OFFLINE", "MESSAGE"}
ASSUME RecordsAssumption == MaxRecords \in Nat
ASSUME LabelAssumption   == EventLabel \in {"EVENT", "MESSAGE"}
ASSUME LossyAssumption   == Lossy \in BOOLEAN

VARIABLES
    registry,       \* nodes with a passing check in Consul
    notified,       \* the service list of Consul's last notification
    sessions,       \* sessions[n][c]: sessions node n has announced on c
    produced,       \* number of records produced so far
    topic,          \* records not yet taken by the Kafka listener
    availableNodes, \* node -> number of its current object, 0 when absent
    starts,         \* objects made so far for each node
    load,           \* ConnectNodeLoad.load of each object
    channelNodeMap, \* channel -> occurrences of each node in its list
    queue,          \* connectNodeLoads, the heap array of the PriorityQueue
    kafka,          \* the Kafka listener thread
    watch,          \* the watcher threads
    missed,         \* history: kinds of events lost, or failed on an unknown node
    abandoned,      \* history: a message failed before it was stored
    raced,          \* history: two threads were between map and queue at once
    requeued        \* history: a disconnect queued an object a second time

env   == <<registry, notified, sessions, produced>>
state == <<availableNodes, starts, load, channelNodeMap, queue>>
hist  == <<missed, abandoned, raced, requeued>>
vars  == <<env, topic, state, kafka, watch, hist>>

Kind   == {"ONLINE", "OFFLINE", "MESSAGE"}
Object == Node \X (1 .. MaxStarts)
Record == [kind: Kind, node: Node, to: Channel]

KafkaAt == {"idle", "remove", "add", "readd", "lookup", "send", "save"}
WatchAt == {"idle", "offline", "online", "stop", "unqueue", "enqueue", "print"}

(* Locals: the object connect or disconnect works on; for a message, its       *)
(* channel, the nodes still to look up, the list found and the nodes sent to.  *)
Listener == [at: KafkaAt, obj: Object \cup {None}, to: Channel \cup {None},
             todo: SUBSET Node, list: SUBSET (Object \cup {None}), sent: SUBSET Node]

(* Locals: the list notified, nodes still to stop and to start, the one at hand. *)
Notice   == [at: WatchAt, list: SUBSET Node, off: SUBSET Node, on: SUBSET Node,
             node: Node \cup {None}, made: 0 .. MaxStarts]

IdleListener == [at |-> "idle", obj |-> None, to |-> None,
                 todo |-> {}, list |-> {}, sent |-> {}]
IdleWatcher  == [at |-> "idle", list |-> {}, off |-> {}, on |-> {},
                 node |-> None, made |-> 0]

TypeOK ==
    /\ registry \subseteq Node /\ notified \subseteq Node
    /\ sessions \in [Node -> [Channel -> Nat]]
    /\ produced \in 0 .. MaxRecords
    /\ topic \in Seq(Record)
    /\ availableNodes \in [Node -> 0 .. MaxStarts]
    /\ starts \in [Node -> 0 .. MaxStarts]
    /\ load \in [Object -> Int]
    /\ channelNodeMap \in [Channel -> [Node -> Nat]]
    /\ queue \in Seq(Object)
    /\ kafka \in Listener
    /\ watch \in [Watcher -> Notice]
    /\ missed \subseteq {"ONLINE", "OFFLINE"} /\ abandoned \in BOOLEAN
    /\ raced \in BOOLEAN /\ requeued \in BOOLEAN

-----------------------------------------------------------------------------
(* java.util.PriorityQueue over the load ld: the heap array from index 1 *)

SiftUp(q, i, x, ld) ==
    LET up[k \in 1 .. i] ==
          IF k = 1 \/ ld[x] >= ld[q[k \div 2]]
          THEN [q EXCEPT ![k] = x]
          ELSE [up[k \div 2] EXCEPT ![k] = q[k \div 2]]
    IN  up[i]

SiftDown(q, i, x, ld) ==
    LET n == Len(q)
        Least(k) == IF 2*k < n /\ ld[q[2*k]] > ld[q[2*k + 1]] THEN 2*k + 1 ELSE 2*k
        down[k \in 1 .. n] ==
          IF 2*k > n \/ ld[x] =< ld[q[Least(k)]]
          THEN [q EXCEPT ![k] = x]
          ELSE [down[Least(k)] EXCEPT ![k] = q[Least(k)]]
    IN  down[i]

Added(q, x, ld) == SiftUp(Append(q, x), Len(q) + 1, x, ld)

RemovedAt(q, i, ld) ==
    LET last == q[Len(q)]
        rest == SubSeq(q, 1, Len(q) - 1)
        down == SiftDown(rest, i, last, ld)
    IN  IF i = Len(q) THEN rest
        ELSE IF down[i] = last THEN SiftUp(down, i, last, ld) ELSE down

(* PriorityQueue.remove with ConnectNodeLoad.equals: the first entry of the node *)
Removed(q, n, ld) ==
    LET at == {i \in 1 .. Len(q): q[i][1] = n}
    IN  IF at = {} THEN q
        ELSE RemovedAt(q, CHOOSE i \in at: \A j \in at: i =< j, ld)

-----------------------------------------------------------------------------
Init ==
    /\ registry = {} /\ notified = {}
    /\ sessions = [n \in Node |-> [c \in Channel |-> 0]]
    /\ produced = 0
    /\ topic = <<>>
    /\ availableNodes = [n \in Node |-> 0]
    /\ starts = [n \in Node |-> 0]
    /\ load = [x \in Object |-> 0]
    /\ channelNodeMap = [c \in Channel |-> [n \in Node |-> 0]]
    /\ queue = <<>>
    /\ kafka = IdleListener
    /\ watch = [w \in Watcher |-> IdleWatcher]
    /\ missed = {} /\ abandoned = FALSE /\ raced = FALSE /\ requeued = FALSE

-----------------------------------------------------------------------------
(* The connect nodes and Consul *)

(* A record is sent without waiting for Kafka's answer, and never again: it    *)
(* may be lost.                                                                *)
Produce(n, kind, c) ==
    /\ kind \in Traffic
    /\ produced < MaxRecords
    /\ produced' = produced + 1
    /\ \/ /\ topic' = Append(topic, [kind |-> kind, node |-> n, to |-> c])
          /\ UNCHANGED missed
       \/ /\ Lossy
          /\ missed' = missed \cup ({kind} \ {"MESSAGE"})
          /\ UNCHANGED topic
    /\ UNCHANGED <<registry, notified, state, kafka, watch, abandoned, raced, requeued>>

(* A session of channel c opens on node n, closes, or sends a message.  The     *)
(* node serves sockets whether or not Consul lists it yet, or still.           *)
Open(n, c) ==
    /\ sessions' = [sessions EXCEPT ![n][c] = @ + 1]
    /\ Produce(n, "ONLINE", c)

Close(n, c) ==
    /\ sessions[n][c] > 0
    /\ sessions' = [sessions EXCEPT ![n][c] = @ - 1]
    /\ Produce(n, "OFFLINE", c)

Say(n, c) ==
    /\ sessions[n][c] > 0
    /\ Produce(n, "MESSAGE", c)
    /\ UNCHANGED sessions

(* A node's check starts or stops passing. *)
Flip(n) ==
    /\ n \in registry \/ starts[n] < MaxStarts
    /\ registry' = (registry \ {n}) \cup ({n} \ registry)
    /\ UNCHANGED <<notified, sessions, produced, topic, state, kafka, watch, hist>>

-----------------------------------------------------------------------------
(* Neither the queue nor the way from map to queue is thread safe, and start    *)
(* reads the whole queue once more to print it.  `raced` records that a thread *)
(* went there while another was on its way; from then on an operation on the   *)
(* queue may take effect, be lost, or throw, for the threads may have left the *)
(* array in any order.                                                         *)

KafkaInQueue      == kafka.at \in {"remove", "add", "readd"}
WatcherInQueue(w) == watch[w].at \in {"unqueue", "enqueue", "print"}

KafkaOverlap == \E w \in Watcher: WatcherInQueue(w)
WatcherOverlap(w) == \/ KafkaInQueue
                     \/ \E v \in Watcher \ {w}: WatcherInQueue(v)

QueueOp(q) == queue' = q \/ (raced /\ queue' = queue)

QueueThrows == raced /\ UNCHANGED queue

(* KafkaMessageListener.onChannelMessage catches and logs what a record throws; *)
(* the next record is taken all the same.                                      *)
KafkaDone == kafka' = IdleListener

(* The next record is an event, labelled as one: handleEvent, eventHandler. *)
Arrives(kind) ==
    /\ kafka.at = "idle" /\ topic # <<>>
    /\ Head(topic).kind = kind
    /\ EventLabel = "EVENT"

-----------------------------------------------------------------------------
(* The list of a channel with one more occurrence of node n, List.add, and with *)
(* one less if there is any, List.remove.  The mutants keep a node once, and    *)
(* count below zero.                                                            *)
WithOneOnly(list, n) == [list EXCEPT ![n] = 1]
WithOne(list, n)     == [list EXCEPT ![n] = @ + 1]

WithoutBelow(list, n) == [list EXCEPT ![n] = @ - 1]
WithoutOne(list, n)   == [list EXCEPT ![n] = IF @ = 0 THEN 0 ELSE @ - 1]

(* connect: an unknown node throws before anything is changed; otherwise the   *)
(* list of the channel grows and the shared object's load rises, then it is    *)
(* taken out of the queue and put in again.                                    *)
Connect ==
    /\ Arrives("ONLINE")
    /\ LET n == Head(topic).node
           c == Head(topic).to
           x == <<n, availableNodes[n]>>
       IN  IF availableNodes[n] = 0
           THEN missed' = missed \cup {"ONLINE"} /\ UNCHANGED <<channelNodeMap, load, kafka>>
           ELSE /\ channelNodeMap' = [channelNodeMap EXCEPT ![c] = WithOne(@, n)]
                /\ load' = [load EXCEPT ![x] = @ + 1]
                /\ kafka' = [kafka EXCEPT !.at = "remove", !.obj = x]
                /\ UNCHANGED missed
    /\ topic' = Tail(topic)
    /\ raced' = (raced \/ KafkaOverlap)
    /\ UNCHANGED <<env, availableNodes, starts, queue, watch, abandoned, requeued>>

(* Mutant: connect queues the object again without taking it out. *)
ConnectKeep ==
    /\ kafka.at = "remove"
    /\ kafka' = [kafka EXCEPT !.at = "add"]
    /\ UNCHANGED <<env, topic, state, watch, hist>>

ConnectRemove ==
    /\ kafka.at = "remove"
    /\ \/ /\ QueueOp(Removed(queue, kafka.obj[1], load))
          /\ kafka' = [kafka EXCEPT !.at = "add"]
       \/ QueueThrows /\ KafkaDone
    /\ UNCHANGED <<env, topic, availableNodes, starts, load, channelNodeMap, watch, hist>>

ConnectAdd ==
    /\ kafka.at = "add"
    /\ QueueOp(Added(queue, kafka.obj, load)) \/ QueueThrows
    /\ KafkaDone
    /\ UNCHANGED <<env, topic, availableNodes, starts, load, channelNodeMap, watch, hist>>

(* disconnect: one occurrence leaves the list, the load falls while the object *)
(* is in the queue, and the object is added without being removed.             *)
Disconnect ==
    /\ Arrives("OFFLINE")
    /\ LET n == Head(topic).node
           c == Head(topic).to
           x == <<n, availableNodes[n]>>
       IN  IF availableNodes[n] = 0
           THEN /\ missed' = missed \cup {"OFFLINE"}
                /\ UNCHANGED <<channelNodeMap, load, kafka, requeued>>
           ELSE /\ channelNodeMap' = [channelNodeMap EXCEPT ![c] = WithoutOne(@, n)]
                /\ load' = [load EXCEPT ![x] = @ - 1]
                /\ kafka' = [kafka EXCEPT !.at = "readd", !.obj = x]
                /\ requeued' = TRUE
                /\ UNCHANGED missed
    /\ topic' = Tail(topic)
    /\ raced' = (raced \/ KafkaOverlap)
    /\ UNCHANGED <<env, availableNodes, starts, queue, watch, abandoned>>

DisconnectAdd ==
    /\ kafka.at = "readd"
    /\ QueueOp(Added(queue, kafka.obj, load)) \/ QueueThrows
    /\ KafkaDone
    /\ UNCHANGED <<env, topic, availableNodes, starts, load, channelNodeMap, watch, hist>>

-----------------------------------------------------------------------------
(* handleMessage, sendToConnectNode: the distinct nodes of the channel's list  *)
(* are looked up one by one (getConnectNodeByChannelId), then sent to in turn, *)
(* then the message is stored.  The list's order is left open.  An event       *)
(* labelled MESSAGE goes the same way: it names no channel, so no node.        *)
TakeMessage ==
    /\ kafka.at = "idle" /\ topic # <<>>
    /\ LET r == Head(topic)
       IN  IF r.kind = "MESSAGE"
           THEN kafka' = [kafka EXCEPT !.at = "lookup", !.to = r.to,
                            !.todo = {n \in Node: channelNodeMap[r.to][n] > 0}]
           ELSE EventLabel = "MESSAGE" /\ kafka' = [kafka EXCEPT !.at = "lookup"]
    /\ topic' = Tail(topic)
    /\ UNCHANGED <<env, state, watch, hist>>

Lookup(n) ==
    /\ kafka.at = "lookup"
    /\ n \in kafka.todo
    /\ LET x == IF availableNodes[n] = 0 THEN None ELSE <<n, availableNodes[n]>>
       IN  kafka' = [kafka EXCEPT !.todo = @ \ {n}, !.list = @ \cup {x}]
    /\ UNCHANGED <<env, topic, state, watch, hist>>

LookupDone ==
    /\ kafka.at = "lookup" /\ kafka.todo = {}
    /\ kafka' = [kafka EXCEPT !.at = "send"]
    /\ UNCHANGED <<env, topic, state, watch, hist>>

(* Mutant: the loop over the nodes ends after the first send. *)
SendToFirst(x) ==
    /\ kafka.at = "send"
    /\ x \in kafka.list \ {None}
    /\ kafka' = [kafka EXCEPT !.list = {}, !.sent = @ \cup {x[1]}]
    /\ UNCHANGED <<env, topic, state, watch, hist>>

SendToNode(x) ==
    /\ kafka.at = "send"
    /\ x \in kafka.list \ {None}
    /\ kafka' = [kafka EXCEPT !.list = @ \ {x}, !.sent = @ \cup {x[1]}]
    /\ UNCHANGED <<env, topic, state, watch, hist>>

(* A null in the list throws, and so may a send: the nodes after it and the    *)
(* storage are skipped.                                                        *)
SendThrows(x) ==
    /\ kafka.at = "send"
    /\ x \in kafka.list
    /\ x = None \/ Lossy
    /\ KafkaDone
    /\ abandoned' = TRUE
    /\ UNCHANGED <<env, topic, state, watch, missed, raced, requeued>>

SendDone ==
    /\ kafka.at = "send" /\ kafka.list = {}
    /\ kafka' = [kafka EXCEPT !.at = "save"]
    /\ UNCHANGED <<env, topic, state, watch, hist>>

(* messageStorageService.save, messageStateService.stat *)
Save ==
    /\ kafka.at = "save"
    /\ KafkaDone
    /\ UNCHANGED <<env, topic, state, watch, hist>>

-----------------------------------------------------------------------------
(* handlerServiceNotify *)

WatchGoto(w, notice) == watch' = [watch EXCEPT ![w] = notice]

(* Consul notifies a change; resolveServiceNotify keeps the passing services.  *)
Notify(w) ==
    /\ watch[w].at = "idle"
    /\ notified # registry
    /\ notified' = registry
    /\ WatchGoto(w, [IdleWatcher EXCEPT !.at = "offline", !.list = registry])
    /\ UNCHANGED <<registry, sessions, produced, topic, state, kafka, hist>>

(* Mutant: the nodes that left Consul's list are not looked for. *)
FindNoneOffline(w) ==
    /\ watch[w].at = "offline"
    /\ WatchGoto(w, [watch[w] EXCEPT !.at = "online"])
    /\ UNCHANGED <<env, topic, state, kafka, hist>>

FindOffline(w) ==
    /\ watch[w].at = "offline"
    /\ WatchGoto(w, [watch[w] EXCEPT !.at = "online",
                        !.off = {n \in Node: availableNodes[n] # 0} \ watch[w].list])
    /\ UNCHANGED <<env, topic, state, kafka, hist>>

FindOnline(w) ==
    /\ watch[w].at = "online"
    /\ WatchGoto(w, [watch[w] EXCEPT !.at = "stop",
                        !.on = {n \in watch[w].list: availableNodes[n] = 0}])
    /\ UNCHANGED <<env, topic, state, kafka, hist>>

(* stop: out of the map, then one matching entry out of the queue *)
Stop(w, n) ==
    /\ watch[w].at = "stop"
    /\ n \in watch[w].off
    /\ availableNodes' = [availableNodes EXCEPT ![n] = 0]
    /\ WatchGoto(w, [watch[w] EXCEPT !.at = "unqueue", !.node = n, !.off = @ \ {n}])
    /\ raced' = (raced \/ WatcherOverlap(w))
    /\ UNCHANGED <<env, topic, starts, load, channelNodeMap, queue, kafka,
                   missed, abandoned, requeued>>

(* Mutant: stop leaves the node's object in the queue. *)
StopKeep(w) ==
    /\ watch[w].at = "unqueue"
    /\ WatchGoto(w, [watch[w] EXCEPT !.at = "stop", !.node = None])
    /\ UNCHANGED <<env, topic, state, kafka, hist>>

StopRemove(w) ==
    /\ watch[w].at = "unqueue"
    /\ \/ /\ QueueOp(Removed(queue, watch[w].node, load))
          /\ WatchGoto(w, [watch[w] EXCEPT !.at = "stop", !.node = None])
       \/ QueueThrows /\ WatchGoto(w, IdleWatcher)
    /\ UNCHANGED <<env, topic, availableNodes, starts, load, channelNodeMap, kafka, hist>>

(* start: a new object of load 0 into the map, then into the queue *)
Start(w, n) ==
    /\ watch[w].at = "stop" /\ watch[w].off = {}
    /\ n \in watch[w].on
    /\ starts[n] < MaxStarts
    /\ starts' = [starts EXCEPT ![n] = @ + 1]
    /\ availableNodes' = [availableNodes EXCEPT ![n] = starts'[n]]
    /\ WatchGoto(w, [watch[w] EXCEPT !.at = "enqueue", !.node = n,
                                       !.made = starts'[n], !.on = @ \ {n}])
    /\ raced' = (raced \/ WatcherOverlap(w))
    /\ UNCHANGED <<env, topic, load, channelNodeMap, queue, kafka,
                   missed, abandoned, requeued>>

(* The object of watch[w].node this watcher made is the one it queues: a       *)
(* concurrent watcher may have replaced it in the map meanwhile.               *)
StartAdd(w) ==
    /\ watch[w].at = "enqueue"
    /\ LET x == <<watch[w].node, watch[w].made>>
       IN  \/ /\ QueueOp(Added(queue, x, load))
              /\ WatchGoto(w, [watch[w] EXCEPT !.at = "print"])
           \/ QueueThrows /\ WatchGoto(w, IdleWatcher)
    /\ UNCHANGED <<env, topic, availableNodes, starts, load, channelNodeMap, kafka, hist>>

(* println(connectNodeLoads): the iteration throws when another thread has     *)
(* changed the queue under it, and the nodes still to start are skipped.       *)
StartPrint(w) ==
    /\ watch[w].at = "print"
    /\ \/ WatchGoto(w, [watch[w] EXCEPT !.at = "stop", !.node = None])
       \/ raced /\ WatchGoto(w, IdleWatcher)
    /\ UNCHANGED <<env, topic, state, kafka, hist>>

NotifyDone(w) ==
    /\ watch[w].at = "stop" /\ watch[w].off = {} /\ watch[w].on = {}
    /\ WatchGoto(w, IdleWatcher)
    /\ UNCHANGED <<env, topic, state, kafka, hist>>

-----------------------------------------------------------------------------
Environment == \/ \E n \in Node, c \in Channel: Open(n, c) \/ Close(n, c) \/ Say(n, c)
               \/ \E n \in Node: Flip(n)

KafkaStep == \/ Connect \/ ConnectRemove \/ ConnectAdd
             \/ Disconnect \/ DisconnectAdd
             \/ TakeMessage \/ LookupDone \/ SendDone \/ Save
             \/ \E n \in Node: Lookup(n)
             \/ \E x \in Object \cup {None}: SendToNode(x) \/ SendThrows(x)

WatchStep(w) == \/ FindOffline(w) \/ FindOnline(w)
                \/ \E n \in Node: Stop(w, n) \/ Start(w, n)
                \/ StopRemove(w) \/ StartAdd(w) \/ StartPrint(w) \/ NotifyDone(w)

Next == \/ Environment \/ KafkaStep
        \/ \E w \in Watcher: Notify(w) \/ WatchStep(w)

Spec == Init /\ [][Next]_vars

(* Consul notifies every change in the end; the threads do not stop half way.  *)
FairSpec == /\ Spec
            /\ WF_vars(KafkaStep)
            /\ \A w \in Watcher: WF_vars(Notify(w)) /\ WF_vars(WatchStep(w))

-----------------------------------------------------------------------------
Pending(n, kind, c) ==
    Cardinality({i \in 1 .. Len(topic): topic[i] = [kind |-> kind, node |-> n, to |-> c]})

(* Sessions of node n on channel c as of the records taken so far. *)
Announced(n, c) == sessions[n][c] - Pending(n, "ONLINE", c) + Pending(n, "OFFLINE", c)

(* LedgerExact: as long as no event was lost or has failed, the list of every  *)
(* channel holds each node exactly once per session announced there, through   *)
(* stops and restarts of the node and whatever the watchers interleave.        *)
LedgerExact ==
    missed = {} => \A n \in Node, c \in Channel: channelNodeMap[c][n] = Announced(n, c)

(* MessageReachesSessions: a message that gets to its storage has been sent to *)
(* every node with a session announced on its channel.  Lost OFFLINE events    *)
(* leave nodes in the list too often, never too rarely; only a missed ONLINE   *)
(* can cut a session off.                                                      *)
MessageReachesSessions ==
    "ONLINE" \notin missed /\ kafka.at = "save" /\ kafka.to # None =>
        \A n \in Node: Announced(n, kafka.to) > 0 => n \in kafka.sent

(* LeastFirst: if notifications are handled one at a time, and as long as no   *)
(* disconnect has run and no two threads were on the way to the queue at once, *)
(* the head of the queue, getBestNode's first answer, has the least load       *)
(* whenever no connect is half done.                                           *)
LeastFirst ==
    ~raced /\ ~requeued /\ ~KafkaInQueue =>
        \A i \in 1 .. Len(queue): load[queue[1]] =< load[queue[i]]

(* QueueIsAvailable: under the same conditions, and at rest, the queue holds   *)
(* the object of each available node, once, and nothing else.  Two watchers    *)
(* that both found a node missing would start it, and queue it, twice.         *)
QueueIsAvailable ==
    ~raced /\ ~requeued /\ ~KafkaInQueue /\ (\A w \in Watcher: ~WatcherInQueue(w)) =>
        /\ {queue[i] : i \in 1 .. Len(queue)}
              = {x \in Object: availableNodes[x[1]] = x[2]}
        /\ \A i, j \in 1 .. Len(queue): i # j => queue[i][1] # queue[j][1]

(* MessageStored: every message taken from the topic is stored.                *)
MessageStored == ~abandoned

(* RegistryFollowed: when Consul's list no longer changes and the last         *)
(* notification of it began after the others had ended, the available nodes    *)
(* become those on the list, while events go on arriving and whatever earlier  *)
(* notifications made of it, handled at once on a live view of those nodes     *)
(* (NodeWatchService.handlerServiceNotify); unless two threads met on the way  *)
(* to the queue or while start prints it, where an exception skips the rest of *)
(* a notification, or the node's starts are used up (MaxStarts).  If the last  *)
(* one begins beside another, the older list may be applied after it, without  *)
(* any exception.                                                              *)
LastAlone ==
    \E list \in SUBSET Node: <>(
        /\ \E w \in Watcher: /\ watch[w].at = "offline" /\ watch[w].list = list
                             /\ \A v \in Watcher \ {w}: watch[v].at = "idle"
        /\ [](notified = list))

RegistryFollowed ==
    LastAlone => \A n \in Node:
        /\ <>[](n \in registry) =>
              <>[](raced \/ starts[n] = MaxStarts \/ availableNodes[n] # 0)
        /\ <>[](n \notin registry) => <>[](raced \/ availableNodes[n] = 0)
=============================================================================
