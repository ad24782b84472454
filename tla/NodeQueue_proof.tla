-------------------------- MODULE NodeQueue_proof --------------------------
(***************************************************************************)
(* Proofs about the types of NodeLoad and about its queue, for every set of*)
(* nodes and channels, any number of records and starts of a node.         *)
(*                                                                         *)
(* What the queue holds and how it is ordered depends on how far each      *)
(* thread has come between map and queue: QueueInv says, for each place a  *)
(* thread can be at, which object is still, or not yet, in the queue and   *)
(* where the array may be out of order.                                    *)
(***************************************************************************)
EXTENDS Heap_proof, NodeLoad_proof

(* The object and the node at hand are there whenever the code uses them. *)
Locals ==
    /\ KafkaInQueue => kafka.obj \in Object
    /\ \A w \in Watcher: WatcherInQueue(w) =>
          /\ watch[w].node # None
          /\ watch[w].at = "enqueue" => watch[w].made >= 1

TypeInv == TypeOK /\ Locals

OtherTypes ==
    /\ registry \subseteq Node /\ notified \subseteq Node
    /\ produced \in 0 .. MaxRecords
    /\ load \in [Object -> Int]

FlagTypes == abandoned \in BOOLEAN /\ raced \in BOOLEAN /\ requeued \in BOOLEAN

LEMMA TypeParts ==
    TypeOK <=> /\ LedgerTypes /\ NodeTypes /\ OtherTypes /\ FlagTypes
               /\ queue \in Seq(Object) /\ watch \in [Watcher -> Notice]
BY DEF TypeOK, LedgerTypes, NodeTypes, OtherTypes, FlagTypes

LEMMA TypePartsAfter ==
    TypeOK' <=> /\ LedgerTypes' /\ NodeTypes' /\ OtherTypes' /\ FlagTypes'
                /\ queue' \in Seq(Object) /\ watch' \in [Watcher -> Notice]
BY DEF TypeOK, LedgerTypes, NodeTypes, OtherTypes, FlagTypes

-----------------------------------------------------------------------------
(* The types *)

LEMMA LedgerTypesStep ==
    ASSUME LedgerTypes, [Next]_vars
    PROVE  LedgerTypes'
<1>1. CASE Environment
  BY <1>1, ProduceEffect, FlipFrame DEF Environment, ledger, LedgerTypes
<1>2. CASE Connect \/ Disconnect \/ TakeMessage
  <2>1. topic # <<>> /\ topic \in Seq(Record) /\ topic' = Tail(topic) /\ sessions' = sessions
    BY <1>2 DEF Connect, Disconnect, TakeMessage, Arrives, env, LedgerTypes
  <2>2. topic' \in Seq(Record)
    BY <2>1
  <2>3. QED
    BY <1>2, <2>1, <2>2, ListStep
<1>3. CASE UNCHANGED ledger
  BY <1>3 DEF ledger, LedgerTypes
<1>4. KafkaStep => Connect \/ Disconnect \/ TakeMessage \/ UNCHANGED ledger
  BY KafkaFrame
<1>5. \A w \in Watcher: Notify(w) \/ WatchStep(w) => UNCHANGED ledger
  BY WatchFrame
<1>6. UNCHANGED vars => UNCHANGED ledger
  BY DEF vars, env, state, hist, ledger
<1>7. QED
  BY <1>1, <1>2, <1>3, <1>4, <1>5, <1>6 DEF Next

LEMMA NodeTypesStep ==
    ASSUME LedgerTypes, NodeTypes, [Next]_vars
    PROVE  NodeTypes'
<1>1. CASE KafkaStep
  BY <1>1, ListenerTypes
<1>2. ASSUME NEW w \in Watcher, NEW n \in Node, Stop(w, n)
      PROVE  NodeTypes'
  BY <1>2, StartsAssumption DEF Stop, NodeTypes
<1>3. ASSUME NEW w \in Watcher, NEW n \in Node, Start(w, n)
      PROVE  NodeTypes'
  <2>1. /\ starts[n] < MaxStarts /\ kafka' = kafka
        /\ starts' = [starts EXCEPT ![n] = @ + 1]
        /\ availableNodes' = [availableNodes EXCEPT ![n] = starts'[n]]
    BY <1>3 DEF Start
  <2>2. starts'[n] \in 0 .. MaxStarts /\ starts' \in [Node -> 0 .. MaxStarts]
    BY <2>1, StartsAssumption DEF NodeTypes
  <2>3. QED
    BY <2>1, <2>2 DEF NodeTypes
<1>4. CASE UNCHANGED <<availableNodes, starts, kafka>>
  BY <1>4 DEF NodeTypes
<1>5. Environment => UNCHANGED <<availableNodes, starts, kafka>>
  BY DEF Environment, Open, Close, Say, Produce, Flip, state
<1>6. ASSUME NEW w \in Watcher, Notify(w) \/ WatchStep(w)
      PROVE  \/ \E n \in Node: Stop(w, n) \/ Start(w, n)
             \/ UNCHANGED <<availableNodes, starts, kafka>>
  BY <1>6 DEF Notify, WatchStep, FindOffline, FindOnline, StopRemove, StartAdd, StartPrint,
            NotifyDone, state
<1>7. UNCHANGED vars => UNCHANGED <<availableNodes, starts, kafka>>
  BY DEF vars, state
<1>8. QED
  BY <1>1, <1>2, <1>3, <1>4, <1>5, <1>6, <1>7 DEF Next

(* Every change of a load is one up or one down of an object at hand. *)
LEMMA LoadChange ==
    ASSUME LedgerTypes, NodeTypes, Connect \/ Disconnect
    PROVE  \/ load' = load
           \/ \E x \in Object: \/ load' = [load EXCEPT ![x] = @ + 1]
                               \/ load' = [load EXCEPT ![x] = @ - 1]
<1> DEFINE x == <<Head(topic).node, availableNodes[Head(topic).node]>>
<1>1. Head(topic).node \in Node
  BY HeadType DEF Connect, Disconnect, Arrives
<1>2. availableNodes[Head(topic).node] # 0 => x \in Object
  BY <1>1, ObjectOf DEF NodeTypes
<1>3. \/ load' = load
      \/ /\ availableNodes[Head(topic).node] # 0
         /\ \/ load' = [load EXCEPT ![x] = @ + 1]
            \/ load' = [load EXCEPT ![x] = @ - 1]
  BY DEF Connect, Disconnect
<1>4. QED
  BY <1>2, <1>3

LEMMA OtherTypesStep ==
    ASSUME LedgerTypes, NodeTypes, OtherTypes, FlagTypes, [Next]_vars
    PROVE  OtherTypes' /\ FlagTypes'
<1>1. registry' \subseteq Node /\ notified' \subseteq Node
  <2>1. \/ registry' = registry /\ (notified' = notified \/ notified' = registry)
        \/ \E n \in Node: /\ registry' = (registry \ {n}) \cup ({n} \ registry)
                          /\ notified' = notified
    BY DEF Next, Environment, Open, Close, Say, Produce, Flip, KafkaStep, Connect,
           ConnectRemove, ConnectAdd, Disconnect, DisconnectAdd, TakeMessage, LookupDone,
           SendDone, Save, Lookup, SendToNode, SendThrows, Notify, WatchStep, FindOffline,
           FindOnline, Stop, StopRemove, Start, StartAdd, StartPrint, NotifyDone, env, vars
  <2>2. QED
    BY <2>1 DEF OtherTypes
<1>2. produced' \in 0 .. MaxRecords
  <2>1. produced' = produced \/ (produced < MaxRecords /\ produced' = produced + 1)
    BY DEF Next, Environment, Open, Close, Say, Produce, Flip, KafkaStep, Connect,
           ConnectRemove, ConnectAdd, Disconnect, DisconnectAdd, TakeMessage, LookupDone,
           SendDone, Save, Lookup, SendToNode, SendThrows, Notify, WatchStep, FindOffline,
           FindOnline, Stop, StopRemove, Start, StartAdd, StartPrint, NotifyDone, env, vars
  <2>2. QED
    BY <2>1, RecordsAssumption DEF OtherTypes
<1>3. load' \in [Object -> Int]
  <2>1. Connect \/ Disconnect \/ load' = load
    BY DEF Next, Environment, Open, Close, Say, Produce, Flip, KafkaStep,
           ConnectRemove, ConnectAdd, DisconnectAdd, TakeMessage, LookupDone,
           SendDone, Save, Lookup, SendToNode, SendThrows, Notify, WatchStep, FindOffline,
           FindOnline, Stop, StopRemove, Start, StartAdd, StartPrint, NotifyDone, state, vars
  <2>2. QED
    BY <2>1, LoadChange DEF OtherTypes
<1>4. abandoned' \in BOOLEAN /\ requeued' \in BOOLEAN
  <2>1. (abandoned' = abandoned \/ abandoned' = TRUE) /\ (requeued' = requeued \/ requeued' = TRUE)
    BY DEF Next, Environment, Open, Close, Say, Produce, Flip, KafkaStep, Connect,
           ConnectRemove, ConnectAdd, Disconnect, DisconnectAdd, TakeMessage, LookupDone,
           SendDone, Save, Lookup, SendToNode, SendThrows, Notify, WatchStep, FindOffline,
           FindOnline, Stop, StopRemove, Start, StartAdd, StartPrint, NotifyDone, hist, vars
  <2>2. QED
    BY <2>1, Zenon DEF FlagTypes
<1>5. raced' \in BOOLEAN
  <2>1. \/ raced' = raced
        \/ raced' = (raced \/ KafkaOverlap)
        \/ \E w \in Watcher: raced' = (raced \/ WatcherOverlap(w))
    BY DEF Next, Environment, Open, Close, Say, Produce, Flip, KafkaStep, Connect,
           ConnectRemove, ConnectAdd, Disconnect, DisconnectAdd, TakeMessage, LookupDone,
           SendDone, Save, Lookup, SendToNode, SendThrows, Notify, WatchStep, FindOffline,
           FindOnline, Stop, StopRemove, Start, StartAdd, StartPrint, NotifyDone, hist, vars
  <2>2. QED
    BY <2>1, Zenon DEF FlagTypes
<1>6. QED
  BY <1>1, <1>2, <1>3, <1>4, <1>5 DEF OtherTypes, FlagTypes

LEMMA QueueTypeStep ==
    ASSUME TypeInv, [Next]_vars
    PROVE  queue' \in Seq(Object)
<1>0. queue \in Seq(Object) /\ kafka \in Listener /\ watch \in [Watcher -> Notice]
  BY DEF TypeInv, TypeOK
<1>1. CASE ConnectRemove
  <2>1. kafka.obj \in Object
    BY <1>1 DEF TypeInv, Locals, KafkaInQueue, ConnectRemove
  <2>2. PICK n \in Node: n = kafka.obj[1]
    BY <2>1 DEF Object
  <2>3. queue' = queue \/ queue' = Removed(queue, n, load)
    BY <1>1, <2>2 DEF ConnectRemove, QueueOp, QueueThrows
  <2>4. QED
    BY <1>0, <2>3, RemovedIs
<1>2. CASE ConnectAdd \/ DisconnectAdd
  <2>1. kafka.obj \in Object
    BY <1>2 DEF TypeInv, Locals, KafkaInQueue, ConnectAdd, DisconnectAdd
  <2>2. queue' = queue \/ queue' = Added(queue, kafka.obj, load)
    BY <1>2 DEF ConnectAdd, DisconnectAdd, QueueOp, QueueThrows
  <2>3. QED
    BY <1>0, <2>1, <2>2, AddedIs
<1>3. ASSUME NEW w \in Watcher, StopRemove(w) PROVE queue' \in Seq(Object)
  BY <1>0, <1>3, RemovedIs DEF StopRemove, QueueOp, QueueThrows
<1>4. ASSUME NEW w \in Watcher, StartAdd(w) PROVE queue' \in Seq(Object)
  <2>1. PICK x \in Object: x = <<watch[w].node, watch[w].made>>
    <3>1. watch[w].node # None /\ watch[w].made >= 1
      BY <1>4 DEF TypeInv, Locals, WatcherInQueue, StartAdd
    <3>2. watch[w].node \in Node \cup {None} /\ watch[w].made \in 0 .. MaxStarts
      BY <1>0 DEF Notice
    <3>3. watch[w].node \in Node /\ watch[w].made \in 1 .. MaxStarts
      BY <3>1, <3>2, StartsAssumption
    <3>4. QED
      BY <3>3 DEF Object
  <2>2. queue' = queue \/ queue' = Added(queue, x, load)
    BY <1>4, <2>1 DEF StartAdd, QueueOp, QueueThrows
  <2>3. Added(queue, x, load) \in Seq(Object)
    BY <1>0, AddedIs
  <2>4. QED
    BY <1>0, <2>2, <2>3
<1>5. \/ ConnectRemove \/ ConnectAdd \/ DisconnectAdd
      \/ \E w \in Watcher: StopRemove(w) \/ StartAdd(w)
      \/ queue' = queue
  BY DEF Next, Environment, Open, Close, Say, Produce, Flip, KafkaStep, Connect, Disconnect,
         TakeMessage, LookupDone, SendDone, Save, Lookup, SendToNode, SendThrows, Notify, WatchStep,
         FindOffline, FindOnline, Stop, Start, StartPrint, NotifyDone, state, vars
<1>6. QED
  BY <1>0, <1>1, <1>2, <1>3, <1>4, <1>5

(* What a watcher goes to *)
LEMMA NoticeStep ==
    ASSUME TypeInv, NEW w \in Watcher, Notify(w) \/ WatchStep(w)
    PROVE  \E v \in Notice:
              /\ WatchGoto(w, v)
              /\ v.at \in {"unqueue", "enqueue", "print"} => v.node # None
              /\ v.at = "enqueue" => v.made >= 1
<1>0. /\ watch[w] \in Notice /\ registry \subseteq Node
      /\ starts \in [Node -> 0 .. MaxStarts]
  BY DEF TypeInv, TypeOK
<1>1. IdleWatcher \in Notice /\ IdleWatcher.at = "idle"
  BY StartsAssumption DEF IdleWatcher, Notice, WatchAt
<1>2. CASE Notify(w)
  <2> DEFINE v == [IdleWatcher EXCEPT !.at = "offline", !.list = registry]
  <2>1. v \in Notice /\ v.at = "offline"
    BY <1>0, <1>1 DEF Notice, WatchAt
  <2>2. QED
    BY <1>2, <2>1 DEF Notify
<1>3. CASE FindOffline(w)
  <2> DEFINE S == {n \in Node: availableNodes[n] # 0} \ watch[w].list
             v == [watch[w] EXCEPT !.at = "online", !.off = S]
  <2>1. S \in SUBSET Node
    OBVIOUS
  <2> HIDE DEF S
  <2>2. v \in Notice /\ v.at = "online"
    BY <1>0, <2>1 DEF Notice, WatchAt
  <2>3. QED
    BY <1>3, <2>2 DEF FindOffline, S
<1>4. CASE FindOnline(w)
  <2> DEFINE S == {n \in watch[w].list: availableNodes[n] = 0}
             v == [watch[w] EXCEPT !.at = "stop", !.on = S]
  <2>1. S \in SUBSET Node
    BY <1>0 DEF Notice
  <2> HIDE DEF S
  <2>2. v \in Notice /\ v.at = "stop"
    BY <1>0, <2>1 DEF Notice, WatchAt
  <2>3. QED
    BY <1>4, <2>2 DEF FindOnline, S
<1>5. ASSUME NEW n \in Node, Stop(w, n)
      PROVE  \E v \in Notice: /\ WatchGoto(w, v)
                              /\ v.at \in {"unqueue", "enqueue", "print"} => v.node # None
                              /\ v.at = "enqueue" => v.made >= 1
  <2> DEFINE v == [watch[w] EXCEPT !.at = "unqueue", !.node = n, !.off = @ \ {n}]
  <2>1. v \in Notice /\ v.at = "unqueue" /\ v.node # None
    BY <1>0, NoneIsNew DEF Notice, WatchAt
  <2>2. QED
    BY <1>5, <2>1 DEF Stop
<1>6. ASSUME NEW n \in Node, Start(w, n)
      PROVE  \E v \in Notice: /\ WatchGoto(w, v)
                              /\ v.at \in {"unqueue", "enqueue", "print"} => v.node # None
                              /\ v.at = "enqueue" => v.made >= 1
  <2>0. PICK k \in 0 .. MaxStarts: k = starts'[n] /\ k >= 1
    BY <1>0, <1>6, StartsAssumption DEF Start
  <2> DEFINE v == [watch[w] EXCEPT !.at = "enqueue", !.node = n, !.made = k, !.on = @ \ {n}]
  <2>1. v \in Notice /\ v.node # None
    BY <1>0, NoneIsNew DEF Notice, WatchAt
  <2>2. v.made = k
    BY <1>0 DEF Notice
  <2>3. QED
    BY <1>6, <2>0, <2>1, <2>2 DEF Start
<1>7. CASE StopRemove(w) \/ StartPrint(w)
  <2> DEFINE v == [watch[w] EXCEPT !.at = "stop", !.node = None]
  <2>1. v \in Notice /\ v.at = "stop"
    BY <1>0 DEF Notice, WatchAt
  <2>2. WatchGoto(w, v) \/ WatchGoto(w, IdleWatcher)
    BY <1>7 DEF StopRemove, StartPrint
  <2>3. QED
    BY <1>1, <2>1, <2>2
<1>8. CASE StartAdd(w)
  <2> DEFINE v == [watch[w] EXCEPT !.at = "print"]
  <2>1. watch[w].node # None
    BY <1>8 DEF StartAdd, TypeInv, Locals, WatcherInQueue
  <2>2. v \in Notice /\ v.at = "print" /\ v.node # None
    BY <1>0, <2>1 DEF Notice, WatchAt
  <2>3. WatchGoto(w, v) \/ WatchGoto(w, IdleWatcher)
    BY <1>8 DEF StartAdd
  <2>4. QED
    BY <1>1, <2>2, <2>3
<1>9. CASE NotifyDone(w)
  BY <1>1, <1>9 DEF NotifyDone
<1>10. QED
  BY <1>2, <1>3, <1>4, <1>5, <1>6, <1>7, <1>8, <1>9 DEF WatchStep

LEMMA WatchTypeStep ==
    ASSUME TypeInv, [Next]_vars
    PROVE  /\ watch' \in [Watcher -> Notice]
           /\ \A w \in Watcher: WatcherInQueue(w)' =>
                 /\ watch'[w].node # None
                 /\ watch'[w].at = "enqueue" => watch'[w].made >= 1
<1>0. watch \in [Watcher -> Notice]
  BY DEF TypeInv, TypeOK
<1>1. ASSUME NEW w \in Watcher, Notify(w) \/ WatchStep(w)
      PROVE  /\ watch' \in [Watcher -> Notice]
             /\ \A u \in Watcher: WatcherInQueue(u)' =>
                   /\ watch'[u].node # None
                   /\ watch'[u].at = "enqueue" => watch'[u].made >= 1
  <2>1. PICK v \in Notice: /\ WatchGoto(w, v)
                           /\ v.at \in {"unqueue", "enqueue", "print"} => v.node # None
                           /\ v.at = "enqueue" => v.made >= 1
    BY <1>1, NoticeStep
  <2>2. /\ watch' \in [Watcher -> Notice] /\ watch'[w] = v
        /\ \A u \in Watcher: u # w => watch'[u] = watch[u]
    BY <1>0, <2>1 DEF WatchGoto
  <2>3. QED
    BY <2>1, <2>2 DEF TypeInv, Locals, WatcherInQueue
<1>2. CASE watch' = watch
  BY <1>0, <1>2 DEF TypeInv, Locals, WatcherInQueue
<1>3. (\E w \in Watcher: Notify(w) \/ WatchStep(w)) \/ watch' = watch
  BY DEF Next, Environment, Open, Close, Say, Produce, Flip, KafkaStep, Connect,
         ConnectRemove, ConnectAdd, Disconnect, DisconnectAdd, TakeMessage, LookupDone,
         SendDone, Save, Lookup, SendToNode, SendThrows, vars
<1>4. QED
  BY <1>1, <1>2, <1>3

(* The listener has an object at hand whenever it goes to the queue. *)
LEMMA ObjectAtHand ==
    ASSUME TypeInv, [Next]_vars
    PROVE  KafkaInQueue' => kafka'.obj \in Object
<1>0. kafka \in Listener
  BY DEF TypeInv, TypeOK
<1>1. CASE Connect \/ Disconnect
  <2>1. \/ kafka' = kafka /\ kafka.at = "idle"
        \/ kafka'.obj \in Object
    <3> DEFINE x == <<Head(topic).node, availableNodes[Head(topic).node]>>
    <3>1. Head(topic).node \in Node
      BY <1>1, HeadType, TypeParts DEF Connect, Disconnect, Arrives, TypeInv
    <3>2. availableNodes[Head(topic).node] # 0 => x \in Object
      BY <3>1, ObjectOf DEF TypeInv, TypeOK
    <3> HIDE DEF x
    <3>3. \/ kafka' = kafka /\ kafka.at = "idle"
          \/ /\ availableNodes[Head(topic).node] # 0
             /\ \/ kafka' = [kafka EXCEPT !.at = "remove", !.obj = x]
                \/ kafka' = [kafka EXCEPT !.at = "readd", !.obj = x]
      BY <1>1 DEF Connect, Disconnect, Arrives, x
    <3>4. QED
      BY <1>0, <3>2, <3>3 DEF Listener
  <2>2. QED
    BY <2>1 DEF KafkaInQueue
<1>2. CASE ConnectRemove
  BY <1>0, <1>2 DEF ConnectRemove, KafkaDone, IdleListener, TypeInv, Locals, KafkaInQueue, Listener
<1>3. CASE ConnectAdd \/ DisconnectAdd \/ Save
  BY <1>3 DEF ConnectAdd, DisconnectAdd, Save, KafkaDone, IdleListener, KafkaInQueue
<1>4. CASE TakeMessage \/ LookupDone \/ SendDone
  <2>1. kafka'.at \in {"lookup", "send", "save"}
    BY <1>0, <1>4 DEF TakeMessage, LookupDone, SendDone, Listener
  <2>2. QED
    BY <2>1 DEF KafkaInQueue
<1>5. ASSUME NEW n \in Node, Lookup(n) PROVE ~KafkaInQueue'
  <2>1. kafka.at = "lookup" /\ kafka'.at = kafka.at
    BY <1>0, <1>5 DEF Lookup, Listener
  <2>2. QED
    BY <2>1 DEF KafkaInQueue
<1>6. ASSUME NEW x \in Object \cup {None}, SendToNode(x) \/ SendThrows(x) PROVE ~KafkaInQueue'
  <2>1. kafka' = IdleListener \/ kafka'.at = "send"
    BY <1>0, <1>6 DEF SendToNode, SendThrows, KafkaDone, Listener
  <2>2. QED
    BY <2>1 DEF KafkaInQueue, IdleListener
<1>7. CASE kafka' = kafka
  BY <1>7 DEF TypeInv, Locals, KafkaInQueue
<1>8. KafkaStep \/ kafka' = kafka
  BY DEF Next, Environment, Open, Close, Say, Produce, Flip, Notify, WatchStep, FindOffline,
         FindOnline, Stop, StopRemove, Start, StartAdd, StartPrint, NotifyDone, vars
<1>9. QED
  BY <1>1, <1>2, <1>3, <1>4, <1>5, <1>6, <1>7, <1>8 DEF KafkaStep

LEMMA TypeInvStep ==
    ASSUME TypeInv, [Next]_vars
    PROVE  TypeInv'
<1>1. LedgerTypes /\ NodeTypes /\ OtherTypes /\ FlagTypes
  BY TypeParts DEF TypeInv
<1>2. TypeOK'
  BY <1>1, LedgerTypesStep, NodeTypesStep, OtherTypesStep, QueueTypeStep, WatchTypeStep,
     TypePartsAfter
<1>3. Locals'
  BY WatchTypeStep, ObjectAtHand DEF Locals
<1>4. QED
  BY <1>2, <1>3 DEF TypeInv

LEMMA TypeInvStart == Init => TypeInv
<1> SUFFICES ASSUME Init PROVE TypeInv
  OBVIOUS
<1>1. LedgerTypes
  BY LedgerStart DEF LedgerInv
<1>2. IdleListener \in Listener /\ IdleWatcher \in Notice
  BY StartsAssumption DEF IdleListener, IdleWatcher, Listener, Notice, KafkaAt, WatchAt
<1>3. NodeTypes /\ OtherTypes /\ watch \in [Watcher -> Notice]
  BY <1>2, StartsAssumption, RecordsAssumption DEF Init, NodeTypes, OtherTypes
<1>4. FlagTypes /\ queue \in Seq(Object)
  <2>1. FlagTypes
    BY Zenon DEF Init, FlagTypes
  <2>2. queue \in Seq(Object)
    BY DEF Init
  <2>3. QED
    BY <2>1, <2>2
<1>5. Locals
  BY DEF Init, Locals, KafkaInQueue, WatcherInQueue, IdleListener, IdleWatcher
<1>6. QED
  BY <1>1, <1>3, <1>4, <1>5, TypeParts DEF TypeInv

-----------------------------------------------------------------------------
(* Every variable keeps its type; above all, the array of the PriorityQueue    *)
(* holds objects of nodes and nothing else, whichever operations of threads    *)
(* that met there are lost or throw (ConnectNodeLoadServiceImpl,               *)
(* KafkaMessageListener, NodeWatchService).                                    *)
THEOREM TypeSafe == Spec => []TypeOK
<1>1. TypeInv /\ [Next]_vars => TypeInv'
  BY TypeInvStep
<1>2. TypeInv => TypeOK
  BY DEF TypeInv
<1>3. QED
  BY <1>1, <1>2, TypeInvStart, PTL DEF Spec

-----------------------------------------------------------------------------
(* What the queue holds and how it is ordered, notifications being handled one *)
(* at a time                                                                   *)

Avail == {x \in Object: availableNodes[x[1]] = x[2]}

(* No two threads have met on the way to the queue, and no disconnect has run. *)
Calm == ~raced /\ ~requeued

NoWatcherInQueue == \A w \in Watcher: ~WatcherInQueue(w)

(* The nodes still to start are not there yet. *)
OnFree == \A w \in Watcher:
             watch[w].at \in {"stop", "unqueue", "enqueue", "print"} =>
                \A n \in watch[w].on: availableNodes[n] = 0

(* The queue holds the available nodes but for the object a thread has at hand; *)
(* while stop is on its way the node's old object may still be there.          *)
Contents ==
    /\ ~KafkaInQueue /\ NoWatcherInQueue => EntriesOf(queue) = Avail
    /\ kafka.at = "remove" => kafka.obj \in Avail /\ EntriesOf(queue) = Avail
    /\ kafka.at = "add" => kafka.obj \in Avail /\ EntriesOf(queue) = Avail \ {kafka.obj}
    /\ kafka.at # "readd"
    /\ KafkaInQueue => NoWatcherInQueue
    /\ \A w \in Watcher: watch[w].at = "unqueue" =>
          {y \in EntriesOf(queue): y[1] # watch[w].node} = Avail
    /\ \A w \in Watcher: watch[w].at = "enqueue" =>
          /\ <<watch[w].node, watch[w].made>> \in Avail
          /\ EntriesOf(queue) = Avail \ {<<watch[w].node, watch[w].made>>}
    /\ \A w \in Watcher: watch[w].at = "print" => EntriesOf(queue) = Avail

(* Between the change of its load and its removal an object is out of place.   *)
Order ==
    /\ kafka.at # "remove" => InOrder(queue, load)
    /\ kafka.at = "remove" =>
          \E i \in 1 .. Len(queue): /\ queue[i] = kafka.obj
                                    /\ OrderedBut(queue, Len(queue), load, i)

Good == Single(queue) /\ Contents /\ Order

QueueInv == TypeInv /\ OnFree /\ (Calm => Good)

OneWatcher == \A v, w \in Watcher: v = w

(* A node has one object that is available. *)
LEMMA AvailOnce ==
    ASSUME NEW x \in Avail, NEW y \in Avail, x[1] = y[1]
    PROVE  x = y
<1>1. x \in Object /\ y \in Object /\ x[2] = y[2]
  BY DEF Avail
<1>2. x = <<x[1], x[2]>> /\ y = <<y[1], y[2]>>
  BY <1>1 DEF Object
<1>3. QED
  BY <1>1, <1>2

(* Raising a load leaves the queue in order but for the object's place. *)
LEMMA RaisedAt ==
    ASSUME NEW q \in Seq(Object), NEW ld \in [Object -> Int], NEW x \in Object,
           NEW v \in Int, NEW i \in 1 .. Len(q), q[i] = x, Single(q), InOrder(q, ld)
    PROVE  OrderedBut(q, Len(q), [ld EXCEPT ![x] = v], i)
<1> DEFINE n == Len(q)
<1>1. PICK hd: hd = [ld EXCEPT ![x] = v]
  OBVIOUS
<1>2. \A j \in 1 .. n: j # i => hd[q[j]] = ld[q[j]]
  <2> SUFFICES ASSUME NEW j \in 1 .. n, j # i PROVE hd[q[j]] = ld[q[j]]
    OBVIOUS
  <2>1. q[j] \in Object /\ q[j] # x
    BY DEF Single
  <2>2. QED
    BY <1>1, <2>1
<1>3. n \in Nat /\ q \in Array(n) /\ OrderedBut(q, n, ld, i)
  BY SeqIsArray, OrderedAnyway DEF InOrder
<1>4. ASSUME NEW j \in 2 .. n
      PROVE  /\ j # i /\ j \div 2 # i => hd[q[j \div 2]] =< hd[q[j]]
             /\ i >= 2 /\ j \div 2 = i => hd[q[i \div 2]] =< hd[q[j]]
  <2>1. j \in 1 .. n /\ j \div 2 \in 1 .. n
    BY <1>3, <1>4
  <2>2. /\ j # i /\ j \div 2 # i => ld[q[j \div 2]] =< ld[q[j]]
        /\ i >= 2 /\ j \div 2 = i => ld[q[i \div 2]] =< ld[q[j]]
    BY <1>3 DEF OrderedBut
  <2>3. i >= 2 /\ j \div 2 = i => j # i /\ i \div 2 # i /\ i \div 2 \in 1 .. n
    BY <1>3, <1>4
  <2>4. QED
    BY <1>2, <2>1, <2>2, <2>3
<1>5. QED
  BY <1>1, <1>4 DEF OrderedBut

-----------------------------------------------------------------------------
(* Steps of threads that are not on the way to the queue *)

LEMMA ApartStep ==
    ASSUME Good,
           UNCHANGED <<availableNodes, load, queue>>,
           kafka' = kafka \/ (~KafkaInQueue /\ ~KafkaInQueue'),
           \A w \in Watcher:
              watch'[w] = watch[w] \/ (~WatcherInQueue(w) /\ ~WatcherInQueue(w)')
    PROVE  Good'
<1>1. queue' = queue /\ load' = load /\ Avail' = Avail
  BY DEF Avail
<1>2. NoWatcherInQueue' <=> NoWatcherInQueue
  BY DEF NoWatcherInQueue, WatcherInQueue
<1>3. /\ KafkaInQueue' <=> KafkaInQueue
      /\ \A at \in {"remove", "add", "readd"}: kafka'.at = at <=> kafka.at = at
      /\ KafkaInQueue => kafka' = kafka
  BY DEF KafkaInQueue
<1>4. \A w \in Watcher: /\ watch'[w].at = "unqueue" => watch'[w] = watch[w]
                        /\ watch'[w].at = "enqueue" => watch'[w] = watch[w]
                        /\ watch'[w].at = "print" => watch'[w] = watch[w]
  BY DEF WatcherInQueue
<1>5. Contents'
  BY <1>1, <1>2, <1>3, <1>4 DEF Good, Contents, KafkaInQueue
<1>6. Order'
  BY <1>1, <1>3 DEF Good, Order, KafkaInQueue
<1>7. QED
  BY <1>1, <1>5, <1>6 DEF Good

LEMMA ApartKafka ==
    ASSUME Good, UNCHANGED <<availableNodes, load, queue, watch>>,
           ~KafkaInQueue, ~KafkaInQueue'
    PROVE  Good'
BY ApartStep

LEMMA ApartWatcher ==
    ASSUME Good, UNCHANGED <<availableNodes, load, queue, kafka>>,
           watch \in [Watcher -> Notice],
           NEW w \in Watcher, NEW v, WatchGoto(w, v),
           ~WatcherInQueue(w), v.at \notin {"unqueue", "enqueue", "print"}
    PROVE  Good'
<1>1. \A u \in Watcher: u # w => watch'[u] = watch[u]
  BY DEF WatchGoto
<1>2. watch'[w] = v
  BY DEF WatchGoto
<1>3. ~WatcherInQueue(w)'
  BY <1>2 DEF WatcherInQueue
<1>4. \A u \in Watcher:
         watch'[u] = watch[u] \/ (~WatcherInQueue(u) /\ ~WatcherInQueue(u)')
  BY <1>1, <1>3
<1>5. QED
  BY <1>4, ApartStep

-----------------------------------------------------------------------------
(* connect *)

LEMMA ConnectGood ==
    ASSUME QueueInv, Calm', Connect
    PROVE  Good'
<1>0. /\ Calm /\ Good /\ TypeOK /\ Calm
      /\ queue \in Seq(Object) /\ load \in [Object -> Int] /\ kafka \in Listener
  BY DEF QueueInv, TypeInv, TypeOK, Calm, Connect
<1>1. kafka.at = "idle" /\ ~KafkaInQueue /\ ~KafkaOverlap /\ NoWatcherInQueue
  BY <1>0 DEF Connect, Arrives, KafkaInQueue, Calm, KafkaOverlap, NoWatcherInQueue
<1>2. queue' = queue /\ watch' = watch /\ availableNodes' = availableNodes
  BY DEF Connect
<1>3. CASE availableNodes[Head(topic).node] = 0
  <2>1. load' = load /\ kafka' = kafka
    BY <1>3 DEF Connect
  <2>2. QED
    BY <1>0, <1>1, <1>2, <2>1, ApartKafka DEF KafkaInQueue
<1>4. CASE availableNodes[Head(topic).node] # 0
  <2>1. PICK x: x = <<Head(topic).node, availableNodes[Head(topic).node]>>
    OBVIOUS
  <2>2. Head(topic).node \in Node
    BY <1>0, HeadType, TypeParts DEF Connect, Arrives
  <2>3. x \in Object /\ x \in Avail
    BY <1>0, <1>4, <2>1, <2>2, ObjectOf DEF TypeOK, Avail
  <2>4. /\ load' = [load EXCEPT ![x] = @ + 1]
        /\ kafka' = [kafka EXCEPT !.at = "remove", !.obj = x]
    BY <1>4, <2>1 DEF Connect
  <2>5. kafka'.at = "remove" /\ kafka'.obj = x
    BY <1>0, <2>4 DEF Listener
  <2>6. Single(queue) /\ EntriesOf(queue) = Avail /\ InOrder(queue, load)
    BY <1>0, <1>1 DEF Good, Contents, Order
  <2>7. PICK i \in 1 .. Len(queue): queue[i] = x
    BY <2>3, <2>6 DEF EntriesOf
  <2>8. OrderedBut(queue, Len(queue), load', i)
    <3>1. PICK v \in Int: v = load[x] + 1
      BY <1>0, <2>3
    <3>2. load' = [load EXCEPT ![x] = v]
      BY <2>4, <3>1
    <3>3. QED
      BY <1>0, <2>3, <2>6, <2>7, <3>2, RaisedAt
  <2>9. Avail' = Avail
    BY <1>2 DEF Avail
  <2>10. NoWatcherInQueue'
    BY <1>1, <1>2 DEF NoWatcherInQueue, WatcherInQueue
  <2>11. Contents'
    BY <1>2, <2>3, <2>5, <2>6, <2>9, <2>10
       DEF Contents, KafkaInQueue, NoWatcherInQueue, WatcherInQueue
  <2>12. Order'
    BY <1>2, <2>5, <2>7, <2>8 DEF Order
  <2>13. QED
    BY <1>2, <2>6, <2>11, <2>12 DEF Good
<1>5. QED
  BY <1>3, <1>4

LEMMA ConnectRemoveGood ==
    ASSUME QueueInv, Calm', ConnectRemove
    PROVE  Good'
<1>0. /\ Good /\ queue \in Seq(Object) /\ load \in [Object -> Int] /\ kafka \in Listener
  BY DEF QueueInv, TypeInv, TypeOK, Calm, ConnectRemove, hist
<1>1. kafka.at = "remove" /\ KafkaInQueue /\ NoWatcherInQueue /\ ~raced
  BY <1>0 DEF ConnectRemove, KafkaInQueue, Good, Contents, Calm, hist
<1>2. load' = load /\ watch' = watch /\ availableNodes' = availableNodes
  BY DEF ConnectRemove
<1>3. PICK x \in Object: x = kafka.obj
  BY <1>1 DEF QueueInv, TypeInv, Locals
<1>4. x \in Avail /\ EntriesOf(queue) = Avail /\ Single(queue)
  BY <1>0, <1>1, <1>3 DEF Good, Contents
<1>5. PICK i \in 1 .. Len(queue): queue[i] = x /\ OrderedBut(queue, Len(queue), load, i)
  BY <1>0, <1>1, <1>3 DEF Good, Order
<1>6. PICK r: r = Removed(queue, x[1], load)
  OBVIOUS
<1>7. queue' = r /\ kafka' = [kafka EXCEPT !.at = "add"]
  BY <1>1, <1>3, <1>6 DEF ConnectRemove, QueueOp, QueueThrows
<1>8. kafka'.at = "add" /\ kafka'.obj = x
  BY <1>0, <1>3, <1>7 DEF Listener
<1>9. Single(r) /\ EntriesOf(r) = {y \in EntriesOf(queue): y[1] # x[1]} /\ InOrder(r, load)
  BY <1>0, <1>4, <1>5, <1>6, RemovedIs
<1>10. {y \in Avail: y[1] # x[1]} = Avail \ {x}
  BY <1>4, AvailOnce
<1>11. Avail' = Avail /\ NoWatcherInQueue'
  BY <1>1, <1>2 DEF Avail, NoWatcherInQueue, WatcherInQueue
<1>12. Contents'
  BY <1>2, <1>4, <1>7, <1>8, <1>9, <1>10, <1>11
     DEF Contents, KafkaInQueue, NoWatcherInQueue, WatcherInQueue
<1>13. Order'
  BY <1>2, <1>7, <1>8, <1>9 DEF Order
<1>14. QED
  BY <1>7, <1>9, <1>12, <1>13 DEF Good

LEMMA ConnectAddGood ==
    ASSUME QueueInv, Calm', ConnectAdd
    PROVE  Good'
<1>0. /\ Good /\ queue \in Seq(Object) /\ load \in [Object -> Int] /\ kafka \in Listener
  BY DEF QueueInv, TypeInv, TypeOK, Calm, ConnectAdd, hist
<1>1. kafka.at = "add" /\ KafkaInQueue /\ NoWatcherInQueue /\ ~raced
  BY <1>0 DEF ConnectAdd, KafkaInQueue, Good, Contents, Calm, hist
<1>2. load' = load /\ watch' = watch /\ availableNodes' = availableNodes
  BY DEF ConnectAdd
<1>3. PICK x \in Object: x = kafka.obj
  BY <1>1 DEF QueueInv, TypeInv, Locals
<1>4. x \in Avail /\ EntriesOf(queue) = Avail \ {x} /\ Single(queue) /\ InOrder(queue, load)
  BY <1>0, <1>1, <1>3 DEF Good, Contents, Order
<1>5. PICK r: r = Added(queue, x, load)
  OBVIOUS
<1>6. queue' = r /\ kafka' = IdleListener
  BY <1>1, <1>3, <1>5 DEF ConnectAdd, QueueOp, QueueThrows, KafkaDone
<1>7. kafka'.at = "idle"
  BY <1>6 DEF IdleListener
<1>8. \A y \in EntriesOf(queue): y[1] # x[1]
  BY <1>4, AvailOnce
<1>9. Single(r) /\ EntriesOf(r) = Avail /\ InOrder(r, load)
  <2>1. /\ EntriesOf(r) = EntriesOf(queue) \cup {x}
        /\ Single(r) /\ InOrder(r, load)
    BY <1>0, <1>4, <1>5, <1>8, AddedIs
  <2>2. QED
    BY <1>4, <2>1
<1>10. Avail' = Avail /\ NoWatcherInQueue'
  BY <1>1, <1>2 DEF Avail, NoWatcherInQueue, WatcherInQueue
<1>11. Contents'
  BY <1>6, <1>7, <1>9, <1>10 DEF Contents, KafkaInQueue, NoWatcherInQueue, WatcherInQueue
<1>12. Order'
  BY <1>2, <1>6, <1>7, <1>9 DEF Order
<1>13. QED
  BY <1>6, <1>9, <1>11, <1>12 DEF Good

-----------------------------------------------------------------------------
(* disconnect: without an object it changes nothing here, with one it queues   *)
(* the object a second time, which is no longer calm                           *)

LEMMA DisconnectGood ==
    ASSUME QueueInv, Calm', Disconnect \/ DisconnectAdd
    PROVE  Good'
<1>0. Good
  BY DEF QueueInv, Calm, Disconnect, DisconnectAdd, hist
<1>1. ~DisconnectAdd
  BY <1>0 DEF DisconnectAdd, Good, Contents
<1>2. kafka' = kafka /\ ~KafkaInQueue /\ UNCHANGED <<availableNodes, load, queue, watch>>
  BY <1>1 DEF Disconnect, Arrives, Calm, KafkaInQueue
<1>3. QED
  BY <1>0, <1>2, ApartKafka DEF KafkaInQueue

LEMMA MessageGood ==
    ASSUME QueueInv, Calm',
           \/ TakeMessage \/ LookupDone \/ SendDone \/ Save
           \/ \E n \in Node: Lookup(n)
           \/ \E x \in Object \cup {None}: SendToNode(x) \/ SendThrows(x)
    PROVE  Good'
<1>0. kafka \in Listener /\ UNCHANGED <<availableNodes, load, queue, watch, raced, requeued>>
  BY DEF QueueInv, TypeInv, TypeOK, TakeMessage, LookupDone, SendDone, Save, Lookup,
         SendToNode, SendThrows, state, hist
<1>1. Good /\ ~KafkaInQueue
  BY <1>0 DEF QueueInv, Calm, TakeMessage, LookupDone, SendDone, Save, Lookup, SendToNode,
              SendThrows, KafkaInQueue
<1>2. kafka'.at \in {"idle", "lookup", "send", "save"}
  <2>1. CASE TakeMessage \/ LookupDone \/ SendDone
    BY <1>0, <2>1 DEF TakeMessage, LookupDone, SendDone, Listener
  <2>2. ASSUME NEW n \in Node, Lookup(n) PROVE kafka'.at = "lookup"
    BY <1>0, <2>2 DEF Lookup, Listener
  <2>3. ASSUME NEW x \in Object \cup {None}, SendToNode(x) \/ SendThrows(x)
        PROVE  kafka'.at \in {"idle", "send"}
    <3>1. kafka' = IdleListener \/ kafka'.at = "send"
      BY <1>0, <2>3 DEF SendToNode, SendThrows, KafkaDone, Listener
    <3>2. QED
      BY <3>1 DEF IdleListener
  <2>4. CASE Save
    BY <2>4 DEF Save, KafkaDone, IdleListener
  <2>5. QED
    BY <2>1, <2>2, <2>3, <2>4
<1>3. QED
  BY <1>0, <1>1, <1>2, ApartKafka DEF KafkaInQueue

-----------------------------------------------------------------------------
(* stop and start *)

LEMMA StopGood ==
    ASSUME QueueInv, Calm', OneWatcher, NEW w \in Watcher, NEW n \in Node, Stop(w, n)
    PROVE  Good'
<1>0. Good /\ watch \in [Watcher -> Notice]
  BY DEF QueueInv, TypeInv, TypeOK, Calm, Stop
<1>1. /\ queue' = queue /\ load' = load /\ kafka' = kafka
      /\ availableNodes' = [availableNodes EXCEPT ![n] = 0]
      /\ availableNodes \in [Node -> 0 .. MaxStarts]
  BY DEF Stop, QueueInv, TypeInv, TypeOK
<1>2. ~KafkaInQueue /\ \A u \in Watcher: u = w
  BY DEF Stop, Calm, WatcherOverlap, OneWatcher
<1>3. NoWatcherInQueue
  BY <1>2 DEF Stop, NoWatcherInQueue, WatcherInQueue
<1>4. watch'[w].at = "unqueue" /\ watch'[w].node = n
  BY <1>0 DEF Stop, WatchGoto, Notice
<1>5. EntriesOf(queue) = Avail /\ Single(queue) /\ InOrder(queue, load)
  BY <1>0, <1>2, <1>3 DEF Good, Contents, Order, KafkaInQueue
<1>6. {y \in Avail: y[1] # n} = Avail'
  <2>1. \A x \in Object: x[1] \in Node /\ x[2] # 0
    BY StartsAssumption DEF Object
  <2>2. \A x \in Object: availableNodes'[x[1]] = IF x[1] = n THEN 0 ELSE availableNodes[x[1]]
    BY <1>1, <2>1
  <2>3. QED
    BY <2>1, <2>2 DEF Avail
<1>7. ~KafkaInQueue' /\ kafka'.at \notin {"remove", "add", "readd"} /\ ~NoWatcherInQueue'
  BY <1>1, <1>2, <1>4 DEF KafkaInQueue, NoWatcherInQueue, WatcherInQueue
<1>8. Contents'
  BY <1>1, <1>2, <1>4, <1>5, <1>6, <1>7 DEF Contents
<1>9. Order'
  BY <1>1, <1>5, <1>7 DEF Order
<1>10. QED
  BY <1>1, <1>5, <1>8, <1>9 DEF Good

LEMMA StopRemoveGood ==
    ASSUME QueueInv, Calm', OneWatcher, NEW w \in Watcher, StopRemove(w)
    PROVE  Good'
<1>0. /\ Good /\ watch \in [Watcher -> Notice]
      /\ queue \in Seq(Object) /\ load \in [Object -> Int]
  BY DEF QueueInv, TypeInv, TypeOK, Calm, StopRemove, hist
<1>1. watch[w].at = "unqueue" /\ \A u \in Watcher: u = w
  BY DEF StopRemove, OneWatcher
<1>2. ~KafkaInQueue /\ ~raced
  BY <1>0, <1>1 DEF StopRemove, Good, Contents, NoWatcherInQueue, WatcherInQueue, Calm, hist
<1>3. load' = load /\ kafka' = kafka /\ availableNodes' = availableNodes
  BY DEF StopRemove
<1>4. PICK n: n = watch[w].node
  OBVIOUS
<1>5. PICK r: r = Removed(queue, n, load)
  OBVIOUS
<1>6. queue' = r /\ WatchGoto(w, [watch[w] EXCEPT !.at = "stop", !.node = None])
  BY <1>2, <1>4, <1>5 DEF StopRemove, QueueOp, QueueThrows
<1>7. watch'[w].at = "stop"
  BY <1>0, <1>6 DEF WatchGoto, Notice
<1>8. /\ {y \in EntriesOf(queue): y[1] # n} = Avail
      /\ Single(queue) /\ InOrder(queue, load)
  BY <1>0, <1>1, <1>2, <1>4 DEF Good, Contents, Order, KafkaInQueue
<1>9. Single(r) /\ EntriesOf(r) = Avail /\ InOrder(r, load)
  <2>1. /\ Single(r) /\ EntriesOf(r) = {y \in EntriesOf(queue): y[1] # n}
        /\ InOrder(r, load)
    BY <1>0, <1>5, <1>8, RemovedIs
  <2>2. QED
    BY <1>8, <2>1
<1>10. ~KafkaInQueue' /\ kafka'.at \notin {"remove", "add", "readd"} /\ Avail' = Avail
  BY <1>2, <1>3 DEF KafkaInQueue, Avail
<1>11. Contents'
  BY <1>1, <1>6, <1>7, <1>9, <1>10 DEF Contents
<1>12. Order'
  BY <1>3, <1>6, <1>9, <1>10 DEF Order
<1>13. QED
  BY <1>6, <1>9, <1>11, <1>12 DEF Good

LEMMA StartGood ==
    ASSUME QueueInv, Calm', OneWatcher, NEW w \in Watcher, NEW n \in Node, Start(w, n)
    PROVE  Good'
<1>0. /\ Good /\ watch \in [Watcher -> Notice] /\ starts \in [Node -> 0 .. MaxStarts]
      /\ availableNodes \in [Node -> 0 .. MaxStarts]
  BY DEF QueueInv, TypeInv, TypeOK, Calm, Start
<1>1. PICK k: k = starts'[n]
  OBVIOUS
<1>2. k \in 1 .. MaxStarts
  BY <1>0, <1>1, StartsAssumption DEF Start
<1>3. /\ queue' = queue /\ load' = load /\ kafka' = kafka
      /\ availableNodes' = [availableNodes EXCEPT ![n] = k]
  BY <1>1 DEF Start
<1>4. ~KafkaInQueue /\ \A u \in Watcher: u = w
  BY DEF Start, Calm, WatcherOverlap, OneWatcher
<1>5. NoWatcherInQueue
  BY <1>4 DEF Start, NoWatcherInQueue, WatcherInQueue
<1>6. watch'[w].at = "enqueue" /\ watch'[w].node = n /\ watch'[w].made = k
  BY <1>0, <1>1 DEF Start, WatchGoto, Notice
<1>7. EntriesOf(queue) = Avail /\ Single(queue) /\ InOrder(queue, load)
  BY <1>0, <1>4, <1>5 DEF Good, Contents, Order, KafkaInQueue
<1>8. availableNodes[n] = 0
  BY DEF Start, QueueInv, OnFree
<1>9. PICK x: x = <<n, k>>
  OBVIOUS
<1>10. x \in Avail' /\ Avail = Avail' \ {x}
  <2>1. x \in Object /\ \A y \in Object: y[1] \in Node /\ y[2] # 0 /\ y = <<y[1], y[2]>>
    BY <1>2, <1>9, StartsAssumption DEF Object
  <2>2. \A y \in Object: availableNodes'[y[1]] = IF y[1] = n THEN k ELSE availableNodes[y[1]]
    BY <1>0, <1>3, <2>1
  <2>3. x \in Avail'
    BY <1>9, <2>1, <2>2 DEF Avail
  <2>4. ASSUME NEW y \in Object PROVE y \in Avail <=> (y \in Avail' /\ y # x)
    BY <1>8, <1>9, <2>1, <2>2 DEF Avail
  <2>5. QED
    BY <2>3, <2>4 DEF Avail
<1>11. ~KafkaInQueue' /\ kafka'.at \notin {"remove", "add", "readd"} /\ ~NoWatcherInQueue'
  BY <1>3, <1>4, <1>6 DEF KafkaInQueue, NoWatcherInQueue, WatcherInQueue
<1>12. Contents'
  BY <1>3, <1>4, <1>6, <1>7, <1>9, <1>10, <1>11 DEF Contents
<1>13. Order'
  BY <1>3, <1>7, <1>11 DEF Order
<1>14. QED
  BY <1>3, <1>7, <1>12, <1>13 DEF Good

LEMMA StartAddGood ==
    ASSUME QueueInv, Calm', OneWatcher, NEW w \in Watcher, StartAdd(w)
    PROVE  Good'
<1>0. /\ Good /\ watch \in [Watcher -> Notice]
      /\ queue \in Seq(Object) /\ load \in [Object -> Int]
  BY DEF QueueInv, TypeInv, TypeOK, Calm, StartAdd, hist
<1>1. watch[w].at = "enqueue" /\ \A u \in Watcher: u = w
  BY DEF StartAdd, OneWatcher
<1>2. ~KafkaInQueue /\ ~raced
  BY <1>0, <1>1 DEF StartAdd, Good, Contents, NoWatcherInQueue, WatcherInQueue, Calm, hist
<1>3. load' = load /\ kafka' = kafka /\ availableNodes' = availableNodes
  BY DEF StartAdd
<1>4. PICK x: x = <<watch[w].node, watch[w].made>>
  OBVIOUS
<1>5. /\ x \in Avail /\ EntriesOf(queue) = Avail \ {x}
      /\ Single(queue) /\ InOrder(queue, load)
  BY <1>0, <1>1, <1>2, <1>4 DEF Good, Contents, Order, KafkaInQueue
<1>6. PICK r: r = Added(queue, x, load)
  OBVIOUS
<1>7. queue' = r /\ WatchGoto(w, [watch[w] EXCEPT !.at = "print"])
  BY <1>2, <1>4, <1>6 DEF StartAdd, QueueOp, QueueThrows
<1>8. watch'[w].at = "print"
  BY <1>0, <1>7 DEF WatchGoto, Notice
<1>9. \A y \in EntriesOf(queue): y[1] # x[1]
  BY <1>5, AvailOnce
<1>10. Single(r) /\ EntriesOf(r) = Avail /\ InOrder(r, load)
  <2>1. x \in Object
    BY <1>5 DEF Avail
  <2>2. EntriesOf(r) = EntriesOf(queue) \cup {x} /\ Single(r) /\ InOrder(r, load)
    BY <1>0, <1>5, <1>6, <1>9, <2>1, AddedIs
  <2>3. QED
    BY <1>5, <2>2
<1>11. /\ ~KafkaInQueue' /\ kafka'.at \notin {"remove", "add", "readd"} /\ Avail' = Avail
       /\ ~NoWatcherInQueue'
  BY <1>2, <1>3, <1>8 DEF KafkaInQueue, Avail, NoWatcherInQueue, WatcherInQueue
<1>12. Contents'
  BY <1>1, <1>7, <1>8, <1>10, <1>11 DEF Contents
<1>13. Order'
  BY <1>3, <1>7, <1>10, <1>11 DEF Order
<1>14. QED
  BY <1>7, <1>10, <1>12, <1>13 DEF Good

LEMMA StartPrintGood ==
    ASSUME QueueInv, Calm', OneWatcher, NEW w \in Watcher, StartPrint(w)
    PROVE  Good'
<1>0. /\ Good /\ watch \in [Watcher -> Notice] /\ ~raced
      /\ UNCHANGED <<availableNodes, load, queue, kafka>>
  BY DEF QueueInv, TypeInv, TypeOK, Calm, StartPrint, state, hist
<1>1. watch[w].at = "print" /\ \A u \in Watcher: u = w
  BY DEF StartPrint, OneWatcher
<1>2. ~KafkaInQueue /\ EntriesOf(queue) = Avail
  BY <1>0, <1>1 DEF Good, Contents, NoWatcherInQueue, WatcherInQueue
<1>3. watch'[w].at = "stop"
  BY <1>0 DEF StartPrint, WatchGoto, Notice
<1>4. ~KafkaInQueue' /\ kafka'.at \notin {"remove", "add", "readd"} /\ Avail' = Avail
  BY <1>0, <1>2 DEF KafkaInQueue, Avail
<1>5. Contents'
  BY <1>0, <1>1, <1>2, <1>3, <1>4 DEF Contents
<1>6. Order'
  BY <1>0, <1>2 DEF Good, Order, KafkaInQueue
<1>7. QED
  BY <1>0, <1>5, <1>6 DEF Good

(* The rest of a notification, and the world outside *)
LEMMA NoticeGood ==
    ASSUME QueueInv, Calm', NEW w \in Watcher,
           Notify(w) \/ FindOffline(w) \/ FindOnline(w) \/ NotifyDone(w)
    PROVE  Good'
<1>0. /\ Good /\ watch \in [Watcher -> Notice] /\ registry \subseteq Node
      /\ UNCHANGED <<availableNodes, load, queue, kafka>>
  BY DEF QueueInv, TypeInv, TypeOK, Calm, Notify, FindOffline, FindOnline, NotifyDone, state,
         hist
<1>1. ~WatcherInQueue(w)
  BY DEF Notify, FindOffline, FindOnline, NotifyDone, WatcherInQueue
<1>2. IdleWatcher.at = "idle"
  BY DEF IdleWatcher
<1>3. CASE Notify(w)
  <2> DEFINE v == [IdleWatcher EXCEPT !.at = "offline", !.list = registry]
  <2>1. v.at = "offline" /\ WatchGoto(w, v)
    BY <1>3 DEF Notify, IdleWatcher
  <2> HIDE DEF v
  <2>2. QED
    BY <1>0, <1>1, <2>1, ApartWatcher
<1>4. CASE FindOffline(w)
  <2>1. PICK v: /\ WatchGoto(w, v)
                /\ v = [watch[w] EXCEPT !.at = "online",
                           !.off = {n \in Node: availableNodes[n] # 0} \ watch[w].list]
    BY <1>4 DEF FindOffline
  <2>2. v.at = "online"
    BY <1>0, <2>1 DEF Notice
  <2>3. QED
    BY <1>0, <1>1, <2>1, <2>2, ApartWatcher
<1>5. CASE FindOnline(w)
  <2>1. PICK v: /\ WatchGoto(w, v)
                /\ v = [watch[w] EXCEPT !.at = "stop",
                           !.on = {n \in watch[w].list: availableNodes[n] = 0}]
    BY <1>5 DEF FindOnline
  <2>2. v.at = "stop"
    BY <1>0, <2>1 DEF Notice
  <2>3. QED
    BY <1>0, <1>1, <2>1, <2>2, ApartWatcher
<1>6. CASE NotifyDone(w)
  BY <1>0, <1>1, <1>2, <1>6, ApartWatcher DEF NotifyDone
<1>7. QED
  BY <1>3, <1>4, <1>5, <1>6

LEMMA GoodStep ==
    ASSUME QueueInv, [Next]_vars, OneWatcher, Calm'
    PROVE  Good'
<1>1. CASE Environment \/ UNCHANGED vars
  <2>1. Good /\ UNCHANGED <<availableNodes, load, queue, kafka, watch>>
    BY <1>1 DEF QueueInv, Calm, Environment, Open, Close, Say, Produce, Flip, state, hist, vars
  <2>2. QED
    BY <2>1, ApartStep
<1>2. CASE KafkaStep
  BY <1>2, ConnectGood, ConnectRemoveGood, ConnectAddGood, DisconnectGood, MessageGood
     DEF KafkaStep
<1>3. ASSUME NEW w \in Watcher, Notify(w) \/ WatchStep(w) PROVE Good'
  BY <1>3, StopGood, StopRemoveGood, StartGood, StartAddGood, StartPrintGood, NoticeGood
     DEF WatchStep
<1>4. QED
  BY <1>1, <1>2, <1>3 DEF Next

-----------------------------------------------------------------------------
LEMMA OnFreeStep ==
    ASSUME QueueInv, [Next]_vars, OneWatcher
    PROVE  OnFree'
<1>0. /\ OnFree /\ watch \in [Watcher -> Notice]
      /\ availableNodes \in [Node -> 0 .. MaxStarts]
  BY DEF QueueInv, TypeInv, TypeOK
<1>1. CASE UNCHANGED <<availableNodes, watch>>
  BY <1>0, <1>1 DEF OnFree
<1>2. ASSUME NEW w \in Watcher, NEW v, WatchGoto(w, v), availableNodes' = availableNodes,
             v.at \in {"stop", "unqueue", "enqueue", "print"} =>
                \A n \in v.on: availableNodes[n] = 0
      PROVE  OnFree'
  <2>1. watch'[w] = v /\ \A u \in Watcher: u = w
    BY <1>0, <1>2 DEF WatchGoto, OneWatcher
  <2>2. QED
    BY <1>2, <2>1 DEF OnFree
<1>3. ASSUME NEW w \in Watcher, Notify(w) \/ WatchStep(w) PROVE OnFree'
  <2>1. IdleWatcher.at = "idle"
    BY DEF IdleWatcher
  <2>2. CASE Notify(w)
    <3>1. PICK v: WatchGoto(w, v) /\ v = [IdleWatcher EXCEPT !.at = "offline", !.list = registry]
      BY <2>2 DEF Notify
    <3>2. v.at = "offline" /\ availableNodes' = availableNodes
      BY <2>2, <3>1 DEF Notify, IdleWatcher, state
    <3>3. QED
      BY <1>2, <3>1, <3>2
  <2>3. CASE FindOffline(w)
    <3>1. PICK v: /\ WatchGoto(w, v)
                  /\ v = [watch[w] EXCEPT !.at = "online",
                             !.off = {n \in Node: availableNodes[n] # 0} \ watch[w].list]
      BY <2>3 DEF FindOffline
    <3>2. v.at = "online" /\ availableNodes' = availableNodes
      BY <1>0, <2>3, <3>1 DEF Notice, FindOffline, state
    <3>3. QED
      BY <1>2, <3>1, <3>2
  <2>4. CASE FindOnline(w)
    <3>1. PICK v: /\ WatchGoto(w, v)
                  /\ v = [watch[w] EXCEPT !.at = "stop",
                             !.on = {n \in watch[w].list: availableNodes[n] = 0}]
      BY <2>4 DEF FindOnline
    <3>2. \A n \in v.on: availableNodes[n] = 0
      BY <1>0, <3>1 DEF Notice
    <3>3. availableNodes' = availableNodes
      BY <2>4 DEF FindOnline, state
    <3>4. QED
      BY <1>2, <3>1, <3>2, <3>3
  <2>5. ASSUME NEW n \in Node, Stop(w, n) PROVE OnFree'
    <3>1. watch'[w].on = watch[w].on /\ watch[w].at = "stop" /\ \A u \in Watcher: u = w
      BY <1>0, <2>5 DEF Stop, WatchGoto, Notice, OneWatcher
    <3>2. \A m \in watch[w].on: availableNodes'[m] = 0
      BY <1>0, <2>5, <3>1 DEF Stop, OnFree, Notice
    <3>3. QED
      BY <3>1, <3>2 DEF OnFree
  <2>6. ASSUME NEW n \in Node, Start(w, n) PROVE OnFree'
    <3>1. watch'[w].on = watch[w].on \ {n} /\ watch[w].at = "stop" /\ \A u \in Watcher: u = w
      BY <1>0, <2>6 DEF Start, WatchGoto, Notice, OneWatcher
    <3>2. \A m \in watch[w].on \ {n}: availableNodes'[m] = 0
      BY <1>0, <2>6, <3>1 DEF Start, OnFree, Notice
    <3>3. QED
      BY <3>1, <3>2 DEF OnFree
  <2>7. CASE StopRemove(w) \/ StartAdd(w) \/ StartPrint(w)
    <3>1. PICK v: /\ WatchGoto(w, v) \/ WatchGoto(w, IdleWatcher)
                  /\ \/ v = [watch[w] EXCEPT !.at = "stop", !.node = None]
                     \/ v = [watch[w] EXCEPT !.at = "print"]
      BY <2>7 DEF StopRemove, StartAdd, StartPrint
    <3>2. WatchGoto(w, v) \/ WatchGoto(w, IdleWatcher)
      BY <3>1
    <3>3. v.on = watch[w].on /\ watch[w].at \in {"unqueue", "enqueue", "print"}
          /\ availableNodes' = availableNodes
      BY <1>0, <2>7, <3>1 DEF Notice, StopRemove, StartAdd, StartPrint, state
    <3>4. \A n \in v.on: availableNodes[n] = 0
      BY <1>0, <3>3 DEF OnFree
    <3>5. QED
      BY <1>2, <2>1, <3>2, <3>3, <3>4
  <2>8. CASE NotifyDone(w)
    <3>1. WatchGoto(w, IdleWatcher) /\ availableNodes' = availableNodes
      BY <2>8 DEF NotifyDone, state
    <3>2. QED
      BY <1>2, <2>1, <3>1
  <2>9. QED
    BY <1>3, <2>2, <2>3, <2>4, <2>5, <2>6, <2>7, <2>8 DEF WatchStep
<1>4. (\E w \in Watcher: Notify(w) \/ WatchStep(w)) \/ UNCHANGED <<availableNodes, watch>>
  BY DEF Next, Environment, Open, Close, Say, Produce, Flip, KafkaStep, Connect,
         ConnectRemove, ConnectAdd, Disconnect, DisconnectAdd, TakeMessage, LookupDone,
         SendDone, Save, Lookup, SendToNode, SendThrows, state, vars
<1>5. QED
  BY <1>1, <1>3, <1>4

LEMMA QueueInvStart == Init => QueueInv
<1> SUFFICES ASSUME Init PROVE QueueInv
  OBVIOUS
<1>1. queue = <<>> /\ kafka.at = "idle" /\ availableNodes = [n \in Node |-> 0]
  BY DEF Init, IdleListener
<1>2. \A w \in Watcher: watch[w].at = "idle"
  BY DEF Init, IdleWatcher
<1>3. OnFree
  BY <1>2 DEF OnFree
<1>4. EntriesOf(queue) = {} /\ Single(queue) /\ InOrder(queue, load)
  BY <1>1 DEF EntriesOf, Single, InOrder, Ordered
<1>5. Avail = {}
  BY <1>1, StartsAssumption DEF Avail, Object
<1>6. Good
  BY <1>1, <1>2, <1>4, <1>5
     DEF Good, Contents, Order, KafkaInQueue, NoWatcherInQueue, WatcherInQueue
<1>7. QED
  BY <1>3, <1>6, TypeInvStart DEF QueueInv

LEMMA QueueInvStep ==
    ASSUME QueueInv, [Next]_vars, OneWatcher
    PROVE  QueueInv'
BY GoodStep, OnFreeStep, TypeInvStep DEF QueueInv

-----------------------------------------------------------------------------
(* If one notification is handled at a time, no disconnect has run and no two  *)
(* threads have met on the way to the queue, then at rest the queue holds the  *)
(* object of each available node, once, and nothing else: connect, stop and    *)
(* start leave it so, whatever the order of the entries                        *)
(* (ConnectNodeLoadServiceImpl.connect, stop, start).                          *)
THEOREM QueueSafe ==
    ASSUME \A v, w \in Watcher: v = w
    PROVE  Spec => []QueueIsAvailable
<1>1. OneWatcher
  BY DEF OneWatcher
<1>2. QueueInv /\ [Next]_vars => QueueInv'
  BY <1>1, QueueInvStep
<1>3. QueueInv => QueueIsAvailable
  BY DEF QueueInv, Calm, Good, Contents, QueueIsAvailable, NoWatcherInQueue, EntriesOf, Single,
         Avail
<1>4. QED
  BY <1>2, <1>3, QueueInvStart, PTL DEF Spec

(* Under the same conditions the head of the queue, the node getBestNode gives *)
(* first, has the least load whenever no connect is half done                  *)
(* (ConnectNodeLoadServiceImpl.getBestNode, java.util.PriorityQueue).          *)
THEOREM LeastSafe ==
    ASSUME \A v, w \in Watcher: v = w
    PROVE  Spec => []LeastFirst
<1>1. OneWatcher
  BY DEF OneWatcher
<1>2. QueueInv /\ [Next]_vars => QueueInv'
  BY <1>1, QueueInvStep
<1>3. QueueInv => LeastFirst
  <2> SUFFICES ASSUME QueueInv, ~raced, ~requeued, ~KafkaInQueue, NEW i \in 1 .. Len(queue)
               PROVE  load[queue[1]] =< load[queue[i]]
    BY DEF LeastFirst
  <2>1. queue \in Seq(Object) /\ load \in [Object -> Int] /\ InOrder(queue, load)
    BY DEF QueueInv, TypeInv, TypeOK, Calm, Good, Order, KafkaInQueue
  <2>2. Len(queue) \in Nat /\ queue \in Array(Len(queue)) /\ Ordered(queue, Len(queue), load)
    BY <2>1, SeqIsArray DEF InOrder
  <2>3. QED
    BY <2>1, <2>2, LeastAtHead
<1>4. QED
  BY <1>2, <1>3, QueueInvStart, PTL DEF Spec
=============================================================================
