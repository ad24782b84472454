# Verification of im-single

im-single is an instant-messaging backend of two services. **im-connect** nodes
keep the WebSocket sessions of clients; **im-message** decides where messages go.
They talk over Kafka: every node publishes the events and messages of its sessions
to `TOPIC_IM_MESSAGE`, im-message keeps count of which nodes hold sessions of which
channel, and forwards each channel message to a topic per node, from which the node
broadcasts it to the channel's sessions. Consul tells im-message which nodes are up.
im-message also carries a UID generator (a copy of a ring-buffer design). The clients in
the repository are the k6 scripts of `src/load-test`, with a generated protobuf codec.

This directory holds TLA+ modules of that behaviour, the TLC configurations that
check them on small instances, and TLAPS proofs. Paths below are relative to
`src/im-connect/src/main/java/com/itrjp/im/connect` (C) and
`src/im-message/src/main/java/com/itrjp/im/message` (M).

## 1. Inventory

| Component | State | Operations | Interacts with | What is hard | What makes it correct |
|---|---|---|---|---|---|
| Sessions and channels (C/websocket: ChannelsHub, WebsocketChannel, ChannelClient, WebsocketHandler, MessageHandler) | `channels` (id -> channel), `channelMap` (session -> id), each channel's `clients` | create/destroy/get/getWebSocketClient, join/leave, the netty callbacks | event loops, Kafka listener thread, broker | several loops interleave at every map access; callbacks abandoned by an exception half way | a session's registration, its channel object and the records sent for it agree; broadcasts stay in and cover their channel |
| Events, messages, broadcast (C/service, C/listener) | none | onOpen, onMessage, onClose, handlerMessage, broadcast | Kafka both ways | sends that throw; iteration while clients join and leave | records of a session: ONLINE, messages, one OFFLINE |
| Authorization (AuthorizeHandler, DefaultAuthorization) | none | channelRead | pipeline | - | a refused request opens no session |
| Server, configuration, cache (C) | event loop groups; an unused map | start, stop | netty | - | - |
| Routing and load (M/service/stat) | `availableNodes`, `channelNodeMap`, the `PriorityQueue` | start, stop, connect, disconnect, getConnectNodeByChannelId, getBestNode | Kafka listener, HTTP threads | no locks around map + queue; nodes stop, restart, are unknown | channel lists count sessions; best node is available and least loaded |
| Consul notifications (NodeWatchService, NodeWatchController) | none (works on a live view) | handlerServiceNotify | routing | two notifications at once, exceptions half way | available nodes follow Consul |
| Message handling (M/service/message, M/listener) | none | handleMessage, sendToConnectNode, handleEvent | routing, Kafka | a node stops while its channel is looked up | every node with sessions gets the message; the message is stored |
| UID ring (M/uid/buffer, CachedUidGenerator) | `cursor`, `tail`, slots, flags, `running`, `lastSecond` | take, put, paddingBuffer, asyncPadding, start, shutdown | executor threads, callers | lock-free takers against one writer; wrap-around; lost padding calls | UIDs unique, in order, never misread; the ring is refilled |
| UID bits, clock, worker ids (BitsAllocator, DefaultUidGenerator, worker/*) | `sequence`, `lastSecond`, worker row | nextId, allocate, assignWorkerId | clock, database | clock steps back; field widths; restarts | UIDs unique across seconds, workers and restarts |
| Load-test scripts (src/load-test/script.js, script1.js, script2.js) | the node chosen in setup, one connection per virtual user | setup, an iteration, the socket callbacks | REST API once, connect nodes | connections that end without a word; a node chosen once for all iterations | packets are handed over in order and unchanged; users come back to a node that is up |
| Client codec (src/load-test/packet_pb.js, google-protobuf.js, packet.proto) | arrays of fields | accessors, toObject, reader, writer | the services' protobuf-java | a second copy of the schema; defaults, absent parts, unknown fields | reads and writes what the services do |
| Filters, storage, statistics, tokens, REST, pojos, trace ids | none | - | - | stubs, formatting | - |

`PROJECT.json` lists every component with its status, and every hazard with its line.

## 2. Modules

| Module | Role |
|---|---|
| `Presence` | what im-connect promises about each session's records |
| `ConnectHub` | one im-connect node: sessions, hub, channel objects, broadcast |
| `MCConnectHub` | its instances: one event loop, or one per session |
| `ConnectHub_proof` | theorems about `ConnectHub`, and that it implements `Presence` |
| `UidRing`, `MCUidRing` | RingBuffer, BufferPaddingExecutor and CachedUidGenerator |
| `UidRing_proof` | theorems about `UidRing` |
| `UidClock`, `MCUidClock` | BitsAllocator, DefaultUidGenerator, worker ids, and what CachedUidGenerator makes of them |
| `UidClock_proof` | theorems about `UidClock` |
| `NodeLoad`, `MCNodeLoad` | the routing state of im-message, its two kinds of writers, the path of a message |
| `NodeLoad_proof` | theorems about the lists of nodes in `NodeLoad` |
| `Induction` | induction over the natural numbers, as a lemma about sets of them |
| `Heap_proof` | lemmas: what the sifting of the `PriorityQueue` does to any array |
| `NodeQueue_proof` | theorems about the types and the queue of `NodeLoad` |
| `Delivery` | what a client hears of one connection |
| `PacketPb` | the JavaScript codec, as operators |
| `LoadTest`, `MCLoadTest` | the load-test scripts, their connections, and what the services encode |
| `LoadTest_proof` | theorems about the codec and `LoadTest`, and that it implements `Delivery` |

### ConnectHub

`pc[s]` says where the connection of session `s` is: between callbacks (`http`
before the upgrade, `idle`, `dead` lost but not yet noticed by its loop, `closed`)
or in one, at the next access of shared state. One callback runs at a time per event
loop (`LoopFree`); loops, and the Kafka listener thread, interleave at every access of
a shared map. A callback is a chain of actions:

* handshake: `Handshake` (with `channelMap.put`), `CreateChannel`
  (`computeIfAbsent`), `JoinChannel`, `OnOpen`;
* a frame: `ReadMessage`, `SendUp`; `ReadBroken` for a frame that fails to decode and
  for a ping or pong whose lookup throws;
* `ExceptionCaught`, which looks the session up again and closes it only if that
  does not throw;
* loss: `ClientGone`, then `ChannelInactive` (lookup), `SendOffline` (onClose),
  `Unmap`, `ReadSize`, `DropChannel` (destroy, three accesses), `Leave`.

Each action keeps the code's way out: a lookup that throws (`Throws`), a null client
(`~Found`), a missing uid, a send that throws (`BrokerFails`). A `WebsocketChannel` is
named by the session whose `create` made it, because two objects of one channel id can
exist; `home[s]` is the object held by the session's `ChannelClient`. The broadcast
keeps the object it fetched, what it has visited, and (as history) who was listening
when it began; its iterator is the weakly consistent one of `ConcurrentHashMap`. That the JDK's
iterator fetches its next entry ahead is left out: a client that has just left may be
visited once more, on a closed connection, which the properties about broadcasts allow.

Abstracted: payloads, pipeline assembly, authorization results (`Refuse` may happen to
any request), a session id is never reused. A client can send at most `MaxFrames`
messages.

### UidRing

Each read or write of `cursor`, `tail`, a slot or a flag is an action; `updateAndGet`
is one, since the tail it compares with only grows. `take[t]` holds the locals of a
taker (`currentCursor`, `nextCursor`, `uid`). `put` is synchronized and `running` lets
one padding at a time through, so `pad` stands for the one thread that pads, first the
initialising thread and then the executor's. `tasks` counts submitted calls of
`paddingBuffer`; one that finds another running is dropped, as in the code. `Shutdown`
drops the tasks and makes later submissions throw out of `take`. A UID is
`second * PerSecond + offset`: the two digits that `allocate` shifts together. `times`
counts returns of each UID, `drained` remembers that a take met an empty ring.

### UidClock

Several instances of im-message, each with `DefaultUidGenerator` or (`Cached`)
`CachedUidGenerator`; the application configures the latter. `Start` is
`afterPropertiesSet` with `assignWorkerId`: a new row of `WORKER_NODE`, whose generated
id is the worker id. `Crash` may come at any step. `nextId` is synchronized, so
`gen[p]` holds the locals of the one call under way: `ReadClock`, then `Refuse`,
`NewSecond` or `SameSecond`, and after a full second the wait of `getNextSecond`
(`NextSecond`, `GiveUp`). `Tick` and `SetBack` move the clock between any two of them.
`Allocate` keeps the width of the long: bits past the sign are lost, and a second past
`maxDeltaSeconds` shows up in the sign bit. `Borrow` hands out the UIDs of one second
as `nextIdsForOneSecond` makes them; which of them a caller gets is `UidRing`.
Seconds count from the epoch, and a clock before the epoch is left out.

The guard on `maxDeltaSeconds` is in `getCurrentSecond` only, so `Borrow` has none:
with the default 28 time bits and the epoch 2016-05-20, `CachedUidGenerator` makes
negative UIDs for seconds after 2024-11-20, although BitsAllocator.java:81 says that
the highest bit will always be 0. `UniqueUid` and `ParsesBack` hold there all the same, until the
sign bit is used up too (`MaxBorrowed` stops before it).

### NodeLoad

Two kinds of threads act: the Kafka listener (`kafka`: one record at a time, through
`connect`, `disconnect` or `handleMessage`) and the HTTP threads of Consul's
notifications (`watch[w]`: `findOffline`, `findOnline`, then `stop` and `start` node
by node). Each access of `availableNodes`, and each queue operation, is an action.
The queue is the array of `java.util.PriorityQueue`, with its sifting over the
*current* load of shared objects, since the code changes the key of a queued object.
The class is not thread-safe: an operation that overlaps another thread's way from map
to queue may take effect, be lost or throw (`QueueOp`, `QueueThrows`), a throw abandons
the rest of that handler; `raced` remembers that it happened, and from then on any queue
operation may be lost or throw, the array possibly being corrupt. The way of `start` through
the queue ends with `println(connectNodeLoads)` (ConnectNodeLoadServiceImpl.java:31), an
iteration that throws when `connect`, `disconnect` or another notification changes the queue
meanwhile, and then skips the nodes still to start (`StartPrint`). A channel's list is a
count per node (`List.add`, `List.remove` of one occurrence, `distinct`), so the order
in which nodes are sent to is left open.

The environment produces records for sessions that open, speak and close, on nodes
that Consul may not list yet or any more; `Traffic` restricts their kinds per run.

`EventLabel` is the `DataType` that ONLINE and OFFLINE records carry. The listener hands
only `EVENT` to `handleEvent` (`EVENT` in most runs); im-connect's `sendEvent` writes
`MESSAGE` (C/service/KafkaMessageSender.java:41), which is the run `mislabel`. With
`Lossy`, Kafka may lose any record, which was sent without waiting for the result.
`missed` remembers the kinds of events that were lost or failed on an unknown node: the
properties say what holds in spite of them. The send to a node's topic may throw as well as
the null of a stopped node (`SendThrows`); both leave `handleMessage` before the storage.

### LoadTest and PacketPb

A test run of a script (`phase`) asks im-message for nodes in `Setup` and keeps the answer
in `nodeInfo`; each of its virtual users goes from `idle` to `connecting` to `open` and back
(`Iterate`, `Open`, `Refused`), reads frames (`OnBinaryMessage`), and learns of the end of
its connection by the close (`OnClose`), or in the end by the ping of its interval timer
(`Interval`) when the network or a node gave the connection up without a word
(`link = "silent"`). The script itself only pings and logs there (script.js:50-54, 66-70): that
the kernel gives up on a connection whose pings nobody acknowledges, and that k6 then ends
the iteration, is assumed of them. The three scripts are the same program: they differ in the number of
virtual users and in the user id. The node writes what `handlerMessage` broadcasts (`Send`).

`PacketPb` has one operator per accessor, reader, writer and `toObject` of `packet_pb.js`.
An object is the array `jspb.Message` keeps its fields in, bytes are a sequence of fields
with their numbers; varints and UTF-8 are abstracted. The loop of a reader is a recursive
function: the object after `n` fields. What is not abstracted is that `readInt64` makes a
double of an int64 (`joinInt64`): `ReadInt64` rounds an integer beyond `Exact`, 2^53 in
JavaScript, to the nearest multiple of the distance doubles have there, ties to even, so that
the last int64 values become 2^63, which `writeInt64` refuses (`CanWriteInt64`; no script
writes). The services' side is in
`LoadTest` (`EncodePacket` and its kind): protobuf-java leaves out default values and
writes fields it does not know again, which a message of a newer client has.

## 3. Runs

| Run | Instance | What it shows |
|---|---|---|
| `loops` | 2 sessions, a loop each, 2 channels, failing sends | `LedgerMatchesHub`, `OwnChannelOnly`, `OfflineIsFinal` |
| `oneloop` | 2 sessions on one loop, 2 channels, fairness | `AllChannelsListed`, `BroadcastReaches`, `EventuallyOffline`, and `PresenceHolds` (refinement of `Presence`) |
| `orphan` | 2 sessions, a loop each, 1 channel | `AllChannelsListed` is violated |
| `single` | 1 taker, ring of 4, 2 UIDs a second, schedule, shutdown, fairness | `UniqueUid`, `IssuedInOrder`, `Replenished` |
| `shared` | 2 takers, same ring | `WindowFits`; until drained `UniqueUntilDrained`, `NeverMisreads`, `WaitingAreOrdered` |
| `twice` | 2 takers | `UniqueUid` is violated |
| `clock` | an instance of each generator, 4 starts, 3 worker ids, 2 seconds of 2 UIDs before the time bits end, clock set back once, fairness | `UniqueUid`, `ParsesBack`, `NextIdIncreases`, `CallEnds` |
| `routes` | 2 nodes, 4 records of all kinds, each of which may be lost | `LedgerExact`, `MessageReachesSessions`, `LeastFirst`, `QueueIsAvailable` |
| `registry` | 1 node started up to 3 times, 2 notification threads, 1 event, losses, fairness | `RegistryFollowed` |
| `nullroute` | 2 nodes, 3 records | `MessageStored` is violated |
| `mislabel` | 2 nodes, 3 records, events labelled as im-connect labels them | `MessageReachesSessions` is violated |
| `loadtest` | 1 test of 2 users, 2 nodes, 2 packets per connection, 2 losses, fairness | `CodecAgrees`, `DeliveryHolds` (refinement of `Delivery`), `Reconnects` |

The runs `loops`, `shared`, `clock`, `routes` and `loadtest` also check the type invariant.

Bounds. Two sessions already give every pairwise race of the hub (create against
destroy, drop against join), and what `OneLoopListed` says for three and more is
proved. A ring of 4 slots with 2 UIDs a second wraps around, leaves seconds unfinished
at a full ring, and keeps the padding below, at and above the threshold of 2;
`MaxSecond` bounds the seconds borrowed, `MaxQueued` the waiting padding calls (more
could only follow those already waiting and find them done or running). In `clock` the
fourth start fails for want of a worker id, the clock passes the last second that fits
and comes back from beyond it, and borrowed seconds fill the sign bit. Four records
let a node collect and lose load while another one starts and stops; any number of records
and starts, for the lists of nodes, is proved (section 5). In `loadtest` two packets are
enough for one on its way while another is read, and two losses for a node that stops
silently while the connection to the other is closed; `CodecAgrees` goes through every
packet over two contents, four times, seven types, absent parts and unknown fields; with
`Exact` = 4 the times are the default, one that is exact, a negative one halfway between two
doubles, and the last int64, which is rounded out of the range. In `registry` one node is
enough, since a notification treats each node by itself, and so do the two threads that are
at work on it; three starts let a node be started for an older list, stopped, and started
again for the last one. Deadlock checking is off: sessions are used once, records and seconds
are bounded, so every instance comes to rest.

Fairness. `ConnectHub`: a loop finishes the callback it began (weak fairness of
`Callback`), and takes pending tasks in turn, so `channelInactive`, although not
enabled while another callback of the loop runs, is taken in the end (strong
fairness). `UidRing`: the executor runs what it was given, takers go on and come back.
`UidClock`: the clock goes on, and the call that holds the lock of `nextId` goes on.
`NodeLoad`: Consul delivers a changed list in the end, and threads do not stop half
way. `LoadTest`: k6 runs the iterations and the socket events of each virtual user; nothing
is assumed of the network, nor of nodes coming back. No fairness is assumed of clients, of
Consul's checks, of `Shutdown`.

Symmetry is used for sets of model values in runs without liveness properties only.

## 4. What the violations show

* `orphan` - ChannelsHub.destroy reads the size (line 33) and removes the channel
  (line 35) in two steps. A session of another loop that registers in between keeps an
  object the hub no longer lists: no broadcast reaches it, its next frame fails.
* `twice` - RingBuffer.take (lines 166-181) detects an empty ring by comparing with a
  cursor read before. With two takers at an empty ring the last UID can be returned
  twice. Until a take has met an empty ring, uniqueness holds (`shared`).
* `nullroute` - a message for a channel with sessions on a stopped node throws at
  MessageService.java:66 and is neither sent to the other nodes nor stored.
* `mislabel` - sendEvent labels its records MESSAGE (C/service/KafkaMessageSender.java:41),
  the listener hands only EVENT to `handleEvent` (M/listener/KafkaMessageListener.java:33):
  no channel ever gets a node, and messages are stored without being sent to anybody.

Met on the way, without a run of their own: `disconnect` adds its node to the queue a second
time (ConnectNodeLoadServiceImpl.java:60), so that a later `stop` leaves one entry behind
and `getBestNode` may hand out a stopped node (hence `requeued` in the queue's properties);
two notifications handled at once may both find the same node missing, start it one after the
other and queue it twice, even where they never overlap between map and queue (so the queue's
properties are about one notification at a time, in the run `routes` and in the proofs);
if the last notification begins while another thread still handles an older list, that thread
may stop a node after the newer one has found it available, with nothing that orders the two
(NodeWatchService.java:21-32), and the node stays away until Consul's list changes again
(hence the condition of `RegistryFollowed` that the last one begins alone; two at once come
from two Consul agents, or from one that gave up waiting for an answer);
the server answers no ping with a pong; the token of a connection is checked by nobody; the
log line of the scripts says "every 1sec" where the interval is 30 s.

## 5. Proofs

`ConnectHub_proof` proves, for every set of sessions, channels and loops, every
assignment of sessions to loops, and sends that may or may not fail:

| Theorem | Statement |
|---|---|
| `Invariance` | `Spec => []Inv` |
| `TypeCorrect` | `Spec => []TypeOK` |
| `LedgerSafe` | `Spec => []LedgerMatchesHub` |
| `ChannelSafe` | `Spec => []OwnChannelOnly` |
| `OfflineFinal` | `Spec => []OfflineIsFinal` |
| `OneLoopListed` | all sessions on one loop implies `Spec => []AllChannelsListed` |
| `OneLoopReaches` | all sessions on one loop implies `Spec => []BroadcastReaches` |
| `PresenceRefined` | sends that succeed (`~BrokerFails`) imply `Spec => PresenceHolds` |

The properties are not inductive. What `channelInactive` and `destroy` may assume was
established by `create`, `join` and `onOpen`, callbacks before. `Inv` writes that down
per session: `Registered` (registration, joined object and callback agree; clients of
an object are exactly of those who joined it), `Recorded` (the records sent agree with
callback and registration), and for the node `Listed` (an object is listed under the
channel id it was made for) and `Addressed` (a broadcast visits its own channel).
`TypeStep`, `RegisteredStep`, `ListedStep`, `RecordedStep` and `AddressedStays` take the
conjuncts through each action of a session, `OthersStay` covers the sessions that do
not move, `ListenerStep` the broadcast, `InvStep` puts them together. `FinalStep` adds
`OfflineIsFinal` on top of `Inv`. For `OneLoopListed`, `OneLoopInv` adds that callbacks
exclude each other (`Alone`) and that a session dropping a channel is the last one in
the hub while a registered session's object is the listed one (`Kept`); this is exactly
what the run `orphan` breaks with a second loop. `OneLoopReaches` rests on it: the object a
broadcast goes through stays the one its listeners joined (`Heard`), and they are among its
clients as long as they are connected (`Joined`); so the iterator, which may or may not see
who comes and goes meanwhile, cannot miss any of them.

For `PresenceRefined`, each step of a session maps to the step of `Presence` that adds the
record it sends, all others to a stutter; `Inv` and `Quiet` (which sessions have sent nothing
yet, and that a frame still has room) give the guards.

Assumptions: those `ConnectHub` declares for its constants (`NoneIsNew`, `LoopOfType`,
`BoundIsNat`, `BrokerIsBool`), and those named in the table.

`NodeLoad_proof`, for any nodes, channels, watchers, records and starts, if
`EventLabel = "EVENT"`:

| Theorem | Statement |
|---|---|
| `LedgerSafe` | `Spec => []LedgerExact` |
| `ReachSafe` | `Spec => []MessageReachesSessions` |

`LedgerExact` is not inductive: `List.remove` of a node that is not there changes nothing,
so each OFFLINE must find its node. That is a fact about the whole topic: `Balance(k)` counts
the sessions as of the records before the `k`-th, and `Covered` says that it is never
negative. `ReachSafe` survives lost and failed OFFLINE records: as long as no ONLINE was
missed, `Enough` keeps an inequality in place of the equation, and `Reaching` follows one
message from the lookup of its nodes to its storage.

`NodeQueue_proof`, for any nodes, channels, records and starts:

| Theorem | Statement |
|---|---|
| `TypeSafe` | `Spec => []TypeOK`, with any number of watchers |
| `QueueSafe` | one watcher implies `Spec => []QueueIsAvailable` |
| `LeastSafe` | one watcher implies `Spec => []LeastFirst` |

`QueueInv` says, for each place between map and queue a thread can stand at, which object is
still or not yet in the queue (`Contents`), that no object is in it twice (`Single`), and where
the array may be out of order (`Order`): `connect` raises the load of an object that is still
queued, so until `remove` has found it the array is ordered but for that place. `Heap_proof`
has what the queue does to any array of any length: `SiftUp` and `SiftDown` permute it, and
restore the order if it was broken at the one place they start from. Both are recursive
functions over places, so their lemmas are proved by induction; the induction theorems of the
library take an operator as parameter and cannot be used, but `Induct` follows from the
pigeonhole principle (`FS_PigeonHole`), and that a recursive function satisfies its equation is
proved with it (`UpExists` and its kind). All of it but the types ends with the first
`disconnect` (`requeued`) or overlap (`raced`), as section 4 explains.

`UidRing_proof`, for any takers, size, threshold and UIDs per second:

| Theorem | Statement |
|---|---|
| `TypeCorrect` | `Spec => []TypeOK` |
| `WindowSafe` | `Spec => []WindowFits` |
| `UniqueSafe` | `Spec => []UniqueUntilDrained` |
| `ReadSafe` | `Spec => []NeverMisreads` |
| `OrderSafe` | `Spec => []WaitingAreOrdered` |
| `UniqueForOne` | one taker implies `Spec => []UniqueUid` |
| `OrderForOne` | one taker implies `Spec => []IssuedInOrder` |

`RingInv` gives each sequence up to the cursor, until its slot is freed, to the one taker
that moved the cursor there (`Owned`, `Apart`); says that the slots hold different UIDs below
the next one to be made and none that was returned (`Values`, `Counts`, `Bound`); that the
padding thread past its check of the flag is a full ring away from every owner (`Owned`,
`Window`) and has written what it will publish (`Written`); and that the waiting sequences
are in order (`Waiting`). Two sequences less than a ring apart have different slots
(`IndexApart`), which carries every step. All of it but `Window` ends when a take meets an
empty ring, as the run `twice` shows it must, unless there is one taker only: nobody else can
then have moved the cursor it compares with. `LineInv` puts the UIDs in one line: those
returned, that of the sequence taken, those waiting (`Past`, `Later`, `Chain`).

`UidClock_proof`, for any instances, widths and movement of the clock, if the borrowed
seconds end before the sign bit is used up too (`MaxBorrowed < 2 * 2^TimeBits`):

| Theorem | Statement |
|---|---|
| `TypeCorrect` | `Spec => []TypeOK` |
| `UniqueSafe` | `Spec => []UniqueUid` |
| `ParseSafe` | `Spec => ParsesBack` |
| `IncreaseSafe` | `Spec => NextIdIncreases` |

`RoundTrip` proves that `Parse` inverts `Allocate`, from uniqueness of the digits of a
number; so different seconds, workers or sequences make different UIDs (`Apart`). `Fresh`
says that every UID handed out has a worker id already given away and, for the instance
that runs under it, lies before the second and sequence its generator stands at; `Steps`
sorts the actions into those that hand out UIDs past that point and those that move no
generator back. `PowersAssumption` states the laws of exponents for the three widths, which
the provers do not know; TLC evaluates it.

`LoadTest_proof`, for any scripts, users, nodes, traffic and bounds, any contents, any int64
times and any `Exact`:

| Theorem | Statement |
|---|---|
| `CodecSafe` | `Spec => []CodecAgrees` |
| `TypeCorrect` | `Spec => []TypeOK` |
| `DeliveryRefined` | `Spec => DeliveryHolds` |

For the codec, `ReadOneMore` takes the loop of a reader one field further, by induction over
the fields (`ReadExists`, `ReadIs`); a field the writer leaves out because it has its default
adds no turn and leaves the place `null`, which the getter reads as the default again
(`ReadWritten`, `NextField`). From that come the arrays the four readers make of what the
services encode, the unknown field of a newer client included (`MessageRead`, `EventRead`,
`DataRead`, `PacketRead`), what `toObject` shows of them and what the writers write
(`PacketSeen`, `PacketWritten`). `ReadInt64Is` proves the rounding: nothing is lost up to
`Exact`, and no more than one part in `Exact` beyond it (`SpacingIs`, `NearestIs`); so the values
are those the services encoded, `Received`, as far as a double holds them. Assumed of the
constants is that times are int64 and that `null` is no content, integer, array or message.
`Inv` adds to the types that what is on its way is what a node encodes, and what was handed
over is what the reader makes of it. In `DeliveryRefined`, `Send`
maps to `Put`, `OnBinaryMessage` to `Get` (with `CodecLemma` the value handed over is the next
one sent; it moves from one log to the other, `MoveOver`), the end of a connection to `Cut`,
all else to a stutter.

Only model-checked is liveness: `EventuallyOffline`, `Replenished`, `CallEnds`,
`RegistryFollowed` and `Reconnects` are outside the reach of the prover. Every safety property
of the passing runs is a theorem. Most hypotheses of the theorems mark a place where the
property fails: `orphan` for a second loop (a session left in an unlisted object is reached by
no broadcast either), `twice` for a second taker, `mislabel` for the label, section 4 for two
notifications at once. The others are `~BrokerFails` of `PresenceRefined`, since a refused
record is missing, and the bound on borrowed seconds of `UidClock_proof`.

## 6. Not modelled

Filters, storage and statistics of im-message are stubs without state; tokens are created
but checked by no caller; the cache is unused; parsing, formatting, configuration and the
start and stop of the netty server have no behaviour the properties tell apart. Of
`google-protobuf.js` only the functions the generated code calls are there: varints, UTF-8,
extensions and the rest of that library are left out, and so are the clear and has
accessors, which no script calls, and fields of an unexpected wire type. `send_message.py`
is an empty file. The services broadcast only packets with a message
(C/service/MessageService.java:50-54), so the Event and Data halves of the codec are checked
by `CodecAgrees` only. Kafka is a sequence of records per topic, which may lose records in
`NodeLoad` but does not reorder them: the topic has one partition unless it is configured
otherwise. A clock before the epoch, and seconds borrowed until the sign bit is used up
too, are outside `UidClock`.

## 7. Plan

Done: the modules and theorems above. Left, in the order of what they would add:

1. Several partitions in `NodeLoad`: the records carry no key, so those of a session may
   change places.
2. What one instance of `UidRing` hands out as an implementation of `UidClock`'s `Borrow`.
