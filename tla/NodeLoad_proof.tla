--------------------------- MODULE NodeLoad_proof ---------------------------
(***************************************************************************)
(* Proofs about the ledger of NodeLoad, for every set of nodes, channels   *)
(* and watchers, any number of records and starts of a node.               *)
(*                                                                         *)
(* LedgerExact is not inductive: List.remove of a node that is not in the  *)
(* list changes nothing, so an OFFLINE must find its node there.  That it  *)
(* does is a fact about the whole topic: Covered says that from any record *)
(* on, no more sessions are announced than close.                          *)
(***************************************************************************)
EXTENDS NodeLoad, FiniteSetTheorems, TLAPS

(* The places from k on where queue q holds record x, and how many there are. *)
At(q, k, x)   == {i \in k .. Len(q): q[i] = x}
Many(q, k, x) == Cardinality(At(q, k, x))

OnlineOf(n, c)  == [kind |-> "ONLINE", node |-> n, to |-> c]
OfflineOf(n, c) == [kind |-> "OFFLINE", node |-> n, to |-> c]

(* Sessions of n on c as of the records before the k-th of the topic *)
Balance(k, n, c) ==
    sessions[n][c] - Many(topic, k, OnlineOf(n, c)) + Many(topic, k, OfflineOf(n, c))

LedgerTypes ==
    /\ sessions \in [Node -> [Channel -> Nat]]
    /\ topic \in Seq(Record)
    /\ channelNodeMap \in [Channel -> [Node -> Nat]]
    /\ missed \subseteq {"ONLINE", "OFFLINE"}

Covered ==
    missed = {} =>
        \A k \in 1 .. Len(topic) + 1: \A n \in Node, c \in Channel: Balance(k, n, c) >= 0

LedgerInv == LedgerTypes /\ Covered /\ LedgerExact

ledger == <<sessions, topic, channelNodeMap, missed>>

-----------------------------------------------------------------------------
(* A count is a natural number. *)
LEMMA ManyType ==
    ASSUME NEW q \in Seq(Record), NEW k \in Nat, NEW x
    PROVE  IsFiniteSet(At(q, k, x)) /\ Many(q, k, x) \in Nat
<1>1. IsFiniteSet(k .. Len(q))
  BY FS_Interval
<1>2. At(q, k, x) \in SUBSET (k .. Len(q))
  BY DEF At
<1>3. IsFiniteSet(At(q, k, x))
  BY <1>1, <1>2, FS_Subset
<1>4. QED
  BY <1>3, FS_CardinalityType DEF Many

(* Behind the last record there is nothing. *)
LEMMA ManyNone ==
    ASSUME NEW q \in Seq(Record), NEW x
    PROVE  Many(q, Len(q) + 1, x) = 0
<1>1. At(q, Len(q) + 1, x) = {}
  BY DEF At
<1>2. QED
  BY <1>1, FS_EmptySet DEF Many

(* Appending a record adds one to its own count only. *)
LEMMA ManyAppend ==
    ASSUME NEW q \in Seq(Record), NEW e \in Record, NEW k \in 1 .. Len(q) + 1, NEW x
    PROVE  Many(Append(q, e), k, x) = Many(q, k, x) + (IF e = x THEN 1 ELSE 0)
<1> DEFINE last == Len(q) + 1
<1>1. IsFiniteSet(At(q, k, x)) /\ Many(q, k, x) \in Nat
  BY ManyType
<1>2. CASE e = x
  <2>1. At(Append(q, e), k, x) = At(q, k, x) \cup {last}
    BY <1>2 DEF At
  <2>2. last \notin At(q, k, x)
    BY DEF At
  <2>3. QED
    BY <1>1, <1>2, <2>1, <2>2, FS_AddElement DEF Many
<1>3. CASE e # x
  <2>1. At(Append(q, e), k, x) = At(q, k, x)
    BY <1>3 DEF At
  <2>2. QED
    BY <1>1, <1>3, <2>1 DEF Many
<1>4. QED
  BY <1>2, <1>3

(* Taking the first record shifts the places. *)
LEMMA ManyTail ==
    ASSUME NEW q \in Seq(Record), q # <<>>, NEW k \in 1 .. Len(q), NEW x
    PROVE  Many(Tail(q), k, x) = Many(q, k + 1, x)
<1> DEFINE S == At(q, k + 1, x)
           T == At(Tail(q), k, x)
           F == [i \in S |-> i - 1]
<1>1. IsFiniteSet(S)
  BY ManyType
<1>2. F \in [S -> T]
  BY DEF At
<1>3. \A i, j \in S: F[i] = F[j] => i = j
  BY DEF At
<1>4. \A j \in T: \E i \in S: F[i] = j
  <2> TAKE j \in T
  <2>1. j + 1 \in S
    BY DEF At
  <2>2. F[j + 1] = j
    BY <2>1 DEF At
  <2>3. QED
    BY <2>1, <2>2
<1>5. F \in Bijection(S, T)
  BY <1>2, <1>3, <1>4 DEF Bijection, Injection, Surjection, IsInjective
<1>6. ExistsBijection(S, T)
  BY <1>5 DEF ExistsBijection
<1>7. QED
  BY <1>1, <1>6, FS_Bijection DEF Many

(* The first record counts for itself. *)
LEMMA ManyHead ==
    ASSUME NEW q \in Seq(Record), q # <<>>, NEW x
    PROVE  Many(q, 1, x) = Many(q, 2, x) + (IF Head(q) = x THEN 1 ELSE 0)
<1>1. IsFiniteSet(At(q, 2, x)) /\ Many(q, 2, x) \in Nat
  BY ManyType
<1>2. CASE Head(q) = x
  <2>1. At(q, 1, x) = At(q, 2, x) \cup {1} /\ 1 \notin At(q, 2, x)
    BY <1>2 DEF At
  <2>2. QED
    BY <1>1, <1>2, <2>1, FS_AddElement DEF Many
<1>3. CASE Head(q) # x
  <2>1. At(q, 1, x) = At(q, 2, x)
    BY <1>3 DEF At
  <2>2. QED
    BY <1>1, <1>3, <2>1 DEF Many
<1>4. QED
  BY <1>2, <1>3

-----------------------------------------------------------------------------
(* What a produced record does to the balances: behind every record already in *)
(* the topic they stay, since the session and its record change together.      *)
LEMMA BalanceProduced ==
    ASSUME LedgerTypes, NEW n \in Node, NEW c \in Channel, NEW e \in Record, NEW v \in Nat,
           \/ e = OnlineOf(n, c) /\ v = sessions[n][c] + 1
           \/ e = OfflineOf(n, c) /\ v = sessions[n][c] - 1
           \/ e.kind = "MESSAGE" /\ v = sessions[n][c],
           sessions' = [sessions EXCEPT ![n][c] = v],
           topic' = Append(topic, e),
           NEW k \in 1 .. Len(topic) + 1, NEW m \in Node, NEW b \in Channel
    PROVE  Balance(k, m, b)' = Balance(k, m, b)
<1>1. /\ Many(topic', k, OnlineOf(m, b))
            = Many(topic, k, OnlineOf(m, b)) + (IF e = OnlineOf(m, b) THEN 1 ELSE 0)
      /\ Many(topic', k, OfflineOf(m, b))
            = Many(topic, k, OfflineOf(m, b)) + (IF e = OfflineOf(m, b) THEN 1 ELSE 0)
  BY ManyAppend DEF LedgerTypes
<1>2. Many(topic, k, OnlineOf(m, b)) \in Nat /\ Many(topic, k, OfflineOf(m, b)) \in Nat
  BY ManyType DEF LedgerTypes
<1>3. sessions'[m][b] = IF m = n /\ b = c THEN v ELSE sessions[m][b]
  BY DEF LedgerTypes
<1>4. sessions[m][b] \in Int
  BY DEF LedgerTypes
<1>5. /\ e = OnlineOf(n, c) => (e = OnlineOf(m, b) <=> m = n /\ b = c) /\ e # OfflineOf(m, b)
      /\ e = OfflineOf(n, c) => (e = OfflineOf(m, b) <=> m = n /\ b = c) /\ e # OnlineOf(m, b)
      /\ e.kind = "MESSAGE" => e # OfflineOf(m, b) /\ e # OnlineOf(m, b)
  BY DEF OnlineOf, OfflineOf
<1>6. Balance(k, m, b)' = sessions'[m][b] - Many(topic', k, OnlineOf(m, b))
                              + Many(topic', k, OfflineOf(m, b))
  BY DEF Balance, OnlineOf, OfflineOf
<1>7. Balance(k, m, b) = sessions[m][b] - Many(topic, k, OnlineOf(m, b))
                              + Many(topic, k, OfflineOf(m, b))
  BY DEF Balance
<1>8. CASE e = OnlineOf(n, c)
  <2>1. v = sessions[n][c] + 1
    BY <1>5, <1>8 DEF OnlineOf, OfflineOf
  <2>2. QED
    BY <1>1, <1>2, <1>3, <1>4, <1>5, <1>6, <1>7, <1>8, <2>1
<1>9. CASE e = OfflineOf(n, c)
  <2>1. v = sessions[n][c] - 1
    BY <1>5, <1>9 DEF OnlineOf, OfflineOf
  <2>2. QED
    BY <1>1, <1>2, <1>3, <1>4, <1>5, <1>6, <1>7, <1>9, <2>1
<1>10. CASE e.kind = "MESSAGE"
  <2>1. v = sessions[n][c]
    BY <1>10 DEF OnlineOf, OfflineOf
  <2>2. QED
    BY <1>1, <1>2, <1>3, <1>4, <1>5, <1>6, <1>7, <1>10, <2>1
<1>11. QED
  BY <1>8, <1>9, <1>10

(* Behind the last record the balance is the number of open sessions. *)
LEMMA BalanceLast ==
    ASSUME LedgerTypes, NEW m \in Node, NEW b \in Channel
    PROVE  Balance(Len(topic) + 1, m, b) = sessions[m][b]
BY ManyNone DEF LedgerTypes, Balance

(* Taking a record moves every balance to the place before. *)
LEMMA BalanceTaken ==
    ASSUME LedgerTypes, topic # <<>>, topic' = Tail(topic), sessions' = sessions,
           NEW k \in 1 .. Len(topic), NEW m \in Node, NEW b \in Channel
    PROVE  Balance(k, m, b)' = Balance(k + 1, m, b)
<1>1. /\ Many(topic', k, OnlineOf(m, b)) = Many(topic, k + 1, OnlineOf(m, b))
      /\ Many(topic', k, OfflineOf(m, b)) = Many(topic, k + 1, OfflineOf(m, b))
  BY ManyTail DEF LedgerTypes
<1>2. QED
  BY <1>1 DEF Balance, OnlineOf, OfflineOf

(* The first record is the difference between the first two balances. *)
LEMMA BalanceFirst ==
    ASSUME LedgerTypes, topic # <<>>, NEW m \in Node, NEW b \in Channel
    PROVE  /\ Balance(1, m, b) \in Int /\ Balance(2, m, b) \in Int
           /\ Balance(1, m, b) = Balance(2, m, b)
                 - (IF Head(topic) = OnlineOf(m, b) THEN 1 ELSE 0)
                 + (IF Head(topic) = OfflineOf(m, b) THEN 1 ELSE 0)
<1>1. /\ Many(topic, 1, OnlineOf(m, b)) = Many(topic, 2, OnlineOf(m, b))
                 + (IF Head(topic) = OnlineOf(m, b) THEN 1 ELSE 0)
      /\ Many(topic, 1, OfflineOf(m, b)) = Many(topic, 2, OfflineOf(m, b))
                 + (IF Head(topic) = OfflineOf(m, b) THEN 1 ELSE 0)
  BY ManyHead DEF LedgerTypes
<1>2. Many(topic, 2, OnlineOf(m, b)) \in Nat /\ Many(topic, 2, OfflineOf(m, b)) \in Nat
  BY ManyType DEF LedgerTypes
<1>3. sessions[m][b] \in Int
  BY DEF LedgerTypes
<1>4. /\ Balance(1, m, b) = sessions[m][b] - Many(topic, 1, OnlineOf(m, b))
                                + Many(topic, 1, OfflineOf(m, b))
      /\ Balance(2, m, b) = sessions[m][b] - Many(topic, 2, OnlineOf(m, b))
                                + Many(topic, 2, OfflineOf(m, b))
  BY DEF Balance
<1>5. CASE Head(topic) = OnlineOf(m, b)
  <2>1. Head(topic) # OfflineOf(m, b)
    BY <1>5 DEF OnlineOf, OfflineOf
  <2>2. QED
    BY <1>1, <1>2, <1>3, <1>4, <1>5, <2>1
<1>6. CASE Head(topic) = OfflineOf(m, b)
  <2>1. Head(topic) # OnlineOf(m, b)
    BY <1>6 DEF OnlineOf, OfflineOf
  <2>2. QED
    BY <1>1, <1>2, <1>3, <1>4, <1>6, <2>1
<1>7. CASE Head(topic) # OnlineOf(m, b) /\ Head(topic) # OfflineOf(m, b)
  BY <1>1, <1>2, <1>3, <1>4, <1>7
<1>8. QED
  BY <1>5, <1>6, <1>7

(* Announced is the balance before the first record. *)
LEMMA AnnouncedIs ==
    ASSUME NEW m \in Node, NEW b \in Channel
    PROVE  Announced(m, b) = Balance(1, m, b)
BY DEF Announced, Pending, Balance, Many, At, OnlineOf, OfflineOf

(* The same after the step. *)
LEMMA AnnouncedAfter ==
    ASSUME NEW m \in Node, NEW b \in Channel
    PROVE  Announced(m, b)' = Balance(1, m, b)'
BY DEF Announced, Pending, Balance, Many, At, OnlineOf, OfflineOf

(* What the ledger is made of decides whether it is as it should be. *)
LEMMA LedgerFrame ==
    ASSUME LedgerInv, UNCHANGED ledger
    PROVE  LedgerInv'
<1>1. /\ sessions' = sessions /\ topic' = topic
      /\ channelNodeMap' = channelNodeMap /\ missed' = missed
  BY DEF ledger
<1>2. \A k: \A m \in Node, b \in Channel: Balance(k, m, b)' = Balance(k, m, b)
  BY <1>1 DEF Balance
<1>3. \A m \in Node, b \in Channel: Announced(m, b)' = Announced(m, b)
  BY <1>1 DEF Announced, Pending
<1>4. LedgerTypes'
  BY <1>1 DEF LedgerInv, LedgerTypes
<1>5. Covered'
  BY <1>1, <1>2 DEF LedgerInv, Covered
<1>6. LedgerExact'
  BY <1>1, <1>3 DEF LedgerInv, LedgerExact
<1>7. QED
  BY <1>4, <1>5, <1>6 DEF LedgerInv

-----------------------------------------------------------------------------
(* The other steps of the listener, and the watchers' and Consul's, leave the  *)
(* ledger and what it is compared with alone.                                  *)
LEMMA KafkaFrame ==
    KafkaStep => Connect \/ Disconnect \/ TakeMessage \/ UNCHANGED ledger
BY DEF KafkaStep, ConnectRemove, ConnectAdd, DisconnectAdd, LookupDone, SendDone, Save,
       Lookup, SendToNode, SendThrows, env, state, hist, ledger

LEMMA WatchFrame ==
    ASSUME NEW w \in Watcher, Notify(w) \/ WatchStep(w)
    PROVE  UNCHANGED ledger /\ kafka' = kafka
BY DEF Notify, WatchStep, FindOffline, FindOnline, Stop, StopRemove, Start, StartAdd,
       StartPrint, NotifyDone, env, state, hist, ledger

LEMMA FlipFrame ==
    ASSUME NEW n \in Node, Flip(n)
    PROVE  UNCHANGED ledger /\ kafka' = kafka
BY DEF Flip, env, state, hist, ledger

(* A list with one more, or one less, of a node is a list. *)
LEMMA ListTypes ==
    ASSUME NEW list \in [Node -> Nat], NEW n \in Node
    PROVE  WithOne(list, n) \in [Node -> Nat] /\ WithoutOne(list, n) \in [Node -> Nat]
BY DEF WithOne, WithoutOne

(* Record e of node n and channel c goes to the topic; v sessions are open there then. *)
Announces(n, c, e, v) ==
    /\ e \in Record /\ v \in Nat
    /\ \/ e = OnlineOf(n, c) /\ v = sessions[n][c] + 1
       \/ e = OfflineOf(n, c) /\ v = sessions[n][c] - 1
       \/ e.kind = "MESSAGE" /\ v = sessions[n][c]
    /\ sessions' = [sessions EXCEPT ![n][c] = v]
    /\ topic' = Append(topic, e)
    /\ missed' = missed

(* An ONLINE or OFFLINE record is lost. *)
Loses(n, c, kind, v) ==
    /\ v \in Nat /\ v = IF kind = "ONLINE" THEN sessions[n][c] + 1 ELSE sessions[n][c] - 1
    /\ sessions' = [sessions EXCEPT ![n][c] = v]
    /\ topic' = topic
    /\ missed' = missed \cup {kind}

(* The sessions of a node and channel stay counted by a natural number. *)
LEMMA SessionTypes ==
    ASSUME sessions \in [Node -> [Channel -> Nat]], NEW n \in Node, NEW c \in Channel,
           NEW v \in Nat, sessions' = [sessions EXCEPT ![n][c] = v]
    PROVE  sessions' \in [Node -> [Channel -> Nat]]
<1>1. [sessions[n] EXCEPT ![c] = v] \in [Channel -> Nat]
  OBVIOUS
<1>2. sessions' = [sessions EXCEPT ![n] = [sessions[n] EXCEPT ![c] = v]]
  OBVIOUS
<1>3. QED
  BY <1>1, <1>2

(* A session that opens, closes or speaks announces it, or loses the record,   *)
(* and touches nothing else of the ledger and of the listener.                 *)
LEMMA ProduceEffect ==
    ASSUME LedgerTypes, NEW n \in Node, NEW c \in Channel,
           Open(n, c) \/ Close(n, c) \/ Say(n, c)
    PROVE  /\ LedgerTypes'
           /\ channelNodeMap' = channelNodeMap /\ kafka' = kafka
           /\ \/ \E e, v: Announces(n, c, e, v)
              \/ \E v: Loses(n, c, "ONLINE", v) \/ Loses(n, c, "OFFLINE", v)
              \/ UNCHANGED ledger
<1>0. /\ sessions \in [Node -> [Channel -> Nat]] /\ sessions[n][c] \in Nat
      /\ topic \in Seq(Record) /\ missed \subseteq {"ONLINE", "OFFLINE"}
      /\ channelNodeMap \in [Channel -> [Node -> Nat]]
  BY DEF LedgerTypes
<1>1. ASSUME NEW e \in Record PROVE Append(topic, e) \in Seq(Record)
  BY <1>0
<1>2. CASE Open(n, c)
  <2> DEFINE v == sessions[n][c] + 1
  <2>1. /\ sessions' = [sessions EXCEPT ![n][c] = v]
        /\ channelNodeMap' = channelNodeMap /\ kafka' = kafka
        /\ \/ topic' = Append(topic, OnlineOf(n, c)) /\ missed' = missed
           \/ topic' = topic /\ missed' = missed \cup {"ONLINE"}
    BY <1>2 DEF Open, Produce, state, OnlineOf
  <2>2. OnlineOf(n, c) \in Record /\ v \in Nat
    BY <1>0 DEF Record, Kind, OnlineOf
  <2>3. sessions' \in [Node -> [Channel -> Nat]]
    BY <1>0, <2>1, <2>2, SessionTypes
  <2>4. CASE topic' = Append(topic, OnlineOf(n, c)) /\ missed' = missed
    <3>1. topic' \in Seq(Record)
      BY <1>1, <2>2, <2>4
    <3>2. Announces(n, c, OnlineOf(n, c), v)
      BY <2>1, <2>2, <2>4 DEF Announces
    <3>3. QED
      BY <1>0, <2>1, <2>3, <2>4, <3>1, <3>2 DEF LedgerTypes
  <2>5. CASE topic' = topic /\ missed' = missed \cup {"ONLINE"}
    <3>1. Loses(n, c, "ONLINE", v)
      BY <2>1, <2>2, <2>5 DEF Loses
    <3>2. QED
      BY <1>0, <2>1, <2>3, <2>5, <3>1 DEF LedgerTypes
  <2>6. QED
    BY <2>1, <2>4, <2>5
<1>3. CASE Close(n, c)
  <2> DEFINE v == sessions[n][c] - 1
  <2>1. /\ sessions' = [sessions EXCEPT ![n][c] = v] /\ sessions[n][c] > 0
        /\ channelNodeMap' = channelNodeMap /\ kafka' = kafka
        /\ \/ topic' = Append(topic, OfflineOf(n, c)) /\ missed' = missed
           \/ topic' = topic /\ missed' = missed \cup {"OFFLINE"}
    BY <1>3 DEF Close, Produce, state, OfflineOf
  <2>2. OfflineOf(n, c) \in Record /\ v \in Nat
    BY <1>0, <2>1 DEF Record, Kind, OfflineOf
  <2>3. sessions' \in [Node -> [Channel -> Nat]]
    BY <1>0, <2>1, <2>2, SessionTypes
  <2>4. CASE topic' = Append(topic, OfflineOf(n, c)) /\ missed' = missed
    <3>1. topic' \in Seq(Record)
      BY <1>1, <2>2, <2>4
    <3>2. Announces(n, c, OfflineOf(n, c), v)
      BY <2>1, <2>2, <2>4 DEF Announces
    <3>3. QED
      BY <1>0, <2>1, <2>3, <2>4, <3>1, <3>2 DEF LedgerTypes
  <2>5. CASE topic' = topic /\ missed' = missed \cup {"OFFLINE"}
    <3>1. Loses(n, c, "OFFLINE", v)
      BY <2>1, <2>2, <2>5 DEF Loses
    <3>2. QED
      BY <1>0, <2>1, <2>3, <2>5, <3>1 DEF LedgerTypes
  <2>6. QED
    BY <2>1, <2>4, <2>5
<1>4. CASE Say(n, c)
  <2> DEFINE e == [kind |-> "MESSAGE", node |-> n, to |-> c]
             v == sessions[n][c]
  <2>1. /\ sessions' = sessions
        /\ channelNodeMap' = channelNodeMap /\ kafka' = kafka
        /\ missed' = missed \cup ({"MESSAGE"} \ {"MESSAGE"}) \/ missed' = missed
        /\ topic' = Append(topic, e) \/ topic' = topic
    BY <1>4 DEF Say, Produce, state
  <2>2. missed' = missed
    BY <2>1
  <2>3. e \in Record /\ e.kind = "MESSAGE"
    BY DEF Record, Kind
  <2>4. CASE topic' = Append(topic, e)
    <3>1. topic' \in Seq(Record)
      BY <1>1, <2>3, <2>4
    <3>2. sessions' = [sessions EXCEPT ![n][c] = v]
      BY <1>0, <2>1
    <3>3. Announces(n, c, e, v)
      BY <1>0, <2>2, <2>3, <2>4, <3>2 DEF Announces
    <3>4. QED
      BY <1>0, <2>1, <2>2, <3>1, <3>3 DEF LedgerTypes
  <2>5. CASE topic' = topic
    BY <1>0, <2>1, <2>2, <2>5 DEF LedgerTypes, ledger
  <2>6. QED
    BY <2>1, <2>4, <2>5
<1>5. QED
  BY <1>2, <1>3, <1>4

-----------------------------------------------------------------------------
(* The ledger is as it should be at the start. *)
LEMMA LedgerStart == Init => LedgerInv
<1> SUFFICES ASSUME Init PROVE LedgerInv
  OBVIOUS
<1>1. LedgerTypes
  BY DEF Init, LedgerTypes
<1>2. Len(topic) = 0
  BY DEF Init
<1>3. \A m \in Node, b \in Channel: Balance(1, m, b) = 0
  BY <1>1, <1>2, BalanceLast DEF Init
<1>4. Covered
  BY <1>2, <1>3 DEF Covered
<1>5. LedgerExact
  BY <1>3, AnnouncedIs DEF LedgerExact, Init
<1>6. QED
  BY <1>1, <1>4, <1>5 DEF LedgerInv

(* Announcing a session, or its end, keeps the balances and the new last one   *)
(* is the number of sessions open.                                             *)
LEMMA AnnounceStep ==
    ASSUME LedgerInv, LedgerTypes', channelNodeMap' = channelNodeMap,
           NEW n \in Node, NEW c \in Channel, NEW e, NEW v, Announces(n, c, e, v)
    PROVE  Covered' /\ LedgerExact'
<1>1. LedgerTypes /\ topic \in Seq(Record) /\ e \in Record
  BY DEF LedgerInv, LedgerTypes, Announces
<1>2. \A k \in 1 .. Len(topic) + 1: \A m \in Node, b \in Channel:
          Balance(k, m, b)' = Balance(k, m, b)
  BY <1>1, BalanceProduced DEF Announces
<1>3. Len(topic') = Len(topic) + 1 /\ Len(topic) \in Nat
  BY <1>1 DEF Announces
<1>4. Covered'
  <2> SUFFICES ASSUME missed' = {}, NEW k \in 1 .. Len(topic') + 1,
                      NEW m \in Node, NEW b \in Channel
               PROVE  Balance(k, m, b)' >= 0
    BY DEF Covered
  <2>1. CASE k \in 1 .. Len(topic) + 1
    BY <1>2, <2>1 DEF LedgerInv, Covered, Announces
  <2>2. CASE k = Len(topic') + 1
    <3>1. topic' \in Seq(Record) /\ sessions'[m][b] \in Nat
      BY DEF LedgerTypes
    <3>2. /\ Many(topic', k, OnlineOf(m, b)) = 0
          /\ Many(topic', k, OfflineOf(m, b)) = 0
      BY <2>2, <3>1, ManyNone
    <3>3. Balance(k, m, b)' = sessions'[m][b] - Many(topic', k, OnlineOf(m, b))
                                  + Many(topic', k, OfflineOf(m, b))
      BY DEF Balance, OnlineOf, OfflineOf
    <3>4. QED
      BY <3>1, <3>2, <3>3
  <2>3. QED
    BY <1>3, <2>1, <2>2
<1>5. LedgerExact'
  <2> SUFFICES ASSUME missed' = {}, NEW m \in Node, NEW b \in Channel
               PROVE  channelNodeMap'[b][m] = Announced(m, b)'
    BY DEF LedgerExact
  <2>1. Announced(m, b)' = Balance(1, m, b)'
    BY AnnouncedAfter
  <2>2. Balance(1, m, b)' = Balance(1, m, b)
    BY <1>2, <1>3
  <2>3. channelNodeMap[b][m] = Balance(1, m, b)
    BY AnnouncedIs DEF LedgerInv, LedgerExact, Announces
  <2>4. QED
    BY <2>1, <2>2, <2>3
<1>6. QED
  BY <1>4, <1>5

(* A step of a session keeps the ledger. *)
LEMMA SessionStep ==
    ASSUME LedgerInv, NEW n \in Node, NEW c \in Channel,
           Open(n, c) \/ Close(n, c) \/ Say(n, c)
    PROVE  LedgerInv'
<1>1. /\ LedgerTypes'
      /\ channelNodeMap' = channelNodeMap
      /\ \/ \E e, v: Announces(n, c, e, v)
         \/ \E v: Loses(n, c, "ONLINE", v) \/ Loses(n, c, "OFFLINE", v)
         \/ UNCHANGED ledger
  BY ProduceEffect DEF LedgerInv
<1>2. CASE \E e, v: Announces(n, c, e, v)
  BY <1>1, <1>2, AnnounceStep DEF LedgerInv
<1>3. CASE \E v: Loses(n, c, "ONLINE", v) \/ Loses(n, c, "OFFLINE", v)
  <2>1. missed' # {}
    BY <1>3 DEF Loses
  <2>2. QED
    BY <1>1, <2>1 DEF LedgerInv, Covered, LedgerExact
<1>4. CASE UNCHANGED ledger
  BY <1>4, LedgerFrame
<1>5. QED
  BY <1>1, <1>2, <1>3, <1>4

-----------------------------------------------------------------------------
(* What the record taken does to the lists: an ONLINE adds its node once, an   *)
(* OFFLINE takes it away once, a message reads them; or an event fails and is  *)
(* missed.                                                                     *)
LEMMA ListHandled ==
    ASSUME EventLabel = "EVENT", LedgerTypes,
           Connect \/ Disconnect \/ TakeMessage,
           topic # <<>>, NEW m \in Node, NEW b \in Channel
    PROVE  \/ channelNodeMap'[b][m] =
                IF Head(topic) = OnlineOf(m, b) THEN channelNodeMap[b][m] + 1
                ELSE IF Head(topic) = OfflineOf(m, b)
                     THEN IF channelNodeMap[b][m] = 0 THEN 0 ELSE channelNodeMap[b][m] - 1
                     ELSE channelNodeMap[b][m]
           \/ channelNodeMap' = channelNodeMap /\ Head(topic).kind \in missed'
<1> DEFINE r == Head(topic)
<1>1. r \in Record /\ channelNodeMap \in [Channel -> [Node -> Nat]]
  BY DEF LedgerTypes
<1>2. r.node \in Node /\ r.to \in Channel
  BY <1>1 DEF Record
<1>3. r = [kind |-> r.kind, node |-> r.node, to |-> r.to]
  BY <1>1 DEF Record
<1>4. /\ r = OnlineOf(m, b) <=> r.kind = "ONLINE" /\ r.node = m /\ r.to = b
      /\ r = OfflineOf(m, b) <=> r.kind = "OFFLINE" /\ r.node = m /\ r.to = b
  BY <1>3 DEF OnlineOf, OfflineOf
<1>5. CASE Connect
  <2>1. /\ r.kind = "ONLINE"
        /\ \/ channelNodeMap' = channelNodeMap /\ missed' = missed \cup {"ONLINE"}
           \/ channelNodeMap' = [channelNodeMap EXCEPT ![r.to] = WithOne(@, r.node)]
    BY <1>5 DEF Connect, Arrives
  <2>2. CASE channelNodeMap' = [channelNodeMap EXCEPT ![r.to] = WithOne(@, r.node)]
    <3>1. channelNodeMap'[b][m] =
            IF b = r.to /\ m = r.node THEN channelNodeMap[b][m] + 1 ELSE channelNodeMap[b][m]
      BY <1>1, <1>2, <2>2 DEF WithOne
    <3>2. QED
      BY <1>4, <2>1, <3>1
  <2>3. QED
    BY <2>1, <2>2
<1>6. CASE Disconnect
  <2>1. /\ r.kind = "OFFLINE"
        /\ \/ channelNodeMap' = channelNodeMap /\ missed' = missed \cup {"OFFLINE"}
           \/ channelNodeMap' = [channelNodeMap EXCEPT ![r.to] = WithoutOne(@, r.node)]
    BY <1>6 DEF Disconnect, Arrives
  <2>2. CASE channelNodeMap' = [channelNodeMap EXCEPT ![r.to] = WithoutOne(@, r.node)]
    <3>1. channelNodeMap'[b][m] =
            IF b = r.to /\ m = r.node
            THEN IF channelNodeMap[b][m] = 0 THEN 0 ELSE channelNodeMap[b][m] - 1
            ELSE channelNodeMap[b][m]
      BY <1>1, <1>2, <2>2 DEF WithoutOne
    <3>2. QED
      BY <1>4, <2>1, <3>1
  <2>3. QED
    BY <2>1, <2>2
<1>7. CASE TakeMessage
  <2>1. channelNodeMap' = channelNodeMap /\ r.kind = "MESSAGE"
    BY <1>7 DEF TakeMessage, state
  <2>2. QED
    BY <1>4, <2>1
<1>8. QED
  BY <1>5, <1>6, <1>7

(* The handled record leaves lists behind, and forgets no missed event. *)
LEMMA ListStep ==
    ASSUME LedgerTypes, Connect \/ Disconnect \/ TakeMessage,
           topic # <<>>, topic' \in Seq(Record), sessions' = sessions
    PROVE  LedgerTypes' /\ missed \subseteq missed'
<1> DEFINE r == Head(topic)
<1>1. r \in Record /\ channelNodeMap \in [Channel -> [Node -> Nat]]
  BY DEF LedgerTypes
<1>2. r.node \in Node /\ r.to \in Channel
  BY <1>1 DEF Record
<1>3. missed \subseteq missed' /\ missed' \subseteq {"ONLINE", "OFFLINE"}
  <2>1. \/ missed' = missed \cup {"ONLINE"}
        \/ missed' = missed \cup {"OFFLINE"}
        \/ missed' = missed
    BY DEF Connect, Disconnect, TakeMessage, hist
  <2>2. QED
    BY <2>1 DEF LedgerTypes
<1>4. channelNodeMap' \in [Channel -> [Node -> Nat]]
  <2>1. \/ channelNodeMap' = channelNodeMap
        \/ channelNodeMap' = [channelNodeMap EXCEPT ![r.to] = WithOne(@, r.node)]
        \/ channelNodeMap' = [channelNodeMap EXCEPT ![r.to] = WithoutOne(@, r.node)]
    BY DEF Connect, Disconnect, TakeMessage, state
  <2>2. /\ WithOne(channelNodeMap[r.to], r.node) \in [Node -> Nat]
        /\ WithoutOne(channelNodeMap[r.to], r.node) \in [Node -> Nat]
    BY <1>1, <1>2, ListTypes
  <2>3. QED
    BY <1>1, <1>2, <2>1, <2>2
<1>5. QED
  BY <1>3, <1>4 DEF LedgerTypes

(* The listener takes a record of the ledger, handled as the event it is. *)
LEMMA TakeStep ==
    ASSUME EventLabel = "EVENT", LedgerInv, Connect \/ Disconnect \/ TakeMessage
    PROVE  LedgerInv'
<1>1. LedgerTypes /\ topic \in Seq(Record) /\ topic # <<>> /\ missed \subseteq {"ONLINE", "OFFLINE"}
  BY DEF LedgerInv, LedgerTypes, Connect, Disconnect, TakeMessage, Arrives
<1>2. topic' = Tail(topic) /\ sessions' = sessions
  BY DEF Connect, Disconnect, TakeMessage, env
<1>3. Len(topic') + 1 = Len(topic) /\ Len(topic) \in Nat /\ topic' \in Seq(Record)
  BY <1>1, <1>2
<1>4. \A k \in 1 .. Len(topic): \A m \in Node, b \in Channel:
          Balance(k, m, b)' = Balance(k + 1, m, b)
  BY <1>1, <1>2, BalanceTaken
<1>5. LedgerTypes' /\ missed \subseteq missed'
  BY <1>1, <1>2, <1>3, ListStep
<1>6. Covered'
  <2> SUFFICES ASSUME missed' = {}, NEW k \in 1 .. Len(topic') + 1,
                      NEW m \in Node, NEW b \in Channel
               PROVE  Balance(k, m, b)' >= 0
    BY DEF Covered
  <2>1. missed = {} /\ k \in 1 .. Len(topic) /\ k + 1 \in 1 .. Len(topic) + 1
    BY <1>3, <1>5
  <2>2. QED
    BY <1>4, <2>1 DEF LedgerInv, Covered
<1>7. LedgerExact'
  <2> SUFFICES ASSUME missed' = {}, NEW m \in Node, NEW b \in Channel
               PROVE  channelNodeMap'[b][m] = Announced(m, b)'
    BY DEF LedgerExact
  <2>1. Announced(m, b)' = Balance(2, m, b)
    BY <1>3, <1>4, AnnouncedAfter
  <2>2. missed = {}
    BY <1>5
  <2>3. channelNodeMap[b][m] = Balance(1, m, b) /\ channelNodeMap[b][m] \in Nat
    BY <1>1, <2>2, AnnouncedIs DEF LedgerInv, LedgerExact, LedgerTypes
  <2>4. Balance(2, m, b) >= 0
    BY <1>3, <2>2 DEF LedgerInv, Covered
  <2>5. /\ Balance(2, m, b) \in Int
        /\ Balance(1, m, b) = Balance(2, m, b)
                 - (IF Head(topic) = OnlineOf(m, b) THEN 1 ELSE 0)
                 + (IF Head(topic) = OfflineOf(m, b) THEN 1 ELSE 0)
    BY <1>1, BalanceFirst
  <2>6. channelNodeMap'[b][m] =
            IF Head(topic) = OnlineOf(m, b) THEN channelNodeMap[b][m] + 1
            ELSE IF Head(topic) = OfflineOf(m, b)
                 THEN IF channelNodeMap[b][m] = 0 THEN 0 ELSE channelNodeMap[b][m] - 1
                 ELSE channelNodeMap[b][m]
    BY <1>1, <2>2, ListHandled
  <2>7. OnlineOf(m, b) # OfflineOf(m, b)
    BY DEF OnlineOf, OfflineOf
  <2>8. QED
    BY <2>1, <2>3, <2>4, <2>5, <2>6, <2>7
<1>8. QED
  BY <1>5, <1>6, <1>7 DEF LedgerInv

-----------------------------------------------------------------------------
(* LedgerExact holds of every behaviour in which the listener takes events for *)
(* what they are: as long as none is lost or fails, the list of a channel has  *)
(* each node once per session announced there, for any number of connect       *)
(* nodes, channels, notifications and restarts (ConnectNodeLoadServiceImpl     *)
(* connect, disconnect, start, stop).                                          *)
THEOREM LedgerSafe == ASSUME EventLabel = "EVENT" PROVE Spec => []LedgerExact
<1>1. Init => LedgerInv
  BY LedgerStart
<1>2. LedgerInv /\ [Next]_vars => LedgerInv'
  <2> SUFFICES ASSUME LedgerInv, [Next]_vars PROVE LedgerInv'
    OBVIOUS
  <2>1. CASE Environment
    <3>1. ASSUME NEW n \in Node, NEW c \in Channel, Open(n, c) \/ Close(n, c) \/ Say(n, c)
          PROVE  LedgerInv'
      BY <3>1, SessionStep
    <3>2. ASSUME NEW n \in Node, Flip(n) PROVE LedgerInv'
      BY <3>2, FlipFrame, LedgerFrame
    <3>3. QED
      BY <2>1, <3>1, <3>2 DEF Environment
  <2>2. CASE KafkaStep
    BY <2>2, KafkaFrame, TakeStep, LedgerFrame
  <2>3. ASSUME NEW w \in Watcher, Notify(w) \/ WatchStep(w) PROVE LedgerInv'
    BY <2>3, WatchFrame, LedgerFrame
  <2>4. CASE UNCHANGED vars
    <3>1. UNCHANGED ledger
      BY <2>4 DEF vars, env, state, hist, ledger
    <3>2. QED
      BY <3>1, LedgerFrame
  <2>5. QED
    BY <2>1, <2>2, <2>3, <2>4 DEF Next
<1>3. LedgerInv => LedgerExact
  BY DEF LedgerInv
<1>4. QED
  BY <1>1, <1>2, <1>3, PTL DEF Spec

-----------------------------------------------------------------------------
(* MessageReachesSessions needs less of the ledger, and the listener's locals: *)
(* a node never has fewer occurrences than sessions announced, whatever OFFLINE *)
(* is lost, and on the way from the lookup to the storage a node with sessions *)
(* is still to look up, in the list found, or sent to - or a null is in the    *)
(* list, and then the storage is not reached.                                  *)
NodeTypes ==
    /\ availableNodes \in [Node -> 0 .. MaxStarts]
    /\ starts \in [Node -> 0 .. MaxStarts]
    /\ kafka \in Listener

Enough ==
    "ONLINE" \notin missed =>
        \A n \in Node, c \in Channel: channelNodeMap[c][n] >= Balance(1, n, c)

Found(n)   == None \in kafka.list \/ \E x \in Object: x \in kafka.list /\ x[1] = n
OnWay(n)   == \/ kafka.at = "lookup" /\ (n \in kafka.todo \/ Found(n))
              \/ kafka.at = "send" /\ (n \in kafka.sent \/ Found(n))
              \/ kafka.at = "save" /\ n \in kafka.sent

InDelivery == kafka.at \in {"lookup", "send", "save"}

Reaching ==
    InDelivery => /\ kafka.to \in Channel
                  /\ "ONLINE" \notin missed =>
                        \A n \in Node: Balance(1, n, kafka.to) > 0 => OnWay(n)

ReachInv == LedgerTypes /\ NodeTypes /\ Enough /\ Reaching

(* The lists stay long enough, and messages on their way, while what they read stays. *)
LEMMA SameLists ==
    ASSUME ReachInv, UNCHANGED ledger
    PROVE  LedgerTypes' /\ Enough'
<1>1. /\ sessions' = sessions /\ topic' = topic
      /\ channelNodeMap' = channelNodeMap /\ missed' = missed
  BY DEF ledger
<1>2. \A k: \A m \in Node, b \in Channel: Balance(k, m, b)' = Balance(k, m, b)
  BY <1>1 DEF Balance
<1>3. LedgerTypes'
  BY <1>1 DEF ReachInv, LedgerTypes
<1>4. Enough'
  BY <1>1, <1>2 DEF ReachInv, Enough
<1>5. QED
  BY <1>3, <1>4

LEMMA SameReach ==
    ASSUME ReachInv, UNCHANGED ledger, kafka' = kafka, NodeTypes'
    PROVE  ReachInv'
<1>1. sessions' = sessions /\ topic' = topic /\ missed' = missed
  BY DEF ledger
<1>2. \A k: \A m \in Node, b \in Channel: Balance(k, m, b)' = Balance(k, m, b)
  BY <1>1 DEF Balance
<1>3. Reaching'
  BY <1>1, <1>2 DEF ReachInv, Reaching, InDelivery, OnWay, Found
<1>4. QED
  BY <1>3, SameLists DEF ReachInv

(* The invariant reads no more than this. *)
LEMMA ReachFrame ==
    ASSUME ReachInv, UNCHANGED ledger, UNCHANGED <<availableNodes, starts, kafka>>
    PROVE  ReachInv'
<1>1. NodeTypes' /\ kafka' = kafka
  BY DEF ReachInv, NodeTypes
<1>2. QED
  BY <1>1, SameReach

(* A balance is an integer. *)
LEMMA BalanceType ==
    ASSUME LedgerTypes, NEW m \in Node, NEW b \in Channel
    PROVE  Balance(1, m, b) \in Int
<1>1. /\ Many(topic, 1, OnlineOf(m, b)) \in Nat
      /\ Many(topic, 1, OfflineOf(m, b)) \in Nat
      /\ sessions[m][b] \in Nat
  BY ManyType DEF LedgerTypes
<1>2. QED
  BY <1>1 DEF Balance

LEMMA BalanceAfter ==
    ASSUME LedgerTypes', NEW m \in Node, NEW b \in Channel
    PROVE  Balance(1, m, b)' \in Int
<1>1. /\ Many(topic', 1, OnlineOf(m, b)) \in Nat
      /\ Many(topic', 1, OfflineOf(m, b)) \in Nat
      /\ sessions'[m][b] \in Nat
  BY ManyType DEF LedgerTypes
<1>2. QED
  BY <1>1 DEF Balance, OnlineOf, OfflineOf

(* A session that opens, closes or speaks raises no balance unless its ONLINE  *)
(* is lost.                                                                    *)
LEMMA SessionBalance ==
    ASSUME LedgerTypes, NEW n \in Node, NEW c \in Channel,
           Open(n, c) \/ Close(n, c) \/ Say(n, c), "ONLINE" \notin missed'
    PROVE  /\ "ONLINE" \notin missed
           /\ \A m \in Node, b \in Channel: Balance(1, m, b)' =< Balance(1, m, b)
<1>1. /\ LedgerTypes'
      /\ \/ \E e, v: Announces(n, c, e, v)
         \/ \E v: Loses(n, c, "ONLINE", v) \/ Loses(n, c, "OFFLINE", v)
         \/ UNCHANGED ledger
  BY ProduceEffect
<1>2. CASE \E e, v: Announces(n, c, e, v)
  <2>1. PICK e, v: Announces(n, c, e, v)
    BY <1>2
  <2>2. 1 \in 1 .. Len(topic) + 1
    BY DEF LedgerTypes
  <2>3. \A m \in Node, b \in Channel: Balance(1, m, b)' = Balance(1, m, b)
    BY <2>1, <2>2, BalanceProduced DEF Announces
  <2>4. QED
    BY <2>1, <2>3, BalanceType DEF Announces
<1>3. CASE \E v: Loses(n, c, "ONLINE", v) \/ Loses(n, c, "OFFLINE", v)
  <2>1. PICK v: Loses(n, c, "OFFLINE", v)
    BY <1>3 DEF Loses
  <2>2. "ONLINE" \notin missed
    BY <2>1 DEF Loses
  <2>3. ASSUME NEW m \in Node, NEW b \in Channel
        PROVE  Balance(1, m, b)' =< Balance(1, m, b)
    <3>1. sessions'[m][b] =< sessions[m][b]
      BY <2>1 DEF Loses, LedgerTypes
    <3>2. /\ Many(topic, 1, OnlineOf(m, b)) \in Nat
          /\ Many(topic, 1, OfflineOf(m, b)) \in Nat
          /\ sessions[m][b] \in Nat /\ sessions'[m][b] \in Nat
      BY <1>1, ManyType DEF LedgerTypes
    <3>3. Balance(1, m, b)' = sessions'[m][b] - Many(topic, 1, OnlineOf(m, b))
                                  + Many(topic, 1, OfflineOf(m, b))
      BY <2>1 DEF Balance, Loses, OnlineOf, OfflineOf
    <3>4. QED
      BY <3>1, <3>2, <3>3 DEF Balance
  <2>4. QED
    BY <2>2, <2>3
<1>4. CASE UNCHANGED ledger
  <2>1. \A m \in Node, b \in Channel: Balance(1, m, b)' = Balance(1, m, b)
    BY <1>4 DEF Balance, ledger
  <2>2. QED
    BY <1>4, <2>1, BalanceType DEF ledger
<1>5. QED
  BY <1>1, <1>2, <1>3, <1>4

(* Where no balance rises, no list shrinks and the listener stays, what is on  *)
(* its way remains so.                                                         *)
LEMMA SessionReaches ==
    ASSUME ReachInv, NEW n \in Node, NEW c \in Channel,
           Open(n, c) \/ Close(n, c) \/ Say(n, c)
    PROVE  ReachInv'
<1>1. LedgerTypes' /\ channelNodeMap' = channelNodeMap /\ kafka' = kafka
  BY ProduceEffect DEF ReachInv
<1>2. availableNodes' = availableNodes /\ starts' = starts
  BY DEF Open, Close, Say, Produce, state
<1>3. NodeTypes'
  BY <1>1, <1>2 DEF ReachInv, NodeTypes
<1>4. ASSUME "ONLINE" \notin missed', NEW m \in Node, NEW b \in Channel
      PROVE  /\ "ONLINE" \notin missed /\ Balance(1, m, b)' =< Balance(1, m, b)
             /\ Balance(1, m, b) \in Int /\ Balance(1, m, b)' \in Int
  <2>1. Balance(1, m, b)' \in Int
    BY <1>1, BalanceAfter
  <2>2. QED
    BY <1>4, <2>1, SessionBalance, BalanceType DEF ReachInv
<1>5. Enough'
  <2> SUFFICES ASSUME "ONLINE" \notin missed', NEW m \in Node, NEW b \in Channel
               PROVE  channelNodeMap'[b][m] >= Balance(1, m, b)'
    BY DEF Enough
  <2>1. channelNodeMap[b][m] >= Balance(1, m, b) /\ channelNodeMap[b][m] \in Nat
    BY <1>4 DEF ReachInv, Enough, LedgerTypes
  <2>2. QED
    BY <1>1, <1>4, <2>1
<1>6. Reaching'
  <2>1. (InDelivery' => InDelivery) /\ \A m: OnWay(m)' <=> OnWay(m)
    BY <1>1 DEF InDelivery, OnWay, Found
  <2>2. ASSUME InDelivery', "ONLINE" \notin missed', NEW m \in Node, Balance(1, m, kafka.to)' > 0
        PROVE  OnWay(m)'
    <3>1. kafka.to \in Channel
      BY <2>1, <2>2 DEF ReachInv, Reaching
    <3>2. Balance(1, m, kafka.to) > 0 /\ "ONLINE" \notin missed
      BY <1>1, <1>4, <2>2, <3>1
    <3>3. QED
      BY <2>1, <2>2, <3>2 DEF ReachInv, Reaching
  <2>3. QED
    BY <1>1, <2>1, <2>2 DEF ReachInv, Reaching
<1>7. QED
  BY <1>1, <1>3, <1>5, <1>6 DEF ReachInv

-----------------------------------------------------------------------------
(* An event handled, or thrown out, keeps every list long enough.  A watcher's *)
(* step leaves the listener and the ledger alone.                              *)
LEMMA EventReaches ==
    ASSUME EventLabel = "EVENT", ReachInv, Connect \/ Disconnect \/ TakeMessage
    PROVE  LedgerTypes' /\ Enough'
<1>1. LedgerTypes /\ topic \in Seq(Record) /\ topic # <<>>
  BY DEF ReachInv, LedgerTypes, Connect, Disconnect, TakeMessage, Arrives
<1>2. topic' = Tail(topic) /\ sessions' = sessions /\ topic' \in Seq(Record)
  <2>1. topic' = Tail(topic) /\ sessions' = sessions
    BY DEF Connect, Disconnect, TakeMessage, env
  <2>2. QED
    BY <1>1, <2>1
<1>3. LedgerTypes' /\ missed \subseteq missed'
  BY <1>1, <1>2, ListStep
<1>4. Enough'
  <2> SUFFICES ASSUME "ONLINE" \notin missed', NEW m \in Node, NEW b \in Channel
               PROVE  channelNodeMap'[b][m] >= Balance(1, m, b)'
    BY DEF Enough
  <2>1. "ONLINE" \notin missed
    BY <1>3
  <2>2. Balance(1, m, b)' = Balance(2, m, b)
    <3>1. 1 \in 1 .. Len(topic)
      BY <1>1
    <3>2. QED
      BY <1>1, <1>2, <3>1, BalanceTaken
  <2>3. /\ Balance(1, m, b) \in Int /\ Balance(2, m, b) \in Int
        /\ Balance(1, m, b) = Balance(2, m, b)
                 - (IF Head(topic) = OnlineOf(m, b) THEN 1 ELSE 0)
                 + (IF Head(topic) = OfflineOf(m, b) THEN 1 ELSE 0)
    BY <1>1, BalanceFirst
  <2>4. channelNodeMap[b][m] >= Balance(1, m, b) /\ channelNodeMap[b][m] \in Nat
    BY <1>1, <2>1 DEF ReachInv, Enough, LedgerTypes
  <2>5. OnlineOf(m, b) # OfflineOf(m, b)
    BY DEF OnlineOf, OfflineOf
  <2>6. \/ channelNodeMap'[b][m] =
            IF Head(topic) = OnlineOf(m, b) THEN channelNodeMap[b][m] + 1
            ELSE IF Head(topic) = OfflineOf(m, b)
                 THEN IF channelNodeMap[b][m] = 0 THEN 0 ELSE channelNodeMap[b][m] - 1
                 ELSE channelNodeMap[b][m]
        \/ channelNodeMap'[b][m] = channelNodeMap[b][m] /\ Head(topic) # OnlineOf(m, b)
    <3>1. Head(topic).kind \in missed' => Head(topic) # OnlineOf(m, b)
      BY DEF OnlineOf
    <3>2. QED
      BY <1>1, <3>1, ListHandled
  <2>7. QED
    BY <2>2, <2>3, <2>4, <2>5, <2>6
<1>5. QED
  BY <1>3, <1>4

(* The node whose turn it is exists, or the event has failed. *)
LEMMA ObjectOf ==
    ASSUME availableNodes \in [Node -> 0 .. MaxStarts], NEW n \in Node, availableNodes[n] # 0
    PROVE  <<n, availableNodes[n]>> \in Object
BY StartsAssumption DEF Object

(* A record in the topic has a node and a channel. *)
LEMMA HeadType ==
    ASSUME LedgerTypes, topic # <<>>
    PROVE  Head(topic).node \in Node /\ Head(topic).to \in Channel
<1>1. Head(topic) \in Record
  BY DEF LedgerTypes
<1>2. QED
  BY <1>1 DEF Record

(* The listener's locals keep their types. *)
LEMMA ListenerTypes ==
    ASSUME LedgerTypes, NodeTypes, KafkaStep
    PROVE  NodeTypes'
<1>1. kafka \in Listener /\ availableNodes' = availableNodes /\ starts' = starts
  BY DEF NodeTypes, KafkaStep, Connect, ConnectRemove, ConnectAdd, Disconnect, DisconnectAdd,
         TakeMessage, LookupDone, SendDone, Save, Lookup, SendToNode, SendThrows, state
<1>2. IdleListener \in Listener
  BY DEF IdleListener, Listener, KafkaAt
<1>3. ASSUME topic # <<>> PROVE Head(topic).node \in Node /\ Head(topic).to \in Channel
  BY <1>3, HeadType
<1>4. CASE Connect \/ Disconnect
  <2> DEFINE x == <<Head(topic).node, availableNodes[Head(topic).node]>>
  <2>1. \/ kafka' = kafka
        \/ /\ availableNodes[Head(topic).node] # 0
           /\ \/ kafka' = [kafka EXCEPT !.at = "remove", !.obj = x]
              \/ kafka' = [kafka EXCEPT !.at = "readd", !.obj = x]
    BY <1>4 DEF Connect, Disconnect
  <2>2. Head(topic).node \in Node
    BY <1>3, <1>4 DEF Connect, Disconnect, Arrives
  <2>3. availableNodes[Head(topic).node] # 0 => x \in Object
    BY <2>2, ObjectOf DEF NodeTypes
  <2>4. ASSUME NEW y \in Object, NEW a \in {"remove", "readd"}
        PROVE  [kafka EXCEPT !.at = a, !.obj = y] \in Listener
    BY <1>1 DEF Listener, KafkaAt
  <2>5. kafka' \in Listener
    BY <1>1, <2>1, <2>3, <2>4
  <2>6. QED
    BY <1>1, <2>5 DEF NodeTypes
<1>5. CASE TakeMessage
  <2> DEFINE r == Head(topic)
  <2>1. \/ kafka' = [kafka EXCEPT !.at = "lookup", !.to = r.to,
                         !.todo = {n \in Node: channelNodeMap[r.to][n] > 0}]
        \/ kafka' = [kafka EXCEPT !.at = "lookup"]
    BY <1>5 DEF TakeMessage
  <2>2. r.to \in Channel
    BY <1>3, <1>5 DEF TakeMessage
  <2>3. /\ [kafka EXCEPT !.at = "lookup"] \in Listener
        /\ \A b \in Channel, S \in SUBSET Node:
               [kafka EXCEPT !.at = "lookup", !.to = b, !.todo = S] \in Listener
    BY <1>1 DEF Listener, KafkaAt
  <2>4. {n \in Node: channelNodeMap[r.to][n] > 0} \in SUBSET Node
    OBVIOUS
  <2>5. kafka' \in Listener
    BY <2>1, <2>2, <2>3, <2>4
  <2>6. QED
    BY <1>1, <2>5 DEF NodeTypes
<1>6. ASSUME NEW n \in Node, Lookup(n) PROVE NodeTypes'
  <2>1. PICK x \in Object \cup {None}:
            kafka' = [kafka EXCEPT !.todo = @ \ {n}, !.list = @ \cup {x}]
    BY <1>6, ObjectOf DEF Lookup, NodeTypes
  <2>2. kafka' \in Listener
    BY <1>1, <2>1 DEF Listener
  <2>3. QED
    BY <1>1, <2>2 DEF NodeTypes
<1>7. ASSUME NEW x \in Object \cup {None}, SendToNode(x) \/ SendThrows(x) PROVE NodeTypes'
  <2>1. \/ kafka' = IdleListener
        \/ x # None /\ kafka' = [kafka EXCEPT !.list = @ \ {x}, !.sent = @ \cup {x[1]}]
    BY <1>7 DEF SendToNode, SendThrows, KafkaDone
  <2>2. x # None => x[1] \in Node
    BY DEF Object
  <2>3. ASSUME NEW n \in Node
        PROVE  [kafka EXCEPT !.list = @ \ {x}, !.sent = @ \cup {n}] \in Listener
    BY <1>1 DEF Listener
  <2>4. kafka' \in Listener
    BY <1>2, <2>1, <2>2, <2>3
  <2>5. QED
    BY <1>1, <2>4 DEF NodeTypes
<1>8. CASE ConnectRemove \/ ConnectAdd \/ DisconnectAdd \/ LookupDone \/ SendDone \/ Save
  <2>1. \/ kafka' = IdleListener
        \/ \E at \in {"add", "send", "save"}: kafka' = [kafka EXCEPT !.at = at]
    BY <1>8 DEF ConnectRemove, ConnectAdd, DisconnectAdd, LookupDone, SendDone, Save, KafkaDone
  <2>2. kafka' \in Listener
    BY <1>1, <1>2, <2>1 DEF Listener, KafkaAt
  <2>3. QED
    BY <1>1, <2>2 DEF NodeTypes
<1>9. QED
  BY <1>4, <1>5, <1>6, <1>7, <1>8 DEF KafkaStep

(* A message taken finds every node with sessions in the list of its channel;  *)
(* an event taken is no delivery.                                              *)
LEMMA TakeReaches ==
    ASSUME EventLabel = "EVENT", ReachInv, Connect \/ Disconnect \/ TakeMessage
    PROVE  Reaching'
<1>1. LedgerTypes' /\ Enough' /\ kafka \in Listener
  BY EventReaches DEF ReachInv, NodeTypes
<1>2. CASE Connect \/ Disconnect
  <2>1. ~InDelivery'
    BY <1>1, <1>2 DEF Connect, Disconnect, Arrives, InDelivery, Listener
  <2>2. QED
    BY <2>1 DEF Reaching
<1>3. CASE TakeMessage
  <2> DEFINE r == Head(topic)
  <2>1. /\ kafka' = [kafka EXCEPT !.at = "lookup", !.to = r.to,
                         !.todo = {n \in Node: channelNodeMap[r.to][n] > 0}]
        /\ channelNodeMap' = channelNodeMap /\ topic # <<>>
    BY <1>3 DEF TakeMessage, state
  <2>2. r.to \in Channel
    BY <2>1, HeadType DEF ReachInv
  <2>3. /\ kafka'.to = r.to /\ kafka'.at = "lookup"
        /\ kafka'.todo = {n \in Node: channelNodeMap[r.to][n] > 0}
    BY <1>1, <2>1 DEF Listener
  <2>4. ASSUME "ONLINE" \notin missed', NEW m \in Node, Balance(1, m, kafka.to)' > 0
        PROVE  OnWay(m)'
    <3>1. PICK b \in Channel: b = r.to
      BY <2>2
    <3>2. Balance(1, m, b)' = Balance(1, m, kafka.to)'
      BY <2>3, <3>1 DEF Balance, OnlineOf, OfflineOf
    <3>3. channelNodeMap[b][m] >= Balance(1, m, b)' /\ Balance(1, m, b)' \in Int
      BY <1>1, <2>1, <2>4, BalanceAfter DEF Enough
    <3>4. channelNodeMap[r.to][m] > 0
      <4>1. channelNodeMap[b][m] \in Nat
        BY DEF ReachInv, LedgerTypes
      <4>2. QED
        BY <2>4, <3>1, <3>2, <3>3, <4>1
    <3>5. QED
      BY <2>3, <3>4 DEF OnWay
  <2>5. QED
    BY <2>2, <2>3, <2>4 DEF Reaching
<1>4. QED
  BY <1>2, <1>3

(* Looking up, sending and going on keep every node with sessions on its way. *)
LEMMA DeliveryReaches ==
    ASSUME ReachInv, UNCHANGED ledger, KafkaStep, ~(Connect \/ Disconnect \/ TakeMessage)
    PROVE  Reaching'
<1>1. kafka \in Listener /\ availableNodes \in [Node -> 0 .. MaxStarts]
  BY DEF ReachInv, NodeTypes
<1>2. /\ sessions' = sessions /\ topic' = topic /\ missed' = missed
  BY DEF ledger
<1>3. \A m \in Node, b \in Channel: Balance(1, m, b)' = Balance(1, m, b)
  BY <1>2 DEF Balance
<1>4. CASE ~InDelivery'
  BY <1>4 DEF Reaching
<1>5. ASSUME InDelivery, kafka'.to = kafka.to, \A m \in Node: OnWay(m) => OnWay(m)'
      PROVE  Reaching'
  <2>1. kafka.to \in Channel
    BY <1>5 DEF ReachInv, Reaching
  <2>2. \A m \in Node: Balance(1, m, kafka.to)' = Balance(1, m, kafka.to)
    BY <1>2, <1>5 DEF Balance
  <2>3. QED
    BY <1>2, <1>5, <2>1, <2>2 DEF ReachInv, Reaching
<1>6. ASSUME NEW n \in Node, Lookup(n) PROVE Reaching'
  <2>1. /\ kafka.at = "lookup"
        /\ \E x \in Object \cup {None}:
              /\ x = None \/ x[1] = n
              /\ kafka' = [kafka EXCEPT !.todo = @ \ {n}, !.list = @ \cup {x}]
    BY <1>1, <1>6, ObjectOf DEF Lookup
  <2>2. PICK x \in Object \cup {None}:
              /\ x = None \/ x[1] = n
              /\ kafka' = [kafka EXCEPT !.todo = @ \ {n}, !.list = @ \cup {x}]
    BY <2>1
  <2>3. /\ kafka'.at = "lookup" /\ kafka'.to = kafka.to
        /\ kafka'.todo = kafka.todo \ {n} /\ kafka'.list = kafka.list \cup {x}
    BY <1>1, <2>1, <2>2 DEF Listener
  <2>4. ASSUME NEW m \in Node, OnWay(m) PROVE OnWay(m)'
    <3>1. m \in kafka.todo \/ Found(m)
      BY <2>1, <2>4 DEF OnWay
    <3>2. CASE Found(m) \/ m = n
      <4>1. Found(m)'
        BY <2>2, <2>3, <3>2 DEF Found
      <4>2. QED
        BY <2>3, <4>1 DEF OnWay
    <3>3. CASE m \in kafka.todo /\ m # n
      BY <2>3, <3>3 DEF OnWay
    <3>4. QED
      BY <3>1, <3>2, <3>3
  <2>5. QED
    BY <1>5, <2>1, <2>3, <2>4 DEF InDelivery
<1>7. CASE LookupDone
  <2>1. /\ kafka.at = "lookup" /\ kafka.todo = {}
        /\ kafka'.at = "send" /\ kafka'.to = kafka.to /\ kafka'.list = kafka.list
    BY <1>1, <1>7 DEF LookupDone, Listener
  <2>2. ASSUME NEW m \in Node, OnWay(m) PROVE OnWay(m)'
    BY <2>1, <2>2 DEF OnWay, Found
  <2>3. QED
    BY <1>5, <2>1, <2>2 DEF InDelivery
<1>8. ASSUME NEW x \in Object \cup {None}, SendToNode(x) PROVE Reaching'
  <2>1. /\ kafka.at = "send" /\ x # None /\ x \in Object
        /\ kafka'.at = "send" /\ kafka'.to = kafka.to
        /\ kafka'.list = kafka.list \ {x} /\ kafka'.sent = kafka.sent \cup {x[1]}
    BY <1>1, <1>8 DEF SendToNode, Listener
  <2>2. ASSUME NEW m \in Node, OnWay(m) PROVE OnWay(m)'
    <3>1. m \in kafka.sent \/ Found(m)
      BY <2>1, <2>2 DEF OnWay
    <3>2. CASE m \in kafka.sent \/ m = x[1]
      BY <2>1, <3>2 DEF OnWay
    <3>3. CASE Found(m) /\ m # x[1]
      <4>1. Found(m)'
        BY <2>1, <3>3 DEF Found
      <4>2. QED
        BY <2>1, <4>1 DEF OnWay
    <3>4. QED
      BY <3>1, <3>2, <3>3
  <2>3. QED
    BY <1>5, <2>1, <2>2 DEF InDelivery
<1>9. CASE SendDone
  <2>1. /\ kafka.at = "send" /\ kafka.list = {}
        /\ kafka'.at = "save" /\ kafka'.to = kafka.to /\ kafka'.sent = kafka.sent
    BY <1>1, <1>9 DEF SendDone, Listener
  <2>2. ASSUME NEW m \in Node, OnWay(m) PROVE OnWay(m)'
    BY <2>1, <2>2 DEF OnWay, Found
  <2>3. QED
    BY <1>5, <2>1, <2>2 DEF InDelivery
<1>10. CASE \/ ConnectRemove \/ ConnectAdd \/ DisconnectAdd \/ Save
             \/ \E x \in Object \cup {None}: SendThrows(x)
  <2>1. kafka' = IdleListener \/ kafka' = [kafka EXCEPT !.at = "add"]
    BY <1>10 DEF ConnectRemove, ConnectAdd, DisconnectAdd, Save, SendThrows, KafkaDone
  <2>2. QED
    BY <1>1, <1>4, <2>1 DEF InDelivery, IdleListener, Listener
<1>11. QED
  BY <1>6, <1>7, <1>8, <1>9, <1>10 DEF KafkaStep

(* The watchers start and stop nodes; the listener's message is not theirs. *)
LEMMA WatchReaches ==
    ASSUME ReachInv, NEW w \in Watcher, Notify(w) \/ WatchStep(w)
    PROVE  ReachInv'
<1>1. UNCHANGED ledger /\ kafka' = kafka
  BY WatchFrame
<1>2. CASE \E n \in Node: Stop(w, n)
  <2>1. PICK n \in Node: availableNodes' = [availableNodes EXCEPT ![n] = 0] /\ starts' = starts
    BY <1>2 DEF Stop
  <2>2. NodeTypes'
    BY <1>1, <2>1, StartsAssumption DEF ReachInv, NodeTypes
  <2>3. QED
    BY <1>1, <2>2, SameReach
<1>3. CASE \E n \in Node: Start(w, n)
  <2>1. PICK n \in Node: /\ starts[n] < MaxStarts
                         /\ starts' = [starts EXCEPT ![n] = @ + 1]
                         /\ availableNodes' = [availableNodes EXCEPT ![n] = starts'[n]]
    BY <1>3 DEF Start
  <2>2. starts'[n] \in 0 .. MaxStarts
    BY <2>1, StartsAssumption DEF ReachInv, NodeTypes
  <2>3. NodeTypes'
    BY <1>1, <2>1, <2>2, StartsAssumption DEF ReachInv, NodeTypes
  <2>4. QED
    BY <1>1, <2>3, SameReach
<1>4. CASE availableNodes' = availableNodes /\ starts' = starts
  BY <1>1, <1>4, ReachFrame
<1>5. QED
  BY <1>2, <1>3, <1>4 DEF Notify, WatchStep, FindOffline, FindOnline, StopRemove, StartAdd,
                          StartPrint, NotifyDone, state

-----------------------------------------------------------------------------
(* MessageReachesSessions holds of every behaviour in which the listener takes *)
(* events for what they are: a message that gets to its storage has been sent  *)
(* to every node with a session announced on its channel, whatever OFFLINE     *)
(* records are lost and however the notifications interleave (MessageService   *)
(* handleMessage, sendToConnectNode).                                          *)
THEOREM ReachSafe ==
    ASSUME EventLabel = "EVENT" PROVE Spec => []MessageReachesSessions
<1>1. Init => ReachInv
  <2> SUFFICES ASSUME Init PROVE ReachInv
    OBVIOUS
  <2>1. LedgerTypes /\ NodeTypes
    BY LedgerStart, StartsAssumption
       DEF LedgerInv, NodeTypes, Init, IdleListener, Listener, KafkaAt
  <2>2. Enough
    <3>1. LedgerExact /\ missed = {}
      BY LedgerStart DEF LedgerInv, Init
    <3>2. QED
      BY <2>1, <3>1, AnnouncedIs, BalanceType DEF Enough, LedgerExact
  <2>3. Reaching
    BY DEF Init, Reaching, InDelivery, IdleListener
  <2>4. QED
    BY <2>1, <2>2, <2>3 DEF ReachInv
<1>2. ReachInv /\ [Next]_vars => ReachInv'
  <2> SUFFICES ASSUME ReachInv, [Next]_vars PROVE ReachInv'
    OBVIOUS
  <2>1. CASE Environment
    <3>1. ASSUME NEW n \in Node, NEW c \in Channel, Open(n, c) \/ Close(n, c) \/ Say(n, c)
          PROVE  ReachInv'
      BY <3>1, SessionReaches
    <3>2. ASSUME NEW n \in Node, Flip(n) PROVE ReachInv'
      <4>1. availableNodes' = availableNodes /\ starts' = starts
        BY <3>2 DEF Flip, state
      <4>2. QED
        BY <3>2, <4>1, FlipFrame, ReachFrame
    <3>3. QED
      BY <2>1, <3>1, <3>2 DEF Environment
  <2>2. CASE KafkaStep
    <3>1. NodeTypes'
      BY <2>2, ListenerTypes DEF ReachInv
    <3>2. CASE Connect \/ Disconnect \/ TakeMessage
      BY <3>1, <3>2, EventReaches, TakeReaches DEF ReachInv
    <3>3. CASE ~(Connect \/ Disconnect \/ TakeMessage)
      <4>1. UNCHANGED ledger
        BY <2>2, <3>3, KafkaFrame
      <4>2. LedgerTypes' /\ Enough'
        BY <4>1, SameLists
      <4>3. Reaching'
        BY <2>2, <3>3, <4>1, DeliveryReaches
      <4>4. QED
        BY <3>1, <4>2, <4>3 DEF ReachInv
    <3>4. QED
      BY <3>2, <3>3
  <2>3. ASSUME NEW w \in Watcher, Notify(w) \/ WatchStep(w) PROVE ReachInv'
    BY <2>3, WatchReaches
  <2>4. CASE UNCHANGED vars
    <3>1. UNCHANGED ledger /\ UNCHANGED <<availableNodes, starts, kafka>>
      BY <2>4 DEF vars, env, state, hist, ledger
    <3>2. QED
      BY <3>1, ReachFrame
  <2>5. QED
    BY <2>1, <2>2, <2>3, <2>4 DEF Next
<1>3. ReachInv => MessageReachesSessions
  <2> SUFFICES ASSUME ReachInv, "ONLINE" \notin missed, kafka.at = "save",
                      NEW n \in Node, Announced(n, kafka.to) > 0
               PROVE  n \in kafka.sent
    BY DEF MessageReachesSessions
  <2>1. kafka.to \in Channel
    BY DEF ReachInv, Reaching, InDelivery
  <2>2. Balance(1, n, kafka.to) > 0
    BY <2>1, AnnouncedIs
  <2>3. OnWay(n)
    BY <2>2 DEF ReachInv, Reaching, InDelivery
  <2>4. QED
    BY <2>3 DEF OnWay
<1>4. QED
  BY <1>1, <1>2, <1>3, PTL DEF Spec
=============================================================================
