------------------------------ MODULE UidRing ------------------------------
(***************************************************************************)
(* CachedUidGenerator of im-message: a RingBuffer of prepared UIDs, taken  *)
(* lock-free by any number of threads and refilled by BufferPaddingExecutor*)
(* from seconds it borrows ahead of the clock.                             *)
(*                                                                         *)
(* Each access of an atomic variable, of a slot or of a flag is a step of  *)
(* its own.  RingBuffer.put is synchronized and paddingBuffer runs in one  *)
(* thread at a time, so one record stands for the thread that pads.        *)
(***************************************************************************)
EXTENDS Integers

CONSTANTS
    Taker,        \* threads that call getUID
    Size,         \* RingBuffer.bufferSize
    PerSecond,    \* UIDs of one second (max sequence + 1)
    Threshold,    \* RingBuffer.paddingThreshold
    Scheduled,    \* whether a scheduleInterval is configured
    MaxSecond,    \* bound on the seconds the padding borrows
    MaxQueued     \* bound on the padding tasks waiting in the executor

ASSUME SizeAssumption == Size \in Nat /\ Size >= 2
ASSUME PerSecondAssumption == PerSecond \in Nat \ {0}
ASSUME ThresholdAssumption == Threshold \in Nat
ASSUME MaxSecondAssumption == MaxSecond \in Nat
ASSUME MaxQueuedAssumption == MaxQueued \in Nat \ {0}
ASSUME ScheduledAssumption == Scheduled \in BOOLEAN

VARIABLES
    cursor,       \* RingBuffer.cursor: sequence last taken
    tail,         \* RingBuffer.tail: sequence last put
    slots,        \* RingBuffer.slots
    canTake,      \* RingBuffer.flags: CAN_TAKE_FLAG or CAN_PUT_FLAG
    take,         \* where each taker is in RingBuffer.take, with its locals
    pad,          \* where the padding thread is in paddingBuffer and put
    lastSecond,   \* BufferPaddingExecutor.lastSecond
    tasks,        \* paddingBuffer calls submitted and not yet begun
    pool,         \* "starting" (before initRingBuffer returns), "up", "down"
    times,        \* history: how often take has returned each UID
    drained       \* history: some take found the ring empty

ring == <<cursor, tail, slots, canTake>>
vars == <<ring, take, pad, lastSecond, tasks, pool, times, drained>>

Uid  == 0 .. MaxSecond * PerSecond + PerSecond   \* 0: a slot never filled
Slot == 0 .. Size - 1

TakeAt == {"out", "advance", "trigger", "flag", "slot", "free"}
PadAt  == {"out", "second", "room", "flag", "slot", "mark", "tail", "end"}

TypeOK ==
    /\ cursor \in Int /\ cursor >= -1
    /\ tail \in Int /\ tail >= -1
    /\ slots \in [Slot -> Uid]
    /\ canTake \in [Slot -> BOOLEAN]
    /\ take \in [Taker -> [at: TakeAt, cur: Int, next: Int, uid: Uid]]
    /\ pad \in [at: PadAt, offset: 0 .. PerSecond - 1]
    /\ lastSecond \in 0 .. MaxSecond
    /\ tasks \in 0 .. MaxQueued
    /\ pool \in {"starting", "up", "down"}
    /\ times \in [Uid -> Nat]
    /\ drained \in BOOLEAN

(* RingBuffer.calSlotIndex; Size is a power of two in the code *)
Index(seq) == seq % Size

(* Mutant: the shift is applied to the wrong field. *)
UidOfSwapped(second, offset) == second + offset * PerSecond

(* BitsAllocator.allocate plus the offset, for one worker *)
UidOf(second, offset) == second * PerSecond + offset

(* CachedUidGenerator.initRingBuffer: it pads the new ring in its own thread. *)
Init ==
    /\ cursor = -1
    /\ tail = -1
    /\ slots = [i \in Slot |-> 0]
    /\ canTake = [i \in Slot |-> FALSE]
    /\ take = [t \in Taker |-> [at |-> "out", cur |-> -1, next |-> -1, uid |-> 0]]
    /\ pad = [at |-> "out", offset |-> 0]
    /\ lastSecond = 0
    /\ tasks = 1
    /\ pool = "starting"
    /\ times = [u \in Uid |-> 0]
    /\ drained = FALSE

-----------------------------------------------------------------------------
(* RingBuffer.take *)

(* A taker that returns or throws forgets its locals. *)
Out(t) == take' = [take EXCEPT ![t] = [at |-> "out", cur |-> -1, next |-> -1, uid |-> 0]]

(* currentCursor = cursor.get() *)
TakeStart(t) ==
    /\ take[t].at = "out"
    /\ pool # "starting"
    /\ take' = [take EXCEPT ![t].at = "advance", ![t].cur = cursor]
    /\ UNCHANGED <<ring, pad, lastSecond, tasks, pool, times, drained>>

(* Mutant: the cursor is moved without looking at the tail. *)
AdvanceBlind(t) ==
    /\ take[t].at = "advance"
    /\ cursor' = cursor + 1
    /\ drained' = (drained \/ cursor = tail)
    /\ take' = [take EXCEPT ![t].at = "trigger", ![t].next = cursor']
    /\ UNCHANGED <<tail, slots, canTake, pad, lastSecond, tasks, pool, times>>

(* Mutant: the cursor is set from the value read before, not atomically. *)
AdvanceStale(t) ==
    /\ take[t].at = "advance"
    /\ cursor' = IF take[t].cur = tail THEN take[t].cur ELSE take[t].cur + 1
    /\ drained' = (drained \/ cursor = tail)
    /\ take' = [take EXCEPT ![t].at = "trigger", ![t].next = cursor']
    /\ UNCHANGED <<tail, slots, canTake, pad, lastSecond, tasks, pool, times>>

(* cursor.updateAndGet: atomic, since the tail it compares with only grows *)
Advance(t) ==
    /\ take[t].at = "advance"
    /\ cursor' = IF cursor = tail THEN cursor ELSE cursor + 1
    /\ drained' = (drained \/ cursor = tail)
    /\ take' = [take EXCEPT ![t].at = "trigger", ![t].next = cursor']
    /\ UNCHANGED <<tail, slots, canTake, pad, lastSecond, tasks, pool, times>>

(* Below the threshold, asyncPadding submits a task, which throws after        *)
(* shutdown (tasks beyond MaxQueued are left out: they could only follow the   *)
(* ones already waiting); then a cursor that did not move means the ring is empty, and      *)
(* rejectedTakeHandler throws.                                                 *)
Trigger(t) ==
    /\ take[t].at = "trigger"
    /\ LET low    == tail - take[t].next < Threshold
           thrown == \/ low /\ pool = "down"
                     \/ take[t].next = take[t].cur
       IN  /\ tasks' = IF low /\ pool = "up" /\ tasks < MaxQueued
                       THEN tasks + 1 ELSE tasks
           /\ IF thrown THEN Out(t) ELSE take' = [take EXCEPT ![t].at = "flag"]
    /\ UNCHANGED <<ring, pad, lastSecond, pool, times, drained>>

(* Assert.isTrue(flag == CAN_TAKE_FLAG) *)
CheckTake(t) ==
    /\ take[t].at = "flag"
    /\ IF canTake[Index(take[t].next)]
       THEN take' = [take EXCEPT ![t].at = "slot"]
       ELSE Out(t)
    /\ UNCHANGED <<ring, pad, lastSecond, tasks, pool, times, drained>>

ReadSlot(t) ==
    /\ take[t].at = "slot"
    /\ take' = [take EXCEPT ![t].at = "free", ![t].uid = slots[Index(take[t].next)]]
    /\ UNCHANGED <<ring, pad, lastSecond, tasks, pool, times, drained>>

(* flag := CAN_PUT_FLAG, and the UID is returned *)
FreeSlot(t) ==
    /\ take[t].at = "free"
    /\ canTake' = [canTake EXCEPT ![Index(take[t].next)] = FALSE]
    /\ times' = [times EXCEPT ![take[t].uid] = @ + 1]
    /\ Out(t)
    /\ UNCHANGED <<cursor, tail, slots, pad, lastSecond, tasks, pool, drained>>

Take(t) == \/ TakeStart(t) \/ Advance(t) \/ Trigger(t)
           \/ CheckTake(t) \/ ReadSlot(t) \/ FreeSlot(t)

-----------------------------------------------------------------------------
(* BufferPaddingExecutor.paddingBuffer and RingBuffer.put *)

PadGoto(where) == pad' = [pad EXCEPT !.at = where]

(* running.compareAndSet(false, true): a call that finds another one running   *)
(* returns at once.                                                            *)
PadStart ==
    /\ tasks > 0
    /\ tasks' = tasks - 1
    /\ IF pad.at = "out" THEN PadGoto("second") ELSE UNCHANGED pad
    /\ UNCHANGED <<ring, take, lastSecond, pool, times, drained>>

(* Mutant: lastSecond.get() in place of lastSecond.incrementAndGet() once the *)
(* ring has been filled.                                                      *)
NextSecondStale ==
    /\ pad.at = "second"
    /\ lastSecond < MaxSecond
    /\ lastSecond' = IF pool = "starting" THEN lastSecond + 1 ELSE lastSecond
    /\ pad' = [at |-> "room", offset |-> 0]
    /\ UNCHANGED <<ring, take, tasks, pool, times, drained>>

(* uidProvider.provide(lastSecond.incrementAndGet()), nextIdsForOneSecond *)
NextSecond ==
    /\ pad.at = "second"
    /\ lastSecond < MaxSecond
    /\ lastSecond' = lastSecond + 1
    /\ pad' = [at |-> "room", offset |-> 0]
    /\ UNCHANGED <<ring, take, tasks, pool, times, drained>>

(* put: the distance to the cursor, a fresh cursor of -1 counting as 0 *)
CheckRoom ==
    /\ pad.at = "room"
    /\ LET distance == tail - (IF cursor = -1 THEN 0 ELSE cursor)
       IN  PadGoto(IF distance = Size - 1 THEN "end" ELSE "flag")
    /\ UNCHANGED <<ring, take, lastSecond, tasks, pool, times, drained>>

(* Mutant: put does not look at the flag. *)
CheckPutSkipped ==
    /\ pad.at = "flag"
    /\ PadGoto("slot")
    /\ UNCHANGED <<ring, take, lastSecond, tasks, pool, times, drained>>

CheckPut ==
    /\ pad.at = "flag"
    /\ PadGoto(IF canTake[Index(tail + 1)] THEN "end" ELSE "slot")
    /\ UNCHANGED <<ring, take, lastSecond, tasks, pool, times, drained>>

WriteSlot ==
    /\ pad.at = "slot"
    /\ slots' = [slots EXCEPT ![Index(tail + 1)] = UidOf(lastSecond, pad.offset)]
    /\ PadGoto("mark")
    /\ UNCHANGED <<cursor, tail, canTake, take, lastSecond, tasks, pool, times, drained>>

MarkSlot ==
    /\ pad.at = "mark"
    /\ canTake' = [canTake EXCEPT ![Index(tail + 1)] = TRUE]
    /\ PadGoto("tail")
    /\ UNCHANGED <<cursor, tail, slots, take, lastSecond, tasks, pool, times, drained>>

(* Mutant: the list of a second is one too long. *)
PublishTailLong ==
    /\ pad.at = "tail"
    /\ tail' = tail + 1
    /\ pad' = IF pad.offset = PerSecond
              THEN [at |-> "second", offset |-> 0]
              ELSE [at |-> "room", offset |-> pad.offset + 1]
    /\ UNCHANGED <<cursor, slots, canTake, take, lastSecond, tasks, pool, times, drained>>

(* tail.incrementAndGet(), then the next UID of the list or the next second *)
PublishTail ==
    /\ pad.at = "tail"
    /\ tail' = tail + 1
    /\ pad' = IF pad.offset + 1 = PerSecond
              THEN [at |-> "second", offset |-> 0]
              ELSE [at |-> "room", offset |-> pad.offset + 1]
    /\ UNCHANGED <<cursor, slots, canTake, take, lastSecond, tasks, pool, times, drained>>

(* Mutant: running is not reset. *)
PadEndStuck ==
    /\ pad.at = "end"
    /\ pool' = IF pool = "starting" THEN "up" ELSE pool
    /\ UNCHANGED <<ring, take, pad, lastSecond, tasks, times, drained>>

(* The put was rejected: running := false; the rest of the second is dropped.  *)
PadEnd ==
    /\ pad.at = "end"
    /\ pad' = [at |-> "out", offset |-> 0]
    /\ pool' = IF pool = "starting" THEN "up" ELSE pool
    /\ UNCHANGED <<ring, take, lastSecond, tasks, times, drained>>

Padding == \/ NextSecond \/ CheckRoom \/ CheckPut \/ WriteSlot
           \/ MarkSlot \/ PublishTail \/ PadEnd

(* BufferPaddingExecutor.start: the schedule thread calls paddingBuffer with a *)
(* fixed delay; calls that would only pile up behind a pending one are left out. *)
ScheduleTick ==
    /\ Scheduled
    /\ pool = "up"
    /\ tasks = 0
    /\ tasks' = 1
    /\ UNCHANGED <<ring, take, pad, lastSecond, pool, times, drained>>

(* CachedUidGenerator.destroy: shutdownNow drops the queued tasks; a padding   *)
(* in progress does not look at its interrupt and runs on.                     *)
Shutdown ==
    /\ pool = "up"
    /\ pool' = "down"
    /\ tasks' = 0
    /\ UNCHANGED <<ring, take, pad, lastSecond, times, drained>>

Next == (\E t \in Taker: Take(t)) \/ PadStart \/ Padding \/ ScheduleTick \/ Shutdown

Spec == Init /\ [][Next]_vars

(* The executor runs what is submitted to it, and takers that began go on and  *)
(* come back for more.                                                         *)
FairSpec == /\ Spec
            /\ WF_vars(PadStart)
            /\ WF_vars(Padding)
            /\ \A t \in Taker: WF_vars(Take(t))

-----------------------------------------------------------------------------
(* WindowFits: the taken sequence never passes the published one, and the      *)
(* sequences waiting to be taken never exceed the ring, so that put never      *)
(* comes round to a slot in front of the cursor.                               *)
WindowFits ==
    /\ cursor =< tail
    /\ tail - (IF cursor = -1 THEN 0 ELSE cursor) =< Size - 1

(* UniqueUid: take ("Get a unique ID", UidGenerator) returns no UID twice.     *)
UniqueUid == \A u \in Uid: times[u] =< 1

(* UniqueUntilDrained: however takers and the padding thread interleave, as    *)
(* long as no take has found the ring empty, no UID is returned twice and none *)
(* comes from a slot that was never filled.                                    *)
UniqueUntilDrained == ~drained => UniqueUid /\ times[0] = 0

(* NeverMisreads: until the ring is drained, the flag assertion of take holds, *)
(* and a taker past it reads the UID that was put at its sequence: no put      *)
(* overwrites a slot between a taker's advance and its read.                   *)
NeverMisreads ==
    ~drained => \A t \in Taker:
        /\ take[t].at \in {"flag", "slot", "free"} => canTake[Index(take[t].next)]
        /\ take[t].at = "free" => take[t].uid = slots[Index(take[t].next)]

(* WaitingAreOrdered: until the ring is drained, the UIDs waiting between      *)
(* cursor and tail are all takeable and increase with their sequence.          *)
WaitingAreOrdered ==
    ~drained => \A q \in cursor + 1 .. tail:
        /\ canTake[Index(q)]
        /\ q < tail => slots[Index(q)] < slots[Index(q + 1)]

(* IssuedInOrder: with one taker, UIDs are returned in increasing order.       *)
IssuedInOrder ==
    [][\A u, v \in Uid: times'[u] > times[u] /\ v >= u => times[v] = 0]_vars

(* Replenished: while takers keep coming, an empty ring is filled again,       *)
(* although a padding task is lost whenever it finds another still running.    *)
Replenished ==
    pool = "up" /\ cursor = tail ~>
        cursor < tail \/ pool = "down" \/ lastSecond = MaxSecond
=============================================================================
