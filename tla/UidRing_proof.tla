--------------------------- MODULE UidRing_proof ---------------------------
(***************************************************************************)
(* Proofs about the ring of UidRing, for any number of takers, any size of *)
(* the ring, any number of UIDs of a second and any threshold.             *)
(*                                                                         *)
(* As long as no take has met an empty ring, each sequence up to the cursor*)
(* belongs to the one taker that moved the cursor there, until it has read *)
(* and freed its slot.  RingInv says what that taker, the padding thread   *)
(* between its check of the room and its tail.incrementAndGet, and the     *)
(* sequences waiting between cursor and tail may rely on.                  *)
(*                                                                         *)
(* A taker that is alone always sees that the cursor did not move, so for  *)
(* it the same holds of a ring that has been empty; LineInv adds that the  *)
(* UIDs returned, the one held and those waiting increase in this order.   *)
(***************************************************************************)
EXTENDS UidRing, TLAPS

(* There is at most one taker. *)
Alone == \A t, v \in Taker: t = v

(* The thread that pads is in put, past its check of the room, past its check  *)
(* of the flag.                                                                *)
Putting == pad.at \in {"flag", "slot", "mark", "tail"}
Cleared == pad.at \in {"slot", "mark", "tail"}

(* A taker owns the sequence it moved the cursor to, if it moved it. *)
Owner(t) == \/ take[t].at \in {"flag", "slot", "free"}
            \/ take[t].at = "trigger" /\ take[t].next # take[t].cur

(* Every UID made so far is below this one. *)
Bound == IF pad.at \in {"room", "flag", "slot"} THEN UidOf(lastSecond, pad.offset)
         ELSE IF pad.at \in {"mark", "tail"} THEN UidOf(lastSecond, pad.offset) + 1
         ELSE UidOf(lastSecond + 1, 0)

Window ==
    /\ WindowFits
    /\ Putting => tail - (IF cursor = -1 THEN 0 ELSE cursor) =< Size - 2
    /\ pad.at = "room" \/ Putting => lastSecond >= 1

Owned(t) ==
    Owner(t) =>
        /\ take[t].next \in 0 .. cursor
        /\ tail < take[t].next + Size
        /\ Cleared => tail + 1 < take[t].next + Size
        /\ canTake[Index(take[t].next)]
        /\ take[t].at = "free" => take[t].uid = slots[Index(take[t].next)]

Apart ==
    \A t, v \in Taker: t # v /\ Owner(t) /\ Owner(v) => take[t].next # take[v].next

Values ==
    /\ \A i \in Slot: slots[i] < Bound
    /\ \A i \in Slot: canTake[i] => slots[i] > 0 /\ times[slots[i]] = 0
    /\ \A i, j \in Slot: i # j /\ slots[i] = slots[j] => slots[i] = 0

Counts ==
    /\ times[0] = 0
    /\ \A u \in Uid: times[u] =< 1 /\ (u >= Bound => times[u] = 0)

Written ==
    /\ pad.at \in {"mark", "tail"} =>
          /\ slots[Index(tail + 1)] = UidOf(lastSecond, pad.offset)
          /\ times[slots[Index(tail + 1)]] = 0
    /\ pad.at = "tail" => canTake[Index(tail + 1)]

Waiting ==
    \A q \in cursor + 1 .. tail:
        /\ canTake[Index(q)]
        /\ q < tail => slots[Index(q)] < slots[Index(q + 1)]

(* The cursor a taker has read is not ahead of the cursor, nor, without others, *)
(* behind it.                                                                  *)
Behind ==
    \A t \in Taker: take[t].at = "advance" =>
        take[t].cur =< cursor /\ (Alone => take[t].cur = cursor)

Intact == (\A t \in Taker: Owned(t)) /\ Apart /\ Values /\ Counts /\ Written /\ Waiting

RingInv == TypeOK /\ Window /\ Behind /\ (~drained \/ Alone => Intact)

-----------------------------------------------------------------------------
(* Slots and UIDs *)

LEMMA Multiple ==
    ASSUME NEW n \in Int, NEW s \in Nat, s * n < s, 0 < s * n
    PROVE  FALSE
<1>1. CASE n =< 0
  BY <1>1
<1>2. CASE n >= 1
  <2>1. s * n >= s * 1
    BY <1>2
  <2>2. QED
    BY <2>1
<1>3. QED
  BY <1>1, <1>2

LEMMA IndexType ==
    ASSUME NEW a \in Nat
    PROVE  Index(a) \in Slot
BY SizeAssumption DEF Index, Slot

(* A ring further is the same slot. *)
LEMMA IndexAround ==
    ASSUME NEW a \in Nat
    PROVE  Index(a + Size) = Index(a)
<1> DEFINE m == a \div Size
           n == (a + Size) \div Size
           r == a % Size
           s == (a + Size) % Size
<1>1. /\ m \in Int /\ n \in Int /\ r \in 0 .. Size - 1 /\ s \in 0 .. Size - 1
      /\ a = Size * m + r /\ a + Size = Size * n + s
  BY SizeAssumption
<1>2. Size * (n - m - 1) = r - s /\ Size * (1 + m - n) = s - r
  BY <1>1, SizeAssumption
<1> HIDE DEF m, n, r, s
<1>3. ~(0 < r - s) /\ ~(0 < s - r)
  <2>1. /\ n - m - 1 \in Int /\ 1 + m - n \in Int
        /\ r - s < Size /\ s - r < Size
    BY <1>1, SizeAssumption
  <2>2. QED
    BY <1>2, <2>1, Multiple, SizeAssumption
<1>4. r = s
  BY <1>1, <1>3, SizeAssumption
<1>5. QED
  BY <1>4 DEF r, s, Index

(* Sequences less than a ring apart have slots of their own. *)
LEMMA IndexApart ==
    ASSUME NEW a \in Nat, NEW b \in Nat, a < b, b - a < Size
    PROVE  Index(a) # Index(b)
<1> SUFFICES ASSUME a % Size = b % Size PROVE FALSE
  BY DEF Index
<1> DEFINE m == a \div Size
           n == b \div Size
<1>1. m \in Int /\ n \in Int /\ a = Size * m + (a % Size) /\ b = Size * n + (b % Size)
  BY SizeAssumption
<1>2. b - a = Size * (n - m)
  BY <1>1, SizeAssumption
<1> HIDE DEF m, n
<1>3. n - m \in Int /\ Size * (n - m) < Size /\ 0 < Size * (n - m)
  BY <1>1, <1>2
<1>4. QED
  BY <1>3, Multiple, SizeAssumption

LEMMA ZeroUid == 0 \in Uid
<1>1. MaxSecond * PerSecond \in Nat
  BY PerSecondAssumption, MaxSecondAssumption
<1>2. QED
  BY <1>1, PerSecondAssumption, MaxSecondAssumption DEF Uid

(* The UIDs of a second follow each other, and those of the second before. *)
LEMMA UidOrder ==
    ASSUME NEW s \in 0 .. MaxSecond, NEW o \in 0 .. PerSecond - 1
    PROVE  /\ UidOf(s, o) \in Uid
           /\ s >= 1 => UidOf(s, o) > 0
           /\ UidOf(s, o) + 1 =< UidOf(s + 1, 0)
           /\ o + 1 = PerSecond => UidOf(s, o) + 1 = UidOf(s + 1, 0)
           /\ UidOf(s, o + 1) = UidOf(s, o) + 1
           /\ UidOf(s + 1, 0) \in Nat
<1>0. PerSecond \in Nat /\ PerSecond >= 1 /\ MaxSecond \in Nat /\ s \in Nat /\ o \in Nat
  BY PerSecondAssumption, MaxSecondAssumption
<1>1. (s + 1) * PerSecond = s * PerSecond + PerSecond
  BY <1>0
<1>2. s * PerSecond \in Nat /\ MaxSecond * PerSecond \in Nat
  BY <1>0
<1>3. s * PerSecond =< MaxSecond * PerSecond
  <2>1. MaxSecond - s \in Nat
    BY <1>0
  <2>2. (MaxSecond - s) * PerSecond \in Nat
    BY <1>0, <2>1
  <2>3. MaxSecond * PerSecond = s * PerSecond + (MaxSecond - s) * PerSecond
    BY <1>0
  <2>4. QED
    BY <1>2, <2>2, <2>3
<1>4. s >= 1 => s * PerSecond >= 1
  BY <1>0
<1>5. QED
  BY <1>0, <1>1, <1>2, <1>3, <1>4 DEF UidOf, Uid

-----------------------------------------------------------------------------
(* Every step keeps the types. *)
LEMMA TypeStep ==
    ASSUME TypeOK, [Next]_vars
    PROVE  TypeOK'
<1>0. /\ Size \in Nat /\ PerSecond \in Nat /\ PerSecond >= 1 /\ MaxSecond \in Nat
      /\ MaxQueued \in Nat /\ MaxQueued >= 1 /\ 0 \in Uid
  BY ZeroUid, SizeAssumption, PerSecondAssumption, MaxSecondAssumption, MaxQueuedAssumption
<1>1. ASSUME NEW t \in Taker, TakeStart(t) PROVE TypeOK'
  BY <1>1 DEF TakeStart, TypeOK, TakeAt, ring
<1>2. ASSUME NEW t \in Taker, Advance(t) PROVE TypeOK'
  <2>1. cursor' \in Int /\ cursor' >= -1
    BY <1>2 DEF Advance, TypeOK
  <2>2. take' \in [Taker -> [at: TakeAt, cur: Int, next: Int, uid: Uid]]
    <3>1. ASSUME NEW c \in Int
          PROVE  [take EXCEPT ![t].at = "trigger", ![t].next = c]
                    \in [Taker -> [at: TakeAt, cur: Int, next: Int, uid: Uid]]
      BY DEF TypeOK, TakeAt
    <3>2. QED
      BY <1>2, <2>1, <3>1 DEF Advance
  <2>3. drained' \in BOOLEAN
    BY <1>2 DEF Advance
  <2>4. QED
    BY <1>2, <2>1, <2>2, <2>3 DEF Advance, TypeOK
<1>3. ASSUME NEW t \in Taker, Trigger(t) PROVE TypeOK'
  <2>1. tasks' \in 0 .. MaxQueued
    BY <1>0, <1>3 DEF Trigger, TypeOK
  <2>2. take' \in [Taker -> [at: TakeAt, cur: Int, next: Int, uid: Uid]]
    BY <1>0, <1>3 DEF Trigger, TypeOK, Out, TakeAt
  <2>3. QED
    BY <1>3, <2>1, <2>2 DEF Trigger, TypeOK, ring
<1>4. ASSUME NEW t \in Taker, CheckTake(t) PROVE TypeOK'
  BY <1>0, <1>4 DEF CheckTake, TypeOK, Out, TakeAt, ring
<1>5. ASSUME NEW t \in Taker, ReadSlot(t), Index(take[t].next) \in Slot PROVE TypeOK'
  BY <1>5 DEF ReadSlot, TypeOK, TakeAt, ring
<1>6. ASSUME NEW t \in Taker, FreeSlot(t) PROVE TypeOK'
  <2>1. take' \in [Taker -> [at: TakeAt, cur: Int, next: Int, uid: Uid]]
    BY <1>0, <1>6 DEF FreeSlot, TypeOK, Out, TakeAt
  <2>2. canTake' \in [Slot -> BOOLEAN]
    BY <1>6 DEF FreeSlot, TypeOK
  <2>3. take[t].uid \in Uid
    BY DEF TypeOK
  <2>4. times' \in [Uid -> Nat]
    BY <1>6, <2>3 DEF FreeSlot, TypeOK
  <2>5. QED
    BY <1>6, <2>1, <2>2, <2>4 DEF FreeSlot, TypeOK
<1>7. CASE PadStart
  BY <1>0, <1>7 DEF PadStart, PadGoto, TypeOK, PadAt, ring
<1>8. CASE NextSecond
  BY <1>0, <1>8 DEF NextSecond, TypeOK, PadAt, ring
<1>9. CASE CheckRoom
  BY <1>9 DEF CheckRoom, PadGoto, TypeOK, PadAt, ring
<1>10. CASE CheckPut
  BY <1>10 DEF CheckPut, PadGoto, TypeOK, PadAt, ring
<1>11. CASE WriteSlot
  <2>1. UidOf(lastSecond, pad.offset) \in Uid
    BY UidOrder DEF TypeOK
  <2>2. slots' \in [Slot -> Uid]
    BY <1>11, <2>1 DEF WriteSlot, TypeOK
  <2>3. QED
    BY <1>11, <2>2 DEF WriteSlot, PadGoto, TypeOK, PadAt
<1>12. CASE MarkSlot
  BY <1>12 DEF MarkSlot, PadGoto, TypeOK, PadAt
<1>13. CASE PublishTail
  <2>1. pad.offset + 1 # PerSecond => pad.offset + 1 \in 0 .. PerSecond - 1
    <3>1. pad.offset \in 0 .. PerSecond - 1
      BY DEF TypeOK
    <3>2. QED
      BY <1>0, <3>1
  <2>2. pad' \in [at: PadAt, offset: 0 .. PerSecond - 1]
    BY <1>0, <1>13, <2>1 DEF PublishTail, PadAt
  <2>3. tail' \in Int /\ tail' >= -1
    BY <1>13 DEF PublishTail, TypeOK
  <2>4. QED
    BY <1>13, <2>2, <2>3 DEF PublishTail, TypeOK
<1>14. CASE PadEnd
  BY <1>0, <1>14 DEF PadEnd, TypeOK, PadAt, ring
<1>15. CASE ScheduleTick
  BY <1>0, <1>15 DEF ScheduleTick, TypeOK, ring
<1>16. CASE Shutdown
  BY <1>0, <1>16 DEF Shutdown, TypeOK, ring
<1>17. CASE UNCHANGED vars
  BY <1>17 DEF vars, ring, TypeOK
<1>18. ASSUME NEW t \in Taker, ReadSlot(t) PROVE TypeOK'
  <2>1. Index(take[t].next) \in Slot
    BY <1>18, SizeAssumption DEF ReadSlot, TypeOK, Index, Slot
  <2>2. QED
    BY <1>5, <1>18, <2>1
<1>19. QED
  BY <1>1, <1>2, <1>3, <1>4, <1>6, <1>7, <1>8, <1>9, <1>10, <1>11, <1>12, <1>13, <1>14,
     <1>15, <1>16, <1>17, <1>18 DEF Next, Take, Padding

-----------------------------------------------------------------------------
(* The published sequence never comes round to the cursor.                     *)
LEMMA WindowStep ==
    ASSUME TypeOK, Window, [Next]_vars
    PROVE  Window'
<1>0. /\ Size \in Nat /\ Size >= 2 /\ cursor \in Int /\ cursor >= -1 /\ tail \in Int /\ tail >= -1
      /\ lastSecond \in Nat
  BY SizeAssumption, MaxSecondAssumption DEF TypeOK
<1>1. ASSUME NEW t \in Taker, Advance(t) PROVE Window'
  <2>1. cursor' = IF cursor = tail THEN cursor ELSE cursor + 1
    BY <1>1 DEF Advance
  <2>2. pad' = pad /\ tail' = tail /\ lastSecond' = lastSecond
    BY <1>1 DEF Advance
  <2>3. QED
    BY <1>0, <2>1, <2>2 DEF Window, WindowFits, Putting
<1>2. CASE cursor' = cursor /\ tail' = tail /\ pad' = pad /\ lastSecond' = lastSecond
  BY <1>2 DEF Window, WindowFits, Putting
<1>3. CASE PadStart
  <2>1. cursor' = cursor /\ tail' = tail /\ lastSecond' = lastSecond
        /\ (pad' = pad \/ pad'.at = "second")
    BY <1>3 DEF PadStart, PadGoto, ring, TypeOK
  <2>2. QED
    BY <2>1 DEF Window, WindowFits, Putting
<1>4. CASE NextSecond
  <2>1. cursor' = cursor /\ tail' = tail /\ lastSecond' = lastSecond + 1 /\ pad'.at = "room"
    BY <1>4 DEF NextSecond, ring
  <2>2. QED
    BY <1>0, <2>1 DEF Window, WindowFits, Putting
<1>5. CASE CheckRoom
  <2>1. /\ cursor' = cursor /\ tail' = tail /\ lastSecond' = lastSecond
        /\ pad.at = "room"
        /\ \/ pad'.at = "end"
           \/ pad'.at = "flag" /\ tail - (IF cursor = -1 THEN 0 ELSE cursor) # Size - 1
    BY <1>5 DEF CheckRoom, PadGoto, ring, TypeOK
  <2>2. QED
    BY <1>0, <2>1 DEF Window, WindowFits, Putting
<1>6. CASE CheckPut \/ WriteSlot \/ MarkSlot
  <2>1. /\ cursor' = cursor /\ tail' = tail /\ lastSecond' = lastSecond /\ Putting
        /\ pad'.at \in {"end", "slot", "mark", "tail"}
    BY <1>6 DEF CheckPut, WriteSlot, MarkSlot, PadGoto, ring, TypeOK, Putting
  <2>2. QED
    BY <2>1 DEF Window, WindowFits, Putting
<1>7. CASE PublishTail
  <2>1. /\ cursor' = cursor /\ tail' = tail + 1 /\ lastSecond' = lastSecond /\ Putting
        /\ pad'.at \in {"second", "room"}
    BY <1>7 DEF PublishTail, Putting
  <2>2. QED
    BY <1>0, <2>1 DEF Window, WindowFits, Putting
<1>8. CASE PadEnd
  <2>1. /\ cursor' = cursor /\ tail' = tail /\ lastSecond' = lastSecond /\ pad'.at = "out"
    BY <1>8 DEF PadEnd, ring
  <2>2. QED
    BY <2>1 DEF Window, WindowFits, Putting
<1>9. \/ \E t \in Taker: Advance(t)
      \/ cursor' = cursor /\ tail' = tail /\ pad' = pad /\ lastSecond' = lastSecond
      \/ PadStart \/ NextSecond \/ CheckRoom \/ CheckPut \/ WriteSlot \/ MarkSlot
      \/ PublishTail \/ PadEnd
  BY DEF Next, Take, TakeStart, Trigger, CheckTake, ReadSlot, FreeSlot, Padding,
         ScheduleTick, Shutdown, ring, vars
<1>10. QED
  BY <1>1, <1>2, <1>3, <1>4, <1>5, <1>6, <1>7, <1>8, <1>9

-----------------------------------------------------------------------------
(* The ring and what was issued stay: so does what holds of them, as long as   *)
(* no taker comes to own a sequence, and the UIDs made are no fewer.           *)
LEMMA RingStays ==
    ASSUME TypeOK, Intact, UNCHANGED ring, times' = times, Bound' \in Int, Bound =< Bound',
           Bound \in Int,
           \A t \in Taker: Owner(t)' =>
               /\ Owner(t) /\ take'[t].next = take[t].next
               /\ take'[t].at = "free" => take'[t].uid = slots[Index(take[t].next)],
           \A t \in Taker: Owner(t) /\ Cleared' => tail + 1 < take[t].next + Size,
           pad'.at \in {"mark", "tail"} => pad' = pad /\ lastSecond' = lastSecond
    PROVE  Intact'
<1>1. cursor' = cursor /\ tail' = tail /\ slots' = slots /\ canTake' = canTake
  BY DEF ring
<1>2. ASSUME NEW t \in Taker PROVE Owned(t)'
  BY <1>1 DEF Intact, Owned
<1>3. Apart'
  BY DEF Intact, Apart
<1>4. Values'
  <2>1. \A i \in Slot: slots[i] \in Int
    BY DEF TypeOK, Uid
  <2>2. QED
    BY <1>1, <2>1 DEF Intact, Values
<1>5. Counts'
  <2>1. \A u \in Uid: u \in Int
    BY DEF Uid
  <2>2. QED
    BY <2>1 DEF Intact, Counts
<1>6. Written'
  BY <1>1 DEF Intact, Written
<1>7. Waiting'
  BY <1>1 DEF Intact, Waiting
<1>8. QED
  BY <1>2, <1>3, <1>4, <1>5, <1>6, <1>7 DEF Intact

(* The bound is a number. *)
LEMMA BoundType ==
    ASSUME TypeOK
    PROVE  Bound \in Int
<1>1. lastSecond \in 0 .. MaxSecond /\ pad.offset \in 0 .. PerSecond - 1
  BY DEF TypeOK
<1>2. UidOf(lastSecond, pad.offset) \in Int /\ UidOf(lastSecond + 1, 0) \in Int
  BY <1>1, UidOrder DEF Uid
<1>3. QED
  BY <1>2 DEF Bound

(* No step of the padding thread makes fewer UIDs. *)
LEMMA BoundStep ==
    ASSUME TypeOK, TypeOK', Window, [Next]_vars
    PROVE  Bound' \in Int /\ Bound \in Int /\ Bound =< Bound'
<1>1. /\ lastSecond \in 0 .. MaxSecond /\ pad.offset \in 0 .. PerSecond - 1
      /\ lastSecond' \in 0 .. MaxSecond /\ pad'.offset \in 0 .. PerSecond - 1
      /\ lastSecond \in Nat
  BY MaxSecondAssumption DEF TypeOK
<1> DEFINE u == UidOf(lastSecond, pad.offset)
           n == UidOf(lastSecond + 1, 0)
<1>2. /\ u \in Int /\ n \in Int /\ u + 1 =< n
      /\ pad.offset + 1 = PerSecond => u + 1 = n
      /\ UidOf(lastSecond, pad.offset + 1) = u + 1
  BY <1>1, UidOrder DEF Uid
<1>3. Bound' \in Int
  <2>1. UidOf(lastSecond', pad'.offset) \in Int /\ UidOf(lastSecond' + 1, 0) \in Int
    BY <1>1, UidOrder DEF Uid
  <2>2. QED
    BY <2>1 DEF Bound, UidOf
<1> HIDE DEF u, n
<1>4. Bound = IF pad.at \in {"room", "flag", "slot"} THEN u
              ELSE IF pad.at \in {"mark", "tail"} THEN u + 1 ELSE n
  BY DEF Bound, u, n
<1>5. CASE pad' = pad /\ lastSecond' = lastSecond
  BY <1>3, <1>5 DEF Bound, UidOf
<1>6. CASE PadStart
  <2>1. lastSecond' = lastSecond /\ (pad' = pad \/ (pad.at = "out" /\ pad'.at = "second"))
    BY <1>6 DEF PadStart, PadGoto, TypeOK
  <2>2. CASE pad.at = "out" /\ pad'.at = "second"
    <3>1. Bound' = UidOf(lastSecond + 1, 0) /\ Bound = n
      BY <1>4, <2>1, <2>2 DEF Bound, UidOf
    <3>2. QED
      BY <1>2, <3>1 DEF n
  <2>3. QED
    BY <1>5, <2>1, <2>2
<1>7. CASE NextSecond
  <2>1. pad.at = "second" /\ pad' = [at |-> "room", offset |-> 0] /\ lastSecond' = lastSecond + 1
    BY <1>7 DEF NextSecond
  <2>2. Bound' = UidOf(lastSecond + 1, 0) /\ Bound = n
    BY <1>4, <2>1 DEF Bound, UidOf
  <2>3. QED
    BY <1>2, <2>2 DEF n
<1>8. CASE CheckRoom \/ CheckPut \/ WriteSlot \/ MarkSlot
  <2>1. /\ lastSecond' = lastSecond /\ pad'.offset = pad.offset
        /\ \/ pad.at \in {"room", "flag"} /\ pad'.at \in {"flag", "slot", "end"}
           \/ pad.at = "slot" /\ pad'.at = "mark"
           \/ pad.at = "mark" /\ pad'.at = "tail"
    BY <1>8 DEF CheckRoom, CheckPut, WriteSlot, MarkSlot, PadGoto, TypeOK
  <2>2. Bound' = IF pad'.at \in {"room", "flag", "slot"} THEN u
                 ELSE IF pad'.at \in {"mark", "tail"} THEN u + 1 ELSE n
    BY <2>1 DEF Bound, UidOf, u, n
  <2>3. QED
    BY <1>2, <1>4, <2>1, <2>2
<1>9. CASE PublishTail
  <2>1. /\ lastSecond' = lastSecond /\ pad.at = "tail"
        /\ \/ pad.offset + 1 = PerSecond /\ pad' = [at |-> "second", offset |-> 0]
           \/ pad' = [at |-> "room", offset |-> pad.offset + 1]
    BY <1>9 DEF PublishTail
  <2>2. \/ Bound' = UidOf(lastSecond + 1, 0) /\ pad.offset + 1 = PerSecond
        \/ Bound' = UidOf(lastSecond, pad.offset + 1)
    BY <2>1 DEF Bound, UidOf
  <2>3. Bound = u + 1
    BY <1>4, <2>1
  <2>4. QED
    BY <1>2, <2>2, <2>3 DEF n
<1>10. CASE PadEnd
  <2>1. lastSecond' = lastSecond /\ pad.at = "end" /\ pad'.at = "out"
    BY <1>10 DEF PadEnd
  <2>2. Bound' = UidOf(lastSecond + 1, 0) /\ Bound = n
    BY <1>4, <2>1 DEF Bound, UidOf
  <2>3. QED
    BY <1>2, <2>2 DEF n
<1>11. QED
  BY <1>5, <1>6, <1>7, <1>8, <1>9, <1>10
     DEF Next, Take, TakeStart, Advance, Trigger, CheckTake, ReadSlot, FreeSlot, Padding,
         ScheduleTick, Shutdown, vars

-----------------------------------------------------------------------------
(* The steps of a taker that do not touch the ring. *)
LEMMA TakerReads ==
    ASSUME TypeOK, TypeOK', Window, Intact, [Next]_vars, NEW t \in Taker,
           TakeStart(t) \/ Trigger(t) \/ CheckTake(t) \/ ReadSlot(t)
    PROVE  Intact'
<1>1. UNCHANGED ring /\ times' = times /\ pad' = pad /\ lastSecond' = lastSecond
  BY DEF TakeStart, Trigger, CheckTake, ReadSlot
<1>2. tail' = tail /\ slots' = slots
  BY <1>1 DEF ring
<1>3. \A v \in Taker: v # t => take'[v] = take[v]
  BY DEF TakeStart, Trigger, CheckTake, ReadSlot, Out, TypeOK
<1>4. \/ take'[t].at \in {"out", "advance"}
      \/ /\ Owner(t) /\ take'[t].next = take[t].next
         /\ take'[t].at = "free" => take'[t].uid = slots[Index(take[t].next)]
  BY DEF TakeStart, Trigger, CheckTake, ReadSlot, Out, TypeOK, Owner
<1>5. ASSUME NEW v \in Taker, Owner(v)'
      PROVE  /\ Owner(v) /\ take'[v].next = take[v].next
             /\ take'[v].at = "free" => take'[v].uid = slots[Index(take[v].next)]
  <2>1. CASE v = t
    BY <1>4, <1>5, <2>1 DEF Owner
  <2>2. CASE v # t
    BY <1>3, <1>5, <2>2 DEF Intact, Owned, Owner
  <2>3. QED
    BY <2>1, <2>2
<1>6. ASSUME NEW v \in Taker, Owner(v), Cleared'
      PROVE  tail + 1 < take[v].next + Size
  BY <1>1, <1>6 DEF Intact, Owned, Cleared
<1>7. QED
  BY <1>1, <1>5, <1>6, BoundStep, RingStays

(* The steps of the padding thread, and of the executor, that do not either.   *)
(* Past the flag of the slot to fill, no taker owns that slot.                 *)
LEMMA PaddingReads ==
    ASSUME TypeOK, TypeOK', Window, Intact, [Next]_vars,
           \/ PadStart \/ NextSecond \/ CheckRoom \/ CheckPut \/ PadEnd
           \/ ScheduleTick \/ Shutdown \/ UNCHANGED vars
    PROVE  Intact'
<1>1. UNCHANGED ring /\ times' = times /\ take' = take
  BY DEF PadStart, NextSecond, CheckRoom, CheckPut, PadEnd, ScheduleTick, Shutdown, vars
<1>2. \A v \in Taker: Owner(v)' =>
          /\ Owner(v) /\ take'[v].next = take[v].next
          /\ take'[v].at = "free" => take'[v].uid = slots[Index(take[v].next)]
  BY <1>1 DEF Intact, Owned, Owner
<1>3. pad'.at \in {"mark", "tail"} => pad' = pad /\ lastSecond' = lastSecond
  BY DEF PadStart, NextSecond, CheckRoom, CheckPut, PadEnd, ScheduleTick, Shutdown, vars,
         PadGoto, TypeOK
<1>4. Cleared' => Cleared \/ (pad.at = "flag" /\ ~canTake[Index(tail + 1)])
  BY DEF PadStart, NextSecond, CheckRoom, CheckPut, PadEnd, ScheduleTick, Shutdown, vars,
         PadGoto, TypeOK, Cleared
<1>5. ASSUME NEW v \in Taker, Owner(v), Cleared'
      PROVE  tail + 1 < take[v].next + Size
  <2>1. CASE Cleared
    BY <1>5, <2>1 DEF Intact, Owned
  <2>2. CASE ~canTake[Index(tail + 1)]
    <3>1. /\ take[v].next \in 0 .. cursor /\ tail < take[v].next + Size
          /\ canTake[Index(take[v].next)]
      BY <1>5 DEF Intact, Owned
    <3>2. /\ take[v].next \in Nat /\ tail \in Int /\ Size \in Nat
      BY <3>1, SizeAssumption DEF TypeOK
    <3>3. tail + 1 # take[v].next + Size
      BY <2>2, <3>1, <3>2, IndexAround
    <3>4. QED
      BY <3>1, <3>2, <3>3
  <2>3. QED
    BY <1>4, <1>5, <2>1, <2>2
<1>6. QED
  BY <1>1, <1>2, <1>3, <1>5, BoundStep, RingStays

-----------------------------------------------------------------------------
(* Moving the cursor to a waiting sequence makes the taker its owner. *)
LEMMA AdvanceOwns ==
    ASSUME TypeOK, Window, Behind, Intact, NEW t \in Taker, Advance(t), cursor # tail
    PROVE  Intact'
<1>0. /\ Size \in Nat /\ cursor \in Int /\ cursor >= -1 /\ tail \in Int
      /\ \A v \in Taker: take[v].next \in Int
  BY SizeAssumption DEF TypeOK
<1>1. /\ cursor # tail /\ cursor' = cursor + 1
      /\ tail' = tail /\ slots' = slots /\ canTake' = canTake
      /\ pad' = pad /\ lastSecond' = lastSecond /\ times' = times
  BY DEF Advance
<1>2. /\ take'[t].at = "trigger" /\ take'[t].next = cursor + 1
      /\ take'[t].cur = take[t].cur /\ take[t].cur =< cursor
      /\ \A v \in Taker: v # t => take'[v] = take[v]
      /\ take[t].at = "advance"
  BY <1>1 DEF Advance, TypeOK, Behind
<1>3. cursor + 1 \in cursor + 1 .. tail /\ cursor < tail
  BY <1>0, <1>1 DEF Window, WindowFits
<1>4. ASSUME NEW v \in Taker PROVE Owned(v)'
  <2>1. CASE v = t
    <3>1. canTake[Index(cursor + 1)]
      BY <1>3 DEF Intact, Waiting
    <3>2. tail < cursor + 1 + Size /\ (Cleared => tail + 1 < cursor + 1 + Size)
      BY <1>0 DEF Window, WindowFits, Cleared, Putting
    <3>3. Cleared' <=> Cleared
      BY <1>1 DEF Cleared
    <3>4. QED
      BY <1>0, <1>1, <1>2, <2>1, <3>1, <3>2, <3>3 DEF Owned
  <2>2. CASE v # t
    <3>1. take'[v] = take[v] /\ Owned(v)
      BY <1>2, <2>2 DEF Intact
    <3>2. (Owner(v)' <=> Owner(v)) /\ (Cleared' <=> Cleared)
      BY <1>1, <3>1 DEF Owner, Cleared
    <3>3. QED
      BY <1>0, <1>1, <3>1, <3>2 DEF Owned
  <2>3. QED
    BY <2>1, <2>2
<1>5. Apart'
  <2> SUFFICES ASSUME NEW v \in Taker, NEW w \in Taker, v # w, Owner(v)', Owner(w)'
               PROVE  take'[v].next # take'[w].next
    BY DEF Apart
  <2>1. \A x \in Taker: x # t /\ Owner(x)' => take'[x].next =< cursor /\ Owner(x)
    BY <1>0, <1>2 DEF Intact, Owned, Owner
  <2>2. CASE v # t /\ w # t
    BY <1>2, <2>1, <2>2 DEF Intact, Apart
  <2>3. CASE v = t \/ w = t
    BY <1>0, <1>2, <2>1, <2>3
  <2>4. QED
    BY <2>2, <2>3
<1>6. Bound' = Bound
  BY <1>1 DEF Bound, UidOf
<1>7. Values'
  BY <1>1, <1>6 DEF Intact, Values
<1>8. Counts'
  BY <1>1, <1>6 DEF Intact, Counts
<1>9. Written'
  BY <1>1 DEF Intact, Written
<1>10. Waiting'
  <2>1. \A q \in cursor' + 1 .. tail': q \in cursor + 1 .. tail
    BY <1>0, <1>1
  <2>2. QED
    BY <1>1, <2>1 DEF Intact, Waiting
<1>11. QED
  BY <1>4, <1>5, <1>7, <1>8, <1>9, <1>10 DEF Intact

(* A taker that is alone and finds the ring empty owns nothing. *)
LEMMA AdvanceFails ==
    ASSUME TypeOK, TypeOK', Window, Behind, Intact, [Next]_vars, NEW t \in Taker, Advance(t),
           Alone, cursor = tail
    PROVE  Intact'
<1>1. /\ UNCHANGED ring /\ times' = times /\ pad' = pad /\ lastSecond' = lastSecond
      /\ cursor' = cursor
  BY DEF Advance, ring
<1>2. /\ take'[t].at = "trigger" /\ take'[t].next = cursor /\ take'[t].cur = take[t].cur
      /\ take[t].cur = cursor /\ \A v \in Taker: v = t
  BY <1>1 DEF Advance, TypeOK, Behind, Alone
<1>3. \A v \in Taker: ~Owner(v)'
  BY <1>2 DEF Owner
<1>4. ASSUME NEW v \in Taker, Owner(v), Cleared'
      PROVE  tail + 1 < take[v].next + Size
  BY <1>1, <1>4 DEF Intact, Owned, Cleared
<1>5. pad'.at \in {"mark", "tail"} => pad' = pad /\ lastSecond' = lastSecond
  BY <1>1
<1>6. QED
  BY <1>1, <1>3, <1>4, <1>5, BoundStep, RingStays

(* What a taker has read of the cursor stays behind it. *)
LEMMA BehindStep ==
    ASSUME TypeOK, Behind, [Next]_vars
    PROVE  Behind'
<1>0. cursor \in Int /\ \A t \in Taker: take[t].cur \in Int
  BY DEF TypeOK
<1>1. ASSUME NEW t \in Taker, TakeStart(t) PROVE Behind'
  <2>1. cursor' = cursor /\ take'[t].cur = cursor /\ \A v \in Taker: v # t => take'[v] = take[v]
    BY <1>1 DEF TakeStart, TypeOK, ring
  <2>2. QED
    BY <1>0, <2>1 DEF Behind
<1>2. ASSUME NEW t \in Taker, Advance(t) PROVE Behind'
  <2>1. /\ take'[t].at = "trigger" /\ \A v \in Taker: v # t => take'[v] = take[v]
        /\ cursor' \in Int /\ cursor =< cursor'
    BY <1>0, <1>2 DEF Advance, TypeOK
  <2>2. ASSUME NEW v \in Taker, take'[v].at = "advance"
        PROVE  take'[v].cur =< cursor' /\ (Alone => take'[v].cur = cursor')
    <3>1. v # t /\ take'[v] = take[v] /\ ~Alone
      BY <2>1, <2>2 DEF Alone
    <3>2. QED
      BY <1>0, <2>1, <2>2, <3>1 DEF Behind
  <2>3. QED
    BY <2>2 DEF Behind
<1>3. ASSUME NEW t \in Taker, Trigger(t) \/ CheckTake(t) \/ ReadSlot(t) \/ FreeSlot(t)
      PROVE  Behind'
  <2>1. cursor' = cursor /\ take'[t].at # "advance"
    BY <1>3 DEF Trigger, CheckTake, ReadSlot, FreeSlot, Out, TypeOK, ring
  <2>2. \A v \in Taker: v # t => take'[v] = take[v]
    BY <1>3 DEF Trigger, CheckTake, ReadSlot, FreeSlot, Out, TypeOK
  <2>3. QED
    BY <2>1, <2>2 DEF Behind
<1>4. CASE cursor' = cursor /\ take' = take
  BY <1>4 DEF Behind
<1>5. QED
  BY <1>1, <1>2, <1>3, <1>4
     DEF Next, Take, PadStart, Padding, NextSecond, CheckRoom, CheckPut, WriteSlot, MarkSlot,
         PublishTail, PadEnd, ScheduleTick, Shutdown, ring, vars

-----------------------------------------------------------------------------
(* Two owners have different slots, and neither is that of a waiting sequence  *)
(* or of the one being put.                                                    *)
LEMMA OwnersApart ==
    ASSUME TypeOK, Window, Intact, NEW t \in Taker, Owner(t)
    PROVE  /\ take[t].next \in Nat /\ tail \in Nat /\ cursor \in Nat
           /\ Index(take[t].next) \in Slot
           /\ \A v \in Taker: v # t /\ Owner(v) => Index(take[v].next) # Index(take[t].next)
           /\ \A q \in cursor + 1 .. tail: Index(q) # Index(take[t].next)
           /\ Cleared => Index(tail + 1) # Index(take[t].next)
<1>0. /\ Size \in Nat /\ cursor \in Int /\ tail \in Int /\ cursor >= -1 /\ cursor =< tail
      /\ \A v \in Taker: take[v].next \in Int
  BY SizeAssumption DEF TypeOK, Window, WindowFits
<1>1. /\ take[t].next \in 0 .. cursor /\ tail < take[t].next + Size
      /\ Cleared => tail + 1 < take[t].next + Size
  BY DEF Intact, Owned
<1>2. take[t].next \in Nat /\ tail \in Nat /\ cursor \in Nat
  BY <1>0, <1>1
<1>3. ASSUME NEW v \in Taker, v # t, Owner(v)
      PROVE  Index(take[v].next) # Index(take[t].next)
  <2>1. take[v].next \in 0 .. cursor /\ tail < take[v].next + Size
    BY <1>3 DEF Intact, Owned
  <2>2. take[v].next # take[t].next
    BY <1>3 DEF Intact, Apart
  <2>3. CASE take[v].next < take[t].next
    BY <1>0, <1>1, <1>2, <2>1, <2>3, IndexApart
  <2>4. CASE take[t].next < take[v].next
    BY <1>0, <1>1, <1>2, <2>1, <2>4, IndexApart
  <2>5. QED
    BY <1>0, <2>2, <2>3, <2>4
<1>4. ASSUME NEW q \in cursor + 1 .. tail PROVE Index(q) # Index(take[t].next)
  <2>1. q \in Nat /\ take[t].next < q /\ q - take[t].next < Size
    BY <1>0, <1>1, <1>2
  <2>2. QED
    BY <1>2, <2>1, IndexApart
<1>5. ASSUME Cleared PROVE Index(tail + 1) # Index(take[t].next)
  <2>1. tail + 1 \in Nat /\ take[t].next < tail + 1 /\ (tail + 1) - take[t].next < Size
    BY <1>0, <1>1, <1>2, <1>5
  <2>2. QED
    BY <1>2, <2>1, IndexApart
<1>6. Index(take[t].next) \in Slot
  BY <1>2, IndexType
<1>7. QED
  BY <1>2, <1>3, <1>4, <1>5, <1>6

(* The UID a taker returns was returned by nobody before, and leaves the ring. *)
LEMMA FreeKeeps ==
    ASSUME TypeOK, Window, Intact, NEW t \in Taker, FreeSlot(t)
    PROVE  Intact'
<1> DEFINE i == Index(take[t].next)
           u == take[t].uid
<1>1. /\ take[t].at = "free" /\ Owner(t)
      /\ cursor' = cursor /\ tail' = tail /\ slots' = slots
      /\ pad' = pad /\ lastSecond' = lastSecond
      /\ canTake' = [canTake EXCEPT ![i] = FALSE]
      /\ times' = [times EXCEPT ![u] = @ + 1]
  BY DEF FreeSlot, Owner
<1>2. /\ take'[t].at = "out"
      /\ \A v \in Taker: v # t => take'[v] = take[v]
  BY DEF FreeSlot, Out, TypeOK
<1>3. /\ i \in Slot
      /\ \A v \in Taker: v # t /\ Owner(v) => Index(take[v].next) # i
      /\ \A q \in cursor + 1 .. tail: Index(q) # i
      /\ Cleared => Index(tail + 1) # i
      /\ cursor \in Nat /\ tail \in Nat
  BY <1>1, OwnersApart
<1>4. canTake[i] /\ u = slots[i] /\ u \in Uid
  BY <1>1 DEF Intact, Owned, TypeOK
<1>5. u > 0 /\ times[u] = 0 /\ u < Bound
  BY <1>3, <1>4 DEF Intact, Values
<1>6. \A j \in Slot: j # i => slots[j] # u /\ canTake'[j] = canTake[j]
  <2>1. \A j \in Slot: j # i /\ slots[j] = slots[i] => slots[j] = 0
    BY <1>3 DEF Intact, Values
  <2>2. u # 0
    BY <1>4, <1>5 DEF Uid
  <2>3. \A j \in Slot: j # i => canTake'[j] = canTake[j]
    BY <1>1 DEF TypeOK
  <2>4. QED
    BY <1>4, <2>1, <2>2, <2>3
<1>7. /\ times'[u] = 1 /\ canTake'[i] = FALSE
      /\ \A x \in Uid: x # u => times'[x] = times[x]
  BY <1>1, <1>3, <1>4, <1>5 DEF TypeOK
<1>8. Bound' = Bound
  BY <1>1 DEF Bound, UidOf
<1>9. \A j \in Slot: slots[j] \in Uid
  BY DEF TypeOK
<1> HIDE DEF i, u
<1>10. ASSUME NEW v \in Taker PROVE Owned(v)'
  <2>1. CASE v = t
    BY <1>2, <2>1 DEF Owned, Owner
  <2>2. CASE v # t /\ Owner(v)
    <3>1. Index(take[v].next) \in Slot /\ Index(take[v].next) # i
      BY <1>3, <2>2, OwnersApart
    <3>2. canTake'[Index(take[v].next)] = canTake[Index(take[v].next)]
      BY <1>6, <3>1
    <3>3. (Cleared' <=> Cleared) /\ take'[v] = take[v] /\ Owned(v)
      BY <1>1, <1>2, <2>2 DEF Cleared, Intact
    <3>4. QED
      BY <1>1, <2>2, <3>2, <3>3 DEF Owned
  <2>3. CASE v # t /\ ~Owner(v)
    BY <1>2, <2>3 DEF Owned, Owner
  <2>4. QED
    BY <2>1, <2>2, <2>3
<1>11. Apart'
  <2> SUFFICES ASSUME NEW v \in Taker, NEW w \in Taker, v # w, Owner(v)', Owner(w)'
               PROVE  take'[v].next # take'[w].next
    BY DEF Apart
  <2>1. v # t /\ w # t
    BY <1>2 DEF Owner
  <2>2. QED
    BY <1>2, <2>1 DEF Intact, Apart, Owner
<1>12. Values'
  <2>1. \A j \in Slot: canTake'[j] => slots'[j] > 0 /\ times'[slots'[j]] = 0
    BY <1>1, <1>6, <1>7, <1>9 DEF Intact, Values
  <2>2. QED
    BY <1>1, <1>8, <2>1 DEF Intact, Values
<1>13. Counts'
  <2>1. times'[0] = 0
    <3>1. 0 \in Uid /\ u # 0
      BY <1>4, <1>5, ZeroUid DEF Uid
    <3>2. QED
      BY <1>7, <3>1 DEF Intact, Counts
  <2>2. ASSUME NEW x \in Uid PROVE times'[x] =< 1 /\ (x >= Bound' => times'[x] = 0)
    <3>1. CASE x = u
      <4>1. ~(x >= Bound)
        BY <1>4, <1>5, <3>1, BoundType DEF Uid
      <4>2. QED
        BY <1>7, <1>8, <3>1, <4>1
    <3>2. CASE x # u
      BY <1>7, <1>8, <3>2 DEF Intact, Counts
    <3>3. QED
      BY <3>1, <3>2
  <2>3. QED
    BY <2>1, <2>2 DEF Counts
<1>14. Written'
  <2>1. ASSUME pad.at \in {"mark", "tail"} PROVE times'[slots[Index(tail + 1)]] = 0
    <3>1. Index(tail + 1) \in Slot /\ Index(tail + 1) # i
      BY <1>3, <2>1, IndexType DEF Cleared
    <3>2. slots[Index(tail + 1)] # u /\ slots[Index(tail + 1)] \in Uid
      BY <1>6, <1>9, <3>1
    <3>3. QED
      BY <1>7, <2>1, <3>2 DEF Intact, Written
  <2>2. ASSUME pad.at = "tail" PROVE canTake'[Index(tail + 1)]
    <3>1. Index(tail + 1) \in Slot /\ Index(tail + 1) # i
      BY <1>3, <2>2, IndexType DEF Cleared
    <3>2. QED
      BY <1>6, <2>2, <3>1 DEF Intact, Written
  <2>3. QED
    BY <1>1, <2>1, <2>2 DEF Intact, Written, UidOf
<1>15. Waiting'
  <2>1. ASSUME NEW q \in cursor + 1 .. tail PROVE canTake'[Index(q)]
    <3>1. Index(q) \in Slot /\ Index(q) # i
      BY <1>3, IndexType
    <3>2. QED
      BY <1>6, <3>1 DEF Intact, Waiting
  <2>2. QED
    BY <1>1, <2>1 DEF Intact, Waiting
<1>16. QED
  BY <1>10, <1>11, <1>12, <1>13, <1>14, <1>15 DEF Intact

-----------------------------------------------------------------------------
(* The UID written is new, and its slot neither a taker's nor a waiting one.   *)
LEMMA WriteKeeps ==
    ASSUME TypeOK, Window, Intact, WriteSlot
    PROVE  Intact'
<1> DEFINE s == Index(tail + 1)
           w == UidOf(lastSecond, pad.offset)
<1>0. /\ Size \in Nat /\ cursor \in Int /\ tail \in Int /\ cursor >= -1 /\ tail >= -1
      /\ tail + 1 \in Nat
  BY SizeAssumption DEF TypeOK
<1>1. /\ pad.at = "slot" /\ pad'.at = "mark" /\ pad'.offset = pad.offset
      /\ cursor' = cursor /\ tail' = tail /\ canTake' = canTake /\ take' = take
      /\ lastSecond' = lastSecond /\ times' = times
      /\ slots' = [slots EXCEPT ![s] = w]
  BY DEF WriteSlot, PadGoto, TypeOK
<1>2. s \in Slot
  BY <1>0, IndexType
<1>3. w \in Uid /\ w > 0
  <2>1. lastSecond \in 0 .. MaxSecond /\ pad.offset \in 0 .. PerSecond - 1 /\ lastSecond >= 1
    BY <1>1 DEF TypeOK, Window, Putting
  <2>2. QED
    BY <2>1, UidOrder
<1>4. Bound = w /\ Bound' = w + 1
  BY <1>1 DEF Bound, UidOf
<1>5. /\ slots'[s] = w
      /\ \A j \in Slot: j # s => slots'[j] = slots[j]
      /\ \A j \in Slot: slots[j] \in Uid /\ slots[j] < w
  <2>1. \A j \in Slot: slots[j] < Bound
    BY DEF Intact, Values
  <2>2. QED
    BY <1>1, <1>2, <1>4, <2>1 DEF TypeOK
<1>6. Cleared /\ Cleared'
  BY <1>1 DEF Cleared
<1>7. times[w] = 0
  BY <1>3, <1>4 DEF Intact, Counts, Uid
<1> HIDE DEF s, w
<1>8. ASSUME NEW v \in Taker PROVE Owned(v)'
  <2>1. CASE Owner(v)
    <3>1. Index(take[v].next) \in Slot /\ Index(take[v].next) # s
      BY <1>6, <2>1, OwnersApart DEF s
    <3>2. slots'[Index(take[v].next)] = slots[Index(take[v].next)]
      BY <1>5, <3>1
    <3>3. QED
      BY <1>1, <1>6, <2>1, <3>2 DEF Intact, Owned
  <2>2. CASE ~Owner(v)
    BY <1>1, <2>2 DEF Owned, Owner
  <2>3. QED
    BY <2>1, <2>2
<1>9. Apart'
  BY <1>1 DEF Intact, Apart, Owner
<1>10. Values'
  <2>1. ASSUME NEW j \in Slot PROVE slots'[j] < Bound'
    BY <1>3, <1>4, <1>5 DEF Uid
  <2>2. ASSUME NEW j \in Slot, canTake'[j] PROVE slots'[j] > 0 /\ times'[slots'[j]] = 0
    <3>1. CASE j = s
      BY <1>1, <1>3, <1>5, <1>7, <3>1
    <3>2. CASE j # s
      BY <1>1, <1>5, <2>2, <3>2 DEF Intact, Values
    <3>3. QED
      BY <3>1, <3>2
  <2>3. ASSUME NEW j \in Slot, NEW k \in Slot, j # k, slots'[j] = slots'[k]
        PROVE  slots'[j] = 0
    <3>1. \A x \in Slot: slots[x] # w
      BY <1>3, <1>5 DEF Uid
    <3>2. j # s /\ k # s
      BY <1>5, <2>3, <3>1
    <3>3. QED
      BY <1>5, <2>3, <3>2 DEF Intact, Values
  <2>4. QED
    BY <2>1, <2>2, <2>3 DEF Values
<1>11. Counts'
  <2>1. \A x \in Uid: x >= Bound' => x >= Bound
    BY <1>3, <1>4 DEF Uid
  <2>2. QED
    BY <1>1, <2>1 DEF Intact, Counts
<1>12. Written'
  BY <1>1, <1>5, <1>7 DEF Written, UidOf, s, w
<1>13. Waiting'
  <2>1. ASSUME NEW q \in cursor + 1 .. tail PROVE Index(q) \in Slot /\ Index(q) # s
    <3>1. tail - (IF cursor = -1 THEN 0 ELSE cursor) =< Size - 2
      BY <1>1 DEF Window, Putting
    <3>2. q \in Nat /\ q < tail + 1 /\ (tail + 1) - q < Size
      BY <1>0, <3>1
    <3>3. QED
      BY <1>0, <3>2, IndexApart, IndexType DEF s
  <2>2. ASSUME NEW q \in cursor + 1 .. tail
        PROVE  /\ canTake[Index(q)]
               /\ q < tail => slots'[Index(q)] < slots'[Index(q + 1)]
    <3>1. canTake[Index(q)] /\ (q < tail => slots[Index(q)] < slots[Index(q + 1)])
      BY DEF Intact, Waiting
    <3>2. q < tail => q + 1 \in cursor + 1 .. tail
      BY <1>0
    <3>3. QED
      BY <1>5, <2>1, <3>1, <3>2
  <2>3. QED
    BY <1>1, <2>2 DEF Waiting
<1>14. QED
  BY <1>8, <1>9, <1>10, <1>11, <1>12, <1>13 DEF Intact

(* What is marked is what was written. *)
LEMMA MarkKeeps ==
    ASSUME TypeOK, Window, Intact, MarkSlot
    PROVE  Intact'
<1> DEFINE s == Index(tail + 1)
<1>1. /\ pad.at = "mark" /\ pad'.at = "tail" /\ pad'.offset = pad.offset
      /\ cursor' = cursor /\ tail' = tail /\ slots' = slots /\ take' = take
      /\ lastSecond' = lastSecond /\ times' = times
      /\ canTake' = [canTake EXCEPT ![s] = TRUE]
  BY DEF MarkSlot, PadGoto, TypeOK
<1>2. tail + 1 \in Nat /\ s \in Slot
  BY IndexType DEF TypeOK
<1>3. canTake'[s] /\ \A j \in Slot: canTake'[j] <=> (j = s \/ canTake[j])
  BY <1>1, <1>2 DEF TypeOK
<1>4. slots[s] > 0 /\ times[slots[s]] = 0
  <2>1. lastSecond \in 0 .. MaxSecond /\ pad.offset \in 0 .. PerSecond - 1 /\ lastSecond >= 1
    BY <1>1 DEF TypeOK, Window, Putting
  <2>2. slots[s] = UidOf(lastSecond, pad.offset) /\ times[slots[s]] = 0
    BY <1>1 DEF Intact, Written
  <2>3. QED
    BY <2>1, <2>2, UidOrder
<1>5. Bound' = Bound /\ Cleared /\ Cleared'
  BY <1>1 DEF Bound, UidOf, Cleared
<1> HIDE DEF s
<1>6. ASSUME NEW v \in Taker PROVE Owned(v)'
  <2>1. CASE Owner(v)
    <3>1. Index(take[v].next) \in Slot
      BY <2>1, OwnersApart
    <3>2. QED
      BY <1>1, <1>3, <1>5, <2>1, <3>1 DEF Intact, Owned
  <2>2. CASE ~Owner(v)
    BY <1>1, <2>2 DEF Owned, Owner
  <2>3. QED
    BY <2>1, <2>2
<1>7. Apart'
  BY <1>1 DEF Intact, Apart, Owner
<1>8. Values'
  <2>1. ASSUME NEW j \in Slot, canTake'[j] PROVE slots[j] > 0 /\ times[slots[j]] = 0
    <3>1. CASE j = s
      BY <1>4, <3>1
    <3>2. CASE canTake[j]
      BY <3>2 DEF Intact, Values
    <3>3. QED
      BY <1>3, <2>1, <3>1, <3>2
  <2>2. QED
    BY <1>1, <1>5, <2>1 DEF Intact, Values
<1>9. Counts'
  BY <1>1, <1>5 DEF Intact, Counts
<1>10. Written'
  BY <1>1, <1>3 DEF Intact, Written, UidOf, s
<1>11. Waiting'
  <2>1. ASSUME NEW q \in cursor + 1 .. tail PROVE canTake'[Index(q)]
    <3>1. q \in Nat
      BY DEF TypeOK
    <3>2. QED
      BY <1>3, <3>1, IndexType DEF Intact, Waiting
  <2>2. QED
    BY <1>1, <2>1 DEF Intact, Waiting
<1>12. QED
  BY <1>6, <1>7, <1>8, <1>9, <1>10, <1>11 DEF Intact

(* The sequence published is the largest waiting one, with the largest UID.    *)
LEMMA PublishKeeps ==
    ASSUME TypeOK, TypeOK', Window, Intact, PublishTail
    PROVE  Intact'
<1> DEFINE s == Index(tail + 1)
           w == UidOf(lastSecond, pad.offset)
<1>0. /\ Size \in Nat /\ Size >= 2 /\ cursor \in Int /\ tail \in Int /\ cursor >= -1
      /\ tail >= -1 /\ tail + 1 \in Nat /\ s \in Slot
  BY SizeAssumption, IndexType DEF TypeOK
<1>1. /\ pad.at = "tail" /\ pad'.at \in {"second", "room"}
      /\ cursor' = cursor /\ tail' = tail + 1 /\ slots' = slots /\ take' = take
      /\ canTake' = canTake /\ times' = times
  BY DEF PublishTail
<1>2. Bound' \in Int /\ Bound \in Int /\ Bound =< Bound'
  BY BoundStep DEF Next, Padding
<1>3. w \in Uid /\ w > 0
  <2>1. lastSecond \in 0 .. MaxSecond /\ pad.offset \in 0 .. PerSecond - 1 /\ lastSecond >= 1
    BY <1>1 DEF TypeOK, Window, Putting
  <2>2. QED
    BY <2>1, UidOrder
<1>4. Bound = w + 1 /\ slots[s] = w /\ canTake[s]
  BY <1>1 DEF Bound, Intact, Written
<1>5. Cleared /\ ~Cleared'
  BY <1>1 DEF Cleared
<1>6. \A j \in Slot: slots[j] \in Uid
  BY DEF TypeOK
<1> HIDE DEF s, w
<1>7. ASSUME NEW v \in Taker PROVE Owned(v)'
  <2>1. CASE Owner(v)
    BY <1>0, <1>1, <1>5, <2>1 DEF Intact, Owned
  <2>2. CASE ~Owner(v)
    BY <1>1, <2>2 DEF Owned, Owner
  <2>3. QED
    BY <2>1, <2>2
<1>8. Apart'
  BY <1>1 DEF Intact, Apart, Owner
<1>9. Values'
  <2>1. \A j \in Slot: slots'[j] < Bound'
    <3>1. \A j \in Slot: slots[j] < Bound /\ slots[j] \in Int
      BY <1>6 DEF Intact, Values, Uid
    <3>2. QED
      BY <1>1, <1>2, <3>1
  <2>2. QED
    BY <1>1, <2>1 DEF Intact, Values
<1>10. Counts'
  <2>1. \A x \in Uid: x >= Bound' => x >= Bound
    BY <1>2 DEF Uid
  <2>2. QED
    BY <1>1, <2>1 DEF Intact, Counts
<1>11. Written'
  BY <1>1 DEF Written
<1>12. ASSUME NEW q \in cursor + 1 .. tail + 1
       PROVE  /\ canTake[Index(q)]
              /\ q < tail + 1 => slots[Index(q)] < slots[Index(q + 1)]
  <2>1. CASE q < tail
    BY <1>0, <2>1 DEF Intact, Waiting
  <2>2. CASE q = tail
    <3>1. q \in cursor + 1 .. tail /\ q \in Nat
      BY <1>0, <2>2
    <3>2. canTake[Index(q)]
      BY <3>1 DEF Intact, Waiting
    <3>3. Index(q) \in Slot /\ Index(q) # s
      BY <1>0, <2>2, <3>1, IndexType, IndexApart DEF s
    <3>4. slots[Index(q)] # w
      BY <1>0, <1>3, <1>4, <3>3 DEF Intact, Values
    <3>5. slots[Index(q)] < w + 1 /\ slots[Index(q)] \in Int /\ w \in Int
      BY <1>3, <1>4, <1>6, <3>3 DEF Intact, Values, Uid
    <3>6. slots[Index(q)] < w
      BY <3>4, <3>5
    <3>7. QED
      BY <1>4, <2>2, <3>2, <3>6 DEF s
  <2>3. CASE q = tail + 1
    BY <1>0, <1>4, <2>3 DEF s
  <2>4. QED
    BY <1>0, <2>1, <2>2, <2>3
<1>13. Waiting'
  BY <1>1, <1>12 DEF Waiting
<1>14. QED
  BY <1>7, <1>8, <1>9, <1>10, <1>11, <1>13 DEF Intact

-----------------------------------------------------------------------------
LEMMA RingStart == Init => RingInv
<1> SUFFICES ASSUME Init PROVE RingInv
  OBVIOUS
<1>0. /\ Size \in Nat /\ Size >= 2 /\ PerSecond \in Nat /\ PerSecond >= 1
      /\ MaxSecond \in Nat /\ MaxQueued \in Nat /\ MaxQueued >= 1 /\ 0 \in Uid
  BY ZeroUid, SizeAssumption, PerSecondAssumption, MaxSecondAssumption, MaxQueuedAssumption
<1>1. TypeOK
  <2>1. take \in [Taker -> [at: TakeAt, cur: Int, next: Int, uid: Uid]]
    BY <1>0 DEF Init, TakeAt
  <2>2. pad \in [at: PadAt, offset: 0 .. PerSecond - 1]
    BY <1>0 DEF Init, PadAt
  <2>3. slots \in [Slot -> Uid] /\ canTake \in [Slot -> BOOLEAN] /\ times \in [Uid -> Nat]
    BY <1>0 DEF Init
  <2>4. cursor \in Int /\ cursor >= -1 /\ tail \in Int /\ tail >= -1
    BY DEF Init
  <2>5. lastSecond \in 0 .. MaxSecond /\ tasks \in 0 .. MaxQueued
    BY <1>0 DEF Init
  <2>6. pool \in {"starting", "up", "down"} /\ drained \in BOOLEAN
    BY DEF Init
  <2>7. QED
    BY <2>1, <2>2, <2>3, <2>4, <2>5, <2>6 DEF TypeOK
<1>2. Window
  BY <1>0 DEF Init, Window, WindowFits, Putting
<1>3. Bound = PerSecond
  <2>1. (0 + 1) * PerSecond + 0 = PerSecond
    BY <1>0
  <2>2. QED
    BY <2>1 DEF Init, Bound, UidOf
<1>4. \A t \in Taker: Owned(t)
  BY DEF Init, Owned, Owner
<1>5. Apart
  BY DEF Init, Apart, Owner
<1>6. Values
  BY <1>0, <1>3 DEF Init, Values
<1>7. Counts
  BY <1>0 DEF Init, Counts
<1>8. Written
  BY DEF Init, Written
<1>9. Waiting
  <2>1. cursor + 1 .. tail = {}
    BY DEF Init
  <2>2. QED
    BY <2>1 DEF Waiting
<1>10. Behind
  BY DEF Init, Behind
<1>11. QED
  BY <1>1, <1>2, <1>4, <1>5, <1>6, <1>7, <1>8, <1>9, <1>10 DEF RingInv, Intact

LEMMA RingStep == RingInv /\ [Next]_vars => RingInv'
<1> SUFFICES ASSUME RingInv, [Next]_vars PROVE RingInv'
  OBVIOUS
<1>1. TypeOK' /\ Window' /\ TypeOK /\ Window /\ Behind /\ Behind'
  BY TypeStep, WindowStep, BehindStep DEF RingInv
<1>2. drained => drained'
  BY DEF Next, Take, TakeStart, Advance, Trigger, CheckTake, ReadSlot, FreeSlot, PadStart,
         Padding, NextSecond, CheckRoom, CheckPut, WriteSlot, MarkSlot, PublishTail, PadEnd,
         ScheduleTick, Shutdown, vars
<1>3. ASSUME ~drained' \/ Alone PROVE Intact'
  <2>1. Intact
    BY <1>2, <1>3 DEF RingInv
  <2>2. ASSUME NEW t \in Taker, Advance(t) PROVE Intact'
    <3>1. CASE cursor # tail
      BY <1>1, <2>1, <2>2, <3>1, AdvanceOwns
    <3>2. CASE cursor = tail
      <4>1. Alone
        BY <1>3, <2>2, <3>2 DEF Advance
      <4>2. QED
        BY <1>1, <2>1, <2>2, <3>2, <4>1, AdvanceFails
    <3>3. QED
      BY <3>1, <3>2
  <2>3. ASSUME NEW t \in Taker, Take(t) PROVE Intact'
    BY <1>1, <2>1, <2>2, <2>3, TakerReads, FreeKeeps DEF Take
  <2>4. CASE WriteSlot
    BY <1>1, <2>1, <2>4, WriteKeeps
  <2>5. CASE MarkSlot
    BY <1>1, <2>1, <2>5, MarkKeeps
  <2>6. CASE PublishTail
    BY <1>1, <2>1, <2>6, PublishKeeps
  <2>7. CASE \/ PadStart \/ NextSecond \/ CheckRoom \/ CheckPut \/ PadEnd
             \/ ScheduleTick \/ Shutdown \/ UNCHANGED vars
    BY <1>1, <2>1, <2>7, PaddingReads
  <2>8. QED
    BY <2>3, <2>4, <2>5, <2>6, <2>7 DEF Next, Padding
<1>4. QED
  BY <1>1, <1>3 DEF RingInv

-----------------------------------------------------------------------------
(* The variables keep their types, for any number of takers, size of the ring, *)
(* UIDs of a second and threshold.                                             *)
THEOREM TypeCorrect == Spec => []TypeOK
<1>1. Init => RingInv
  BY RingStart
<1>2. RingInv => TypeOK
  BY DEF RingInv
<1>3. QED
  BY <1>1, <1>2, RingStep, PTL DEF Spec

(* RingBuffer.put never comes round to the cursor: its check of the room, made *)
(* before the flag, the slot and the tail are touched, is enough, although     *)
(* takers move the cursor meanwhile.                                           *)
THEOREM WindowSafe == Spec => []WindowFits
<1>1. Init => RingInv
  BY RingStart
<1>2. RingInv => WindowFits
  BY DEF RingInv, Window
<1>3. QED
  BY <1>1, <1>2, RingStep, PTL DEF Spec

(* Until a take has met an empty ring, RingBuffer.take returns no UID twice,   *)
(* and none that was never put.                                                *)
THEOREM UniqueSafe == Spec => []UniqueUntilDrained
<1>1. Init => RingInv
  BY RingStart
<1>2. RingInv => UniqueUntilDrained
  BY DEF RingInv, Intact, Counts, UniqueUntilDrained, UniqueUid
<1>3. QED
  BY <1>1, <1>2, RingStep, PTL DEF Spec

(* Until then, the flag assertion of RingBuffer.take holds, and a taker reads  *)
(* the UID that was put at its sequence.                                       *)
THEOREM ReadSafe == Spec => []NeverMisreads
<1>1. Init => RingInv
  BY RingStart
<1>2. RingInv => NeverMisreads
  BY DEF RingInv, Intact, Owned, Owner, NeverMisreads
<1>3. QED
  BY <1>1, <1>2, RingStep, PTL DEF Spec

(* Until then, the UIDs waiting between cursor and tail increase (RingBuffer   *)
(* put, BufferPaddingExecutor.paddingBuffer).                                  *)
THEOREM OrderSafe == Spec => []WaitingAreOrdered
<1>1. Init => RingInv
  BY RingStart
<1>2. RingInv => WaitingAreOrdered
  BY DEF RingInv, Intact, Waiting, WaitingAreOrdered
<1>3. QED
  BY <1>1, <1>2, RingStep, PTL DEF Spec

-----------------------------------------------------------------------------
(* The order of one taker *)

(* The UIDs waiting increase with their sequences. *)
Chain ==
    \A p, q \in cursor + 1 .. tail: p < q => slots[Index(p)] < slots[Index(q)]

(* The UID at the sequence a taker owns comes before the ones waiting, *)
Later ==
    \A t \in Taker: Owner(t) =>
        \A q \in cursor + 1 .. tail: slots[Index(take[t].next)] < slots[Index(q)]

(* and the ones returned come before both. *)
Past ==
    \A u \in Uid: times[u] > 0 =>
        /\ \A q \in cursor + 1 .. tail: u < slots[Index(q)]
        /\ \A t \in Taker: Owner(t) => u < slots[Index(take[t].next)]

Line == Chain /\ Later /\ Past

LineInv == RingInv /\ Line

LEMMA LineStays ==
    ASSUME Line, cursor' = cursor, tail' = tail, slots' = slots, times' = times,
           \A t \in Taker: Owner(t)' => Owner(t) /\ take'[t].next = take[t].next
    PROVE  Line'
<1>1. Chain'
  BY DEF Line, Chain
<1>2. Later'
  BY DEF Line, Later
<1>3. Past'
  BY DEF Line, Past
<1>4. QED
  BY <1>1, <1>2, <1>3 DEF Line

LEMMA LineReads ==
    ASSUME RingInv, Alone, Line, [Next]_vars,
           \/ \E t \in Taker: TakeStart(t) \/ Trigger(t) \/ CheckTake(t) \/ ReadSlot(t)
           \/ \E t \in Taker: Advance(t) /\ cursor = tail
           \/ PadStart \/ NextSecond \/ CheckRoom \/ CheckPut \/ MarkSlot \/ PadEnd
           \/ ScheduleTick \/ Shutdown \/ UNCHANGED vars
    PROVE  Line'
<1>0. TypeOK /\ Behind
  BY DEF RingInv
<1>1. cursor' = cursor /\ tail' = tail /\ slots' = slots /\ times' = times
  BY DEF TakeStart, Advance, Trigger, CheckTake, ReadSlot, PadStart, NextSecond, CheckRoom,
         CheckPut, MarkSlot, PadEnd, ScheduleTick, Shutdown, ring, vars
<1>2. ASSUME NEW t \in Taker, TakeStart(t) \/ Trigger(t) \/ CheckTake(t) \/ ReadSlot(t)
      PROVE  \A v \in Taker: Owner(v)' => Owner(v) /\ take'[v].next = take[v].next
  <2>1. \A v \in Taker: v = t
    BY DEF Alone
  <2>2. \/ take'[t].at \in {"out", "advance"}
        \/ Owner(t) /\ take'[t].next = take[t].next
    BY <1>0, <1>2 DEF TakeStart, Trigger, CheckTake, ReadSlot, Out, TypeOK, Owner
  <2>3. QED
    BY <2>1, <2>2 DEF Owner
<1>3. ASSUME NEW t \in Taker, Advance(t), cursor = tail
      PROVE  \A v \in Taker: ~Owner(v)'
  <2>1. /\ take'[t].at = "trigger" /\ take'[t].next = cursor /\ take'[t].cur = take[t].cur
        /\ take[t].cur = cursor /\ \A v \in Taker: v = t
    BY <1>0, <1>3 DEF Advance, TypeOK, Behind, Alone
  <2>2. QED
    BY <2>1 DEF Owner
<1>4. CASE take' = take
  BY <1>1, <1>4, LineStays DEF Owner
<1>5. QED
  BY <1>1, <1>2, <1>3, <1>4, LineStays
     DEF PadStart, NextSecond, CheckRoom, CheckPut, MarkSlot, PadEnd, ScheduleTick, Shutdown,
         vars

LEMMA LineAdvance ==
    ASSUME RingInv, Alone, Line, NEW t \in Taker, Advance(t), cursor # tail
    PROVE  Line'
<1>0. /\ cursor \in Int /\ tail \in Int /\ cursor < tail
      /\ \A i \in Slot: slots[i] \in Int
  BY DEF RingInv, TypeOK, Window, WindowFits, Uid
<1>1. /\ cursor' = cursor + 1 /\ tail' = tail /\ slots' = slots /\ times' = times
      /\ take'[t].next = cursor + 1 /\ \A v \in Taker: v = t
  BY DEF Advance, RingInv, TypeOK, Alone
<1>2. /\ cursor + 1 \in cursor + 1 .. tail
      /\ \A q \in cursor' + 1 .. tail': q \in cursor + 1 .. tail /\ cursor + 1 < q
  BY <1>0, <1>1
<1>3. Chain'
  BY <1>1, <1>2 DEF Line, Chain
<1>4. Later'
  BY <1>1, <1>2 DEF Line, Chain, Later
<1>5. Past'
  BY <1>1, <1>2 DEF Line, Past
<1>6. QED
  BY <1>3, <1>4, <1>5 DEF Line

LEMMA LineFree ==
    ASSUME RingInv, Alone, Line, NEW t \in Taker, FreeSlot(t)
    PROVE  Line'
<1>0. TypeOK /\ Intact
  BY DEF RingInv
<1>1. /\ cursor' = cursor /\ tail' = tail /\ slots' = slots
      /\ times' = [times EXCEPT ![take[t].uid] = @ + 1]
      /\ Owner(t) /\ take[t].uid = slots[Index(take[t].next)]
  BY <1>0 DEF FreeSlot, Intact, Owned, Owner
<1>2. take'[t].at = "out" /\ \A v \in Taker: v = t
  BY <1>0 DEF FreeSlot, Out, TypeOK, Alone
<1>3. \A v \in Taker: ~Owner(v)'
  BY <1>2 DEF Owner
<1>4. Chain'
  BY <1>1 DEF Line, Chain
<1>5. Later'
  BY <1>3 DEF Later
<1>6. ASSUME NEW u \in Uid, times'[u] > 0, NEW q \in cursor + 1 .. tail
      PROVE  u < slots[Index(q)]
  <2>1. CASE u = take[t].uid
    BY <1>1, <1>6, <2>1 DEF Line, Later
  <2>2. CASE u # take[t].uid
    <3>1. times[u] > 0
      BY <1>0, <1>1, <1>6, <2>2 DEF TypeOK
    <3>2. QED
      BY <1>6, <3>1 DEF Line, Past
  <2>3. QED
    BY <2>1, <2>2
<1>7. Past'
  BY <1>1, <1>3, <1>6 DEF Past
<1>8. QED
  BY <1>4, <1>5, <1>7 DEF Line

LEMMA LineWrite ==
    ASSUME RingInv, Alone, Line, WriteSlot
    PROVE  Line'
<1> DEFINE s == Index(tail + 1)
<1>0. /\ TypeOK /\ Window /\ Intact
      /\ Size \in Nat /\ cursor \in Int /\ tail \in Int /\ cursor >= -1 /\ tail >= -1
      /\ tail + 1 \in Nat
  BY SizeAssumption DEF RingInv, TypeOK
<1>1. /\ pad.at = "slot" /\ Cleared /\ cursor' = cursor /\ tail' = tail /\ take' = take
      /\ times' = times /\ slots' = [slots EXCEPT ![s] = UidOf(lastSecond, pad.offset)]
  BY DEF WriteSlot, Cleared
<1>2. \A j \in Slot: j # s => slots'[j] = slots[j]
  BY <1>0, <1>1 DEF TypeOK
<1>3. ASSUME NEW q \in cursor + 1 .. tail PROVE slots'[Index(q)] = slots[Index(q)]
  <2>1. tail - (IF cursor = -1 THEN 0 ELSE cursor) =< Size - 2
    BY <1>0, <1>1 DEF Window, Putting
  <2>2. q \in Nat /\ q < tail + 1 /\ (tail + 1) - q < Size
    BY <1>0, <2>1
  <2>3. Index(q) \in Slot /\ Index(q) # s
    BY <1>0, <2>2, IndexApart, IndexType
  <2>4. QED
    BY <1>2, <2>3
<1>4. ASSUME NEW t \in Taker, Owner(t)
      PROVE  slots'[Index(take[t].next)] = slots[Index(take[t].next)]
  <2>1. Index(take[t].next) \in Slot /\ Index(take[t].next) # s
    BY <1>0, <1>1, <1>4, OwnersApart
  <2>2. QED
    BY <1>2, <2>1
<1>5. \A t \in Taker: Owner(t)' <=> Owner(t)
  BY <1>1 DEF Owner
<1> HIDE DEF s
<1>6. Chain'
  BY <1>1, <1>3 DEF Line, Chain
<1>7. Later'
  BY <1>1, <1>3, <1>4, <1>5 DEF Line, Later
<1>8. Past'
  BY <1>1, <1>3, <1>4, <1>5 DEF Line, Past
<1>9. QED
  BY <1>6, <1>7, <1>8 DEF Line

(* The UID published is more than any in the ring and any returned. *)
LEMMA LinePublish ==
    ASSUME RingInv, Alone, Line, PublishTail
    PROVE  Line'
<1> DEFINE s == Index(tail + 1)
<1>0. /\ TypeOK /\ Window /\ Intact
      /\ Size \in Nat /\ cursor \in Int /\ tail \in Int /\ cursor >= -1 /\ tail >= -1
      /\ tail + 1 \in Nat
  BY SizeAssumption DEF RingInv, TypeOK
<1>1. /\ pad.at = "tail" /\ Cleared /\ cursor' = cursor /\ tail' = tail + 1 /\ take' = take
      /\ times' = times /\ slots' = slots
  BY DEF PublishTail, Cleared
<1>2. PICK w \in Uid: w = UidOf(lastSecond, pad.offset) /\ w > 0
  <2>1. lastSecond \in 0 .. MaxSecond /\ pad.offset \in 0 .. PerSecond - 1 /\ lastSecond >= 1
    BY <1>0, <1>1 DEF TypeOK, Window, Putting
  <2>2. QED
    BY <2>1, UidOrder
<1>3. Bound = w + 1 /\ slots[s] = w /\ times[w] = 0 /\ s \in Slot /\ w \in Int
  BY <1>0, <1>1, <1>2, IndexType DEF Bound, Intact, Written, Uid
<1>4. ASSUME NEW j \in Slot, j # s PROVE slots[j] < w
  <2>1. slots[j] \in Int /\ slots[j] < w + 1
    BY <1>0, <1>3 DEF Intact, Values, TypeOK, Uid
  <2>2. slots[j] # w
    BY <1>0, <1>2, <1>3, <1>4 DEF Intact, Values
  <2>3. QED
    BY <1>3, <2>1, <2>2
<1>5. ASSUME NEW u \in Uid, times[u] > 0 PROVE u < w
  <2>1. u \in Int /\ ~(u >= w + 1)
    BY <1>0, <1>3, <1>5 DEF Intact, Counts, Uid
  <2>2. u # w
    BY <1>3, <1>5
  <2>3. QED
    BY <1>3, <2>1, <2>2
<1>6. ASSUME NEW q \in cursor + 1 .. tail PROVE slots[Index(q)] < w
  <2>1. tail - (IF cursor = -1 THEN 0 ELSE cursor) =< Size - 2
    BY <1>0, <1>1 DEF Window, Putting
  <2>2. q \in Nat /\ q < tail + 1 /\ (tail + 1) - q < Size
    BY <1>0, <2>1
  <2>3. Index(q) \in Slot /\ Index(q) # s
    BY <1>0, <2>2, IndexApart, IndexType
  <2>4. QED
    BY <1>4, <2>3
<1>7. ASSUME NEW t \in Taker, Owner(t) PROVE slots[Index(take[t].next)] < w
  BY <1>0, <1>1, <1>4, <1>7, OwnersApart
<1>8. \A q \in cursor' + 1 .. tail': q \in cursor + 1 .. tail \/ q = tail + 1
  BY <1>0, <1>1
<1>9. \A t \in Taker: Owner(t)' <=> Owner(t)
  BY <1>1 DEF Owner
<1>10. slots[Index(tail + 1)] = w
  BY <1>3
<1> HIDE DEF s
<1>11. Chain'
  <2> SUFFICES ASSUME NEW p \in cursor' + 1 .. tail', NEW q \in cursor' + 1 .. tail', p < q
               PROVE  slots[Index(p)] < slots[Index(q)]
    BY <1>1 DEF Chain
  <2>1. CASE q \in cursor + 1 .. tail
    <3>1. p \in cursor + 1 .. tail
      BY <1>0, <1>1, <2>1
    <3>2. QED
      BY <2>1, <3>1 DEF Line, Chain
  <2>2. CASE q = tail + 1
    <3>1. p \in cursor + 1 .. tail
      BY <1>0, <1>1, <2>2
    <3>2. QED
      BY <1>6, <1>10, <2>2, <3>1
  <2>3. QED
    BY <1>8, <2>1, <2>2
<1>12. Later'
  <2> SUFFICES ASSUME NEW t \in Taker, Owner(t), NEW q \in cursor' + 1 .. tail'
               PROVE  slots[Index(take[t].next)] < slots[Index(q)]
    BY <1>1, <1>9 DEF Later
  <2>1. QED
    BY <1>7, <1>8, <1>10 DEF Line, Later
<1>13. Past'
  <2>1. ASSUME NEW u \in Uid, times[u] > 0, NEW q \in cursor' + 1 .. tail'
        PROVE  u < slots[Index(q)]
    BY <1>5, <1>8, <1>10, <2>1 DEF Line, Past
  <2>2. QED
    BY <1>1, <1>9, <2>1 DEF Line, Past
<1>14. QED
  BY <1>11, <1>12, <1>13 DEF Line

LEMMA LineStart == Init => LineInv
<1> SUFFICES ASSUME Init PROVE LineInv
  OBVIOUS
<1>1. cursor + 1 .. tail = {} /\ \A t \in Taker: ~Owner(t)
  BY DEF Init, Owner
<1>2. \A u \in Uid: times[u] = 0
  BY DEF Init
<1>3. Line
  BY <1>1, <1>2 DEF Line, Chain, Later, Past
<1>4. QED
  BY <1>3, RingStart DEF LineInv

LEMMA LineStep ==
    ASSUME Alone, LineInv, [Next]_vars
    PROVE  LineInv'
<1>1. RingInv' /\ RingInv /\ Line
  BY RingStep DEF LineInv
<1>2. ASSUME NEW t \in Taker, Take(t) PROVE Line'
  BY <1>1, <1>2, LineReads, LineAdvance, LineFree DEF Take
<1>3. CASE PadStart \/ Padding \/ ScheduleTick \/ Shutdown \/ UNCHANGED vars
  <2>1. Line'
    BY <1>1, <1>3, LineReads, LineWrite, LinePublish DEF Padding
  <2>2. QED
    BY <1>1, <2>1 DEF LineInv
<1>4. QED
  BY <1>1, <1>2, <1>3 DEF Next, LineInv

(* With one taker RingBuffer.take returns no UID twice, however often it finds *)
(* the ring empty and whatever the padding thread does meanwhile.              *)
THEOREM UniqueForOne ==
    ASSUME \A t, v \in Taker: t = v
    PROVE  Spec => []UniqueUid
<1>1. Init => RingInv
  BY RingStart
<1>2. RingInv => UniqueUid
  BY DEF RingInv, Alone, Intact, Counts, UniqueUid
<1>3. QED
  BY <1>1, <1>2, RingStep, PTL DEF Spec

(* With one taker the UIDs are returned in increasing order, across the        *)
(* seconds borrowed, the rounds of the ring and the takes that throw           *)
(* (RingBuffer.take, BufferPaddingExecutor.paddingBuffer).                     *)
THEOREM OrderForOne ==
    ASSUME \A t, v \in Taker: t = v
    PROVE  Spec => IssuedInOrder
<1>1. Alone
  BY DEF Alone
<1>2. LineInv /\ [Next]_vars => LineInv'
  BY <1>1, LineStep
<1>3. LineInv /\ [Next]_vars =>
         [\A u, v \in Uid: times'[u] > times[u] /\ v >= u => times[v] = 0]_vars
  <2> SUFFICES ASSUME LineInv, Next, NEW u \in Uid, NEW v \in Uid,
                      times'[u] > times[u], v >= u
               PROVE  times[v] = 0
    BY DEF vars
  <2>1. times \in [Uid -> Nat] /\ Intact /\ TypeOK /\ Line
    BY <1>1 DEF LineInv, RingInv, TypeOK
  <2>2. PICK t \in Taker: FreeSlot(t)
    <3>1. times' = times \/ \E t \in Taker: FreeSlot(t)
      BY DEF Next, Take, TakeStart, Advance, Trigger, CheckTake, ReadSlot, PadStart, Padding,
             NextSecond, CheckRoom, CheckPut, WriteSlot, MarkSlot, PublishTail, PadEnd,
             ScheduleTick, Shutdown
    <3>2. QED
      BY <2>1, <3>1
  <2>3. u = take[t].uid
    BY <2>1, <2>2 DEF FreeSlot
  <2>4. Owner(t) /\ take[t].uid = slots[Index(take[t].next)]
    BY <2>1, <2>2 DEF FreeSlot, Owner, Intact, Owned
  <2>5. times[v] > 0 => v < u
    BY <2>1, <2>3, <2>4 DEF Line, Past
  <2>6. times[v] \in Nat /\ u \in Int /\ v \in Int
    BY <2>1 DEF Uid
  <2>7. QED
    BY <2>5, <2>6
<1>4. QED
  BY <1>2, <1>3, LineStart, PTL DEF Spec, IssuedInOrder
=============================================================================
