--------------------------- MODULE LoadTest_proof ---------------------------
(***************************************************************************)
(* Proofs about the clients, their codec and what they are handed, for any *)
(* contents, timestamps, traffic, nodes, users and scripts.                *)
(***************************************************************************)
EXTENDS LoadTest, Induction, SequenceTheorems

-----------------------------------------------------------------------------
(* An int64 as a JavaScript number *)

(* The distance of the doubles around m: one of them fits. *)
LEMMA SpacingIs ==
    ASSUME NEW m \in Nat, m =< 1024 * Exact
    PROVE  /\ Spacing(m) \in Spacings
           /\ m =< Exact * Spacing(m)
           /\ Spacing(m) = 1 \/ Exact * Spacing(m) < 2 * m
<1> DEFINE Fits(s) == m =< Exact * s /\ (s = 1 \/ Exact * s < 2 * m)
<1>1. Exact \in Nat
  BY ExactAssumption
<1>2. Fits(1) \/ Exact < m
  BY <1>1
<1>3. \/ Fits(2) \/ Fits(4) \/ Fits(8) \/ Fits(16) \/ Fits(32) \/ Fits(64) \/ Fits(128)
      \/ Fits(256) \/ Fits(512) \/ Fits(1024) \/ m =< Exact
  BY <1>1
<1> HIDE DEF Fits
<1>4. \E s \in Spacings: Fits(s)
  <2>1. ASSUME NEW s \in Spacings, Fits(s) PROVE \E t \in Spacings: Fits(t)
    BY <2>1
  <2>2. Fits(1) \/ Fits(2) \/ Fits(4) \/ Fits(8) \/ Fits(16) \/ Fits(32) \/ Fits(64)
        \/ Fits(128) \/ Fits(256) \/ Fits(512) \/ Fits(1024)
    BY <1>1, <1>2, <1>3
  <2>3. QED
    BY <2>2 DEF Spacings
<1>5. Spacing(m) \in Spacings /\ Fits(Spacing(m))
  BY <1>4 DEF Spacing, Fits
<1>6. QED
  BY <1>5 DEF Fits

(* The number is the integer itself up to Exact, else not further from it than *)
(* half that distance.                                                         *)
LEMMA NearestIs ==
    ASSUME NEW m \in Nat, m =< 1024 * Exact
    PROVE  /\ Nearest(m) \in Nat
           /\ m =< Exact => Nearest(m) = m
           /\ \/ Nearest(m) = m
              \/ /\ (Nearest(m) - m) * Exact =< m
                 /\ (m - Nearest(m)) * Exact =< m
<1>1. Exact \in Nat \ {0}
  BY ExactAssumption
<1>2. PICK s \in Nat \ {0}: /\ s = Spacing(m) /\ s \in Spacings
                            /\ m =< Exact * s /\ (s = 1 \/ Exact * s < 2 * m)
  BY SpacingIs DEF Spacings
<1>3. PICK q \in Nat, r \in 0 .. s - 1: q = m \div s /\ r = m % s
  OBVIOUS
<1>4. m = q * s + r
  BY <1>3
<1>5. Nearest(m) = IF 2 * r > s \/ (2 * r = s /\ q % 2 = 1) THEN (q + 1) * s ELSE q * s
  BY <1>2, <1>3 DEF Nearest
<1>6. q * s \in Nat /\ (q + 1) * s = q * s + s
  OBVIOUS
<1>7. /\ Nearest(m) \in Nat
      /\ 2 * (Nearest(m) - m) =< s /\ 2 * (m - Nearest(m)) =< s
  <2>1. PICK u: u = q * s
    OBVIOUS
  <2>2. u \in Nat /\ m = u + r
    BY <1>4, <1>6, <2>1
  <2>3. (Nearest(m) = u + s /\ 2 * r >= s) \/ (Nearest(m) = u /\ 2 * r =< s)
    BY <1>5, <1>6, <2>1
  <2>4. QED
    BY <2>2, <2>3
<1>8. CASE s = 1
  BY <1>7, <1>8
<1>9. CASE s # 1
  <2>1. s >= 2
    BY <1>9
  <2>2. Exact * 2 =< Exact * s
    BY <1>1, <2>1
  <2>3. ~(m =< Exact)
    BY <1>1, <1>2, <1>9, <2>2
  <2>4. ASSUME NEW d \in Int, 2 * d =< s PROVE d * Exact =< m
    <3>1. CASE d =< 0
      <4>1. d * Exact =< 0
        BY <1>1, <3>1
      <4>2. QED
        BY <1>1, <4>1
    <3>2. CASE d > 0
      <4>1. (2 * d) * Exact =< s * Exact
        BY <1>1, <2>4, <3>2
      <4>2. (2 * d) * Exact = 2 * (d * Exact) /\ s * Exact = Exact * s
        BY <1>1
      <4>3. d * Exact \in Int /\ Exact * s \in Int
        BY <1>1
      <4>4. QED
        BY <1>2, <1>9, <4>1, <4>2, <4>3
    <3>3. QED
      BY <3>1, <3>2
  <2>5. QED
    BY <1>7, <2>3, <2>4
<1>10. QED
  BY <1>8, <1>9

LEMMA ReadInt64Is ==
    ASSUME NEW t \in Int64
    PROVE  ReadInt64(t) \in Int /\ ReadsTime(t)
<1>1. Exact \in Nat \ {0} /\ t \in Int
  BY ExactAssumption DEF Int64
<1>2. CASE t < 0
  <2>1. PICK m \in Nat: m = -t /\ m =< 1024 * Exact
    BY <1>1, <1>2 DEF Int64
  <2>2. PICK n: n = Nearest(m)
    OBVIOUS
  <2>3. /\ n \in Nat /\ (m =< Exact => n = m)
        /\ n = m \/ ((n - m) * Exact =< m /\ (m - n) * Exact =< m)
    BY <2>1, <2>2, NearestIs
  <2>4. ReadInt64(t) = -n /\ t = -m
    BY <1>1, <1>2, <2>1, <2>2 DEF ReadInt64
  <2>5. Abs(t) = m /\ (Abs(-n - t) = n - m \/ Abs(-n - t) = m - n)
    BY <1>1, <1>2, <2>1, <2>3 DEF Abs
  <2>6. n = m => Abs(-n - t) * Exact = 0
    BY <1>1, <2>4, <2>5
  <2>7. Abs(-n - t) * Exact =< m
    BY <1>1, <2>1, <2>3, <2>5, <2>6
  <2>8. QED
    BY <1>1, <2>1, <2>3, <2>4, <2>5, <2>7 DEF ReadsTime
<1>3. CASE t >= 0
  <2>1. PICK m \in Nat: m = t /\ m =< 1024 * Exact
    BY <1>1, <1>3 DEF Int64
  <2>2. PICK n: n = Nearest(m)
    OBVIOUS
  <2>3. /\ n \in Nat /\ (m =< Exact => n = m)
        /\ n = m \/ ((n - m) * Exact =< m /\ (m - n) * Exact =< m)
    BY <2>1, <2>2, NearestIs
  <2>4. ReadInt64(t) = n
    BY <1>1, <1>3, <2>1, <2>2 DEF ReadInt64
  <2>5. Abs(t) = m /\ (Abs(n - t) = n - m \/ Abs(n - t) = m - n)
    BY <1>1, <1>3, <2>1, <2>3 DEF Abs
  <2>6. n = m => Abs(n - t) * Exact = 0
    BY <1>1, <2>1, <2>5
  <2>7. Abs(n - t) * Exact =< m
    BY <1>1, <2>1, <2>3, <2>5, <2>6
  <2>8. QED
    BY <1>1, <2>1, <2>3, <2>4, <2>5, <2>7 DEF ReadsTime
<1>4. QED
  BY <1>1, <1>2, <1>3

LEMMA ReadZero == ReadInt64(0) = 0
<1>1. 0 \in Int64 /\ Abs(0) =< Exact
  BY ExactAssumption DEF Int64, Abs
<1>2. QED
  BY <1>1, ReadInt64Is DEF ReadsTime

-----------------------------------------------------------------------------
(* The loop of a reader.  The four of packet_pb.js differ in the object they   *)
(* begin with and in what one turn does.                                       *)

Kind == {"Message", "Event", "Data", "Packet"}

Fresh(k) == CASE k = "Message" -> NewMessage
              [] k = "Event"   -> NewEvent
              [] k = "Data"    -> NewData
              [] k = "Packet"  -> NewPacket

Turn(k, m, f) == CASE k = "Message" -> MessageReadField(m, f)
                   [] k = "Event"   -> EventReadField(m, f)
                   [] k = "Data"    -> DataReadField(m, f)
                   [] k = "Packet"  -> PacketReadField(m, f)

FromReader(k, b) == CASE k = "Message" -> MessageFromReader(b)
                      [] k = "Event"   -> EventFromReader(b)
                      [] k = "Data"    -> DataFromReader(b)
                      [] k = "Packet"  -> PacketFromReader(b)

(* The functions that satisfy the equation of the loop over the first n fields *)
IsRead(g, k, b, n) ==
    g = [i \in 0 .. n |-> IF i = 0 THEN Fresh(k) ELSE Turn(k, g[i - 1], b[i])]

(* By induction on the number of fields: there is such a loop, *)
LEMMA ReadExists ==
    ASSUME NEW k, NEW b, NEW n \in Nat
    PROVE  \E g: IsRead(g, k, b, n)
<1> DEFINE S == {m \in Nat: \E g: IsRead(g, k, b, m)}
<1>1. 0 \in S
  <2>1. IsRead([i \in 0 .. 0 |-> Fresh(k)], k, b, 0)
    BY DEF IsRead
  <2>2. QED
    BY <2>1
<1>2. ASSUME NEW m \in Nat, m \in S PROVE m + 1 \in S
  <2>1. PICK g: IsRead(g, k, b, m)
    BY <1>2
  <2> DEFINE h == [i \in 0 .. m + 1 |-> IF i =< m THEN g[i] ELSE Turn(k, g[m], b[i])]
  <2>2. ASSUME NEW i \in 0 .. m + 1
        PROVE  h[i] = IF i = 0 THEN Fresh(k) ELSE Turn(k, h[i - 1], b[i])
    <3>1. CASE i =< m
      <4>1. h[i] = g[i] /\ (i # 0 => h[i - 1] = g[i - 1])
        BY <3>1
      <4>2. g[i] = IF i = 0 THEN Fresh(k) ELSE Turn(k, g[i - 1], b[i])
        BY <2>1, <3>1 DEF IsRead
      <4> HIDE DEF h
      <4>3. QED
        BY <4>1, <4>2
    <3>2. CASE i = m + 1
      <4>1. h[i] = Turn(k, g[m], b[i]) /\ h[i - 1] = g[m] /\ i # 0
        BY <3>2
      <4> HIDE DEF h
      <4>2. QED
        BY <4>1
    <3>3. QED
      BY <3>1, <3>2
  <2>3. h = [i \in 0 .. m + 1 |-> h[i]]
    OBVIOUS
  <2> HIDE DEF h
  <2>4. IsRead(h, k, b, m + 1)
    BY <2>2, <2>3 DEF IsRead
  <2>5. QED
    BY <2>4
<1> HIDE DEF S
<1>3. n \in S
  BY <1>1, <1>2, Induct
<1>4. QED
  BY <1>3 DEF S

(* and it is the one the readers of PacketPb run. *)
LEMMA ReadIs ==
    ASSUME NEW k \in Kind, NEW b, Len(b) \in Nat
    PROVE  \E g: IsRead(g, k, b, Len(b)) /\ FromReader(k, b) = g[Len(b)]
<1>0. PICK g: IsRead(g, k, b, Len(b))
  BY ReadExists
<1>1. CASE k = "Message"
  <2> DEFINE h == CHOOSE f: f = [n \in 0 .. Len(b) |->
                     IF n = 0 THEN NewMessage ELSE MessageReadField(f[n - 1], b[n])]
  <2>1. IsRead(h, k, b, Len(b))
    BY <1>0, <1>1 DEF IsRead, Fresh, Turn
  <2>2. FromReader(k, b) = h[Len(b)]
    BY <1>1 DEF FromReader, MessageFromReader
  <2>3. QED
    BY <2>1, <2>2
<1>2. CASE k = "Event"
  <2> DEFINE h == CHOOSE f: f = [n \in 0 .. Len(b) |->
                     IF n = 0 THEN NewEvent ELSE EventReadField(f[n - 1], b[n])]
  <2>1. IsRead(h, k, b, Len(b))
    BY <1>0, <1>2 DEF IsRead, Fresh, Turn
  <2>2. FromReader(k, b) = h[Len(b)]
    BY <1>2 DEF FromReader, EventFromReader
  <2>3. QED
    BY <2>1, <2>2
<1>3. CASE k = "Data"
  <2> DEFINE h == CHOOSE f: f = [n \in 0 .. Len(b) |->
                     IF n = 0 THEN NewData ELSE DataReadField(f[n - 1], b[n])]
  <2>1. IsRead(h, k, b, Len(b))
    BY <1>0, <1>3 DEF IsRead, Fresh, Turn
  <2>2. FromReader(k, b) = h[Len(b)]
    BY <1>3 DEF FromReader, DataFromReader
  <2>3. QED
    BY <2>1, <2>2
<1>4. CASE k = "Packet"
  <2> DEFINE h == CHOOSE f: f = [n \in 0 .. Len(b) |->
                     IF n = 0 THEN NewPacket ELSE PacketReadField(f[n - 1], b[n])]
  <2>1. IsRead(h, k, b, Len(b))
    BY <1>0, <1>4 DEF IsRead, Fresh, Turn
  <2>2. FromReader(k, b) = h[Len(b)]
    BY <1>4 DEF FromReader, PacketFromReader
  <2>3. QED
    BY <2>1, <2>2
<1>5. QED
  BY <1>1, <1>2, <1>3, <1>4 DEF Kind

(* Two loops that read the same fields first agree so far. *)
LEMMA ReadAgree ==
    ASSUME NEW k, NEW b, NEW c, NEW m \in Nat, NEW n \in Nat, NEW g, NEW h,
           IsRead(g, k, b, m), IsRead(h, k, c, n), m =< n,
           \A i \in 1 .. m: b[i] = c[i]
    PROVE  g[m] = h[m]
<1> DEFINE S == {i \in Nat: i =< m => g[i] = h[i]}
<1>1. 0 \in S
  BY DEF IsRead
<1>2. ASSUME NEW i \in Nat, i \in S PROVE i + 1 \in S
  <2> SUFFICES ASSUME i + 1 =< m PROVE g[i + 1] = h[i + 1]
    OBVIOUS
  <2>1. g[i] = h[i] /\ b[i + 1] = c[i + 1] /\ i + 1 - 1 = i
    BY <1>2
  <2>2. g[i + 1] = Turn(k, g[i], b[i + 1])
    <3>1. i + 1 \in 0 .. m /\ i + 1 # 0
      OBVIOUS
    <3>2. QED
      BY <2>1, <3>1 DEF IsRead
  <2>3. h[i + 1] = Turn(k, h[i], c[i + 1])
    <3>1. i + 1 \in 0 .. n /\ i + 1 # 0
      OBVIOUS
    <3>2. QED
      BY <2>1, <3>1 DEF IsRead
  <2>4. QED
    BY <2>1, <2>2, <2>3
<1> HIDE DEF S
<1>3. m \in S
  BY <1>1, <1>2, Induct
<1>4. QED
  BY <1>3 DEF S

(* Nothing to read leaves a new object, *)
LEMMA ReadNothing ==
    ASSUME NEW k \in Kind
    PROVE  FromReader(k, <<>>) = Fresh(k)
<1>1. Len(<<>>) = 0
  OBVIOUS
<1>2. PICK g: IsRead(g, k, <<>>, 0) /\ FromReader(k, <<>>) = g[0]
  BY <1>1, ReadIs
<1>3. QED
  BY <1>2 DEF IsRead

(* and one more field takes one more turn. *)
LEMMA ReadOneMore ==
    ASSUME NEW k \in Kind, NEW F, NEW b \in Seq(F), NEW f \in F
    PROVE  FromReader(k, b \o <<f>>) = Turn(k, FromReader(k, b), f)
<1> DEFINE c == b \o <<f>>
<1>1. /\ Len(b) \in Nat /\ Len(c) = Len(b) + 1 /\ c[Len(b) + 1] = f
      /\ \A i \in 1 .. Len(b): b[i] = c[i]
  OBVIOUS
<1> HIDE DEF c
<1>2. PICK g: IsRead(g, k, b, Len(b)) /\ FromReader(k, b) = g[Len(b)]
  BY <1>1, ReadIs
<1>3. PICK h: IsRead(h, k, c, Len(b) + 1) /\ FromReader(k, c) = h[Len(b) + 1]
  BY <1>1, ReadIs
<1>4. g[Len(b)] = h[Len(b)]
  BY <1>1, <1>2, <1>3, ReadAgree
<1>5. h[Len(b) + 1] = Turn(k, h[Len(b)], f)
  <2>1. Len(b) + 1 \in 0 .. Len(b) + 1 /\ Len(b) + 1 # 0 /\ Len(b) + 1 - 1 = Len(b)
    BY <1>1
  <2>2. QED
    BY <1>1, <1>3, <2>1 DEF IsRead
<1>6. QED
  BY <1>2, <1>3, <1>4, <1>5 DEF c

(* A field the writer leaves out, because it has its default, takes none. *)
LEMMA ReadWritten ==
    ASSUME NEW k \in Kind, NEW F, NEW b \in Seq(F), NEW n, NEW v, NEW d, <<n, v>> \in F
    PROVE  /\ b \o Written(n, v, d) \in Seq(F)
           /\ FromReader(k, b \o Written(n, v, d)) =
                 IF v = d THEN FromReader(k, b) ELSE Turn(k, FromReader(k, b), <<n, v>>)
<1>1. CASE v = d
  BY <1>1 DEF Written
<1>2. CASE v # d
  <2>1. Written(n, v, d) = << <<n, v>> >>
    BY <1>2 DEF Written
  <2>2. QED
    BY <1>2, <2>1, ReadOneMore
<1>3. QED
  BY <1>1, <1>2

-----------------------------------------------------------------------------
(* The codec *)

(* Reading b gives the array a. *)
Reads(k, F, b, a) == b \in Seq(F) /\ FromReader(k, b) = a

(* A field is held as null when it has its default. *)
OrNull(v, d) == IF v = d THEN Null ELSE v

(* The reader makes w of the value v of field n, and of the default, which is  *)
(* not written, it would make the default.                                     *)
Sets(k, n, v, w, d) ==
    /\ v = d => w = d
    /\ \A a: Turn(k, a, <<n, v>>) = SetFieldIgnoringDefault(a, n, w, d)

(* A written field on top of what was read so far: the array the object had,   *)
(* with one more place set.                                                    *)
LEMMA NextField ==
    ASSUME NEW k \in Kind, NEW F, NEW b, NEW N, NEW a, a = [i \in N |-> a[i]],
           Reads(k, F, b, a), NEW n \in N, a[n] = Null,
           NEW v, NEW w, NEW d, <<n, v>> \in F, Sets(k, n, v, w, d)
    PROVE  Reads(k, F, b \o Written(n, v, d), [a EXCEPT ![n] = OrNull(w, d)])
<1>1. b \in Seq(F) /\ FromReader(k, b) = a
  BY DEF Reads
<1>2. /\ b \o Written(n, v, d) \in Seq(F)
      /\ FromReader(k, b \o Written(n, v, d)) =
            IF v = d THEN FromReader(k, b) ELSE Turn(k, FromReader(k, b), <<n, v>>)
  BY <1>1, ReadWritten
<1>3. CASE v = d
  <2>1. [a EXCEPT ![n] = a[n]] = a
    OBVIOUS
  <2>2. OrNull(w, d) = a[n]
    BY <1>3 DEF Sets, OrNull
  <2>3. QED
    BY <1>1, <1>2, <1>3, <2>1, <2>2 DEF Reads
<1>4. CASE v # d
  <2>1. Turn(k, a, <<n, v>>) = [a EXCEPT ![n] = OrNull(w, d)]
    BY DEF Sets, SetFieldIgnoringDefault, OrNull
  <2>2. QED
    BY <1>1, <1>2, <1>4, <2>1 DEF Reads
<1>5. QED
  BY <1>3, <1>4

(* The same from a new object *)
LEMMA FirstField ==
    ASSUME NEW k \in Kind, NEW F, NEW N, NEW a, a = [i \in N |-> a[i]],
           Fresh(k) = a, NEW n \in N, a[n] = Null,
           NEW v, NEW w, NEW d, <<n, v>> \in F, Sets(k, n, v, w, d)
    PROVE  Reads(k, F, Written(n, v, d), [a EXCEPT ![n] = OrNull(w, d)])
<1>1. Reads(k, F, <<>>, a)
  BY ReadNothing DEF Reads
<1>2. Reads(k, F, <<>> \o Written(n, v, d), [a EXCEPT ![n] = OrNull(w, d)])
  BY <1>1, NextField
<1>3. <<>> \o Written(n, v, d) = Written(n, v, d)
  BY DEF Written
<1>4. QED
  BY <1>2, <1>3

(* Field after field: the array of a message of three fields, and of four *)
LEMMA ThreeFields ==
    ASSUME NEW k \in Kind, NEW F, Fresh(k) = <<Null, Null, Null>>,
           NEW v1, NEW v2, NEW v3, NEW w1, NEW w2, NEW w3, NEW d1, NEW d2, NEW d3,
           <<1, v1>> \in F, <<2, v2>> \in F, <<3, v3>> \in F,
           Sets(k, 1, v1, w1, d1), Sets(k, 2, v2, w2, d2), Sets(k, 3, v3, w3, d3)
    PROVE  Reads(k, F, Written(1, v1, d1) \o Written(2, v2, d2) \o Written(3, v3, d3),
                 <<OrNull(w1, d1), OrNull(w2, d2), OrNull(w3, d3)>>)
<1>1. PICK x1, x2, x3: x1 = OrNull(w1, d1) /\ x2 = OrNull(w2, d2) /\ x3 = OrNull(w3, d3)
  OBVIOUS
<1> DEFINE a0 == <<Null, Null, Null>>
           a1 == <<x1, Null, Null>>
           a2 == <<x1, x2, Null>>
<1>2. /\ a0 = [i \in 1 .. 3 |-> a0[i]] /\ a0[1] = Null
      /\ a1 = [i \in 1 .. 3 |-> a1[i]] /\ a1[2] = Null
      /\ a2 = [i \in 1 .. 3 |-> a2[i]] /\ a2[3] = Null
  OBVIOUS
<1>3. /\ [a0 EXCEPT ![1] = x1] = a1
      /\ [a1 EXCEPT ![2] = x2] = a2
      /\ [a2 EXCEPT ![3] = x3] = <<x1, x2, x3>>
  OBVIOUS
<1>4. 1 \in 1 .. 3 /\ 2 \in 1 .. 3 /\ 3 \in 1 .. 3 /\ Fresh(k) = a0
  OBVIOUS
<1> HIDE DEF a0, a1, a2
<1>5. Reads(k, F, Written(1, v1, d1), a1)
  <2>1. Reads(k, F, Written(1, v1, d1), [a0 EXCEPT ![1] = OrNull(w1, d1)])
    BY <1>2, <1>4, FirstField
  <2>2. QED
    BY <1>1, <1>3, <2>1
<1>6. Reads(k, F, Written(1, v1, d1) \o Written(2, v2, d2), a2)
  <2>1. Reads(k, F, Written(1, v1, d1) \o Written(2, v2, d2), [a1 EXCEPT ![2] = OrNull(w2, d2)])
    BY <1>2, <1>4, <1>5, NextField
  <2>2. QED
    BY <1>1, <1>3, <2>1
<1>7. Reads(k, F, Written(1, v1, d1) \o Written(2, v2, d2) \o Written(3, v3, d3),
            [a2 EXCEPT ![3] = OrNull(w3, d3)])
  BY <1>2, <1>4, <1>6, NextField
<1>8. QED
  BY <1>1, <1>3, <1>7

LEMMA FourFields ==
    ASSUME NEW k \in Kind, NEW F, Fresh(k) = <<Null, Null, Null, Null>>,
           NEW v1, NEW v2, NEW v3, NEW v4, NEW w1, NEW w2, NEW w3, NEW w4,
           NEW d1, NEW d2, NEW d3, NEW d4,
           <<1, v1>> \in F, <<2, v2>> \in F, <<3, v3>> \in F, <<4, v4>> \in F,
           Sets(k, 1, v1, w1, d1), Sets(k, 2, v2, w2, d2),
           Sets(k, 3, v3, w3, d3), Sets(k, 4, v4, w4, d4)
    PROVE  Reads(k, F, Written(1, v1, d1) \o Written(2, v2, d2) \o Written(3, v3, d3)
                         \o Written(4, v4, d4),
                 <<OrNull(w1, d1), OrNull(w2, d2), OrNull(w3, d3), OrNull(w4, d4)>>)
<1>1. PICK x1, x2, x3, x4: /\ x1 = OrNull(w1, d1) /\ x2 = OrNull(w2, d2)
                           /\ x3 = OrNull(w3, d3) /\ x4 = OrNull(w4, d4)
  OBVIOUS
<1> DEFINE a0 == <<Null, Null, Null, Null>>
           a1 == <<x1, Null, Null, Null>>
           a2 == <<x1, x2, Null, Null>>
           a3 == <<x1, x2, x3, Null>>
           b1 == Written(1, v1, d1)
           b2 == b1 \o Written(2, v2, d2)
           b3 == b2 \o Written(3, v3, d3)
<1>2. /\ a0 = [i \in 1 .. 4 |-> a0[i]] /\ a0[1] = Null
      /\ a1 = [i \in 1 .. 4 |-> a1[i]] /\ a1[2] = Null
      /\ a2 = [i \in 1 .. 4 |-> a2[i]] /\ a2[3] = Null
      /\ a3 = [i \in 1 .. 4 |-> a3[i]] /\ a3[4] = Null
  OBVIOUS
<1>3. /\ [a0 EXCEPT ![1] = x1] = a1
      /\ [a1 EXCEPT ![2] = x2] = a2
      /\ [a2 EXCEPT ![3] = x3] = a3
      /\ [a3 EXCEPT ![4] = x4] = <<x1, x2, x3, x4>>
  OBVIOUS
<1>4. 1 \in 1 .. 4 /\ 2 \in 1 .. 4 /\ 3 \in 1 .. 4 /\ 4 \in 1 .. 4 /\ Fresh(k) = a0
  OBVIOUS
<1> HIDE DEF a0, a1, a2, a3
<1>5. Reads(k, F, b1, a1)
  <2>1. Reads(k, F, b1, [a0 EXCEPT ![1] = OrNull(w1, d1)])
    BY <1>2, <1>4, FirstField
  <2>2. QED
    BY <1>1, <1>3, <2>1
<1> HIDE DEF b1
<1>6. Reads(k, F, b2, a2)
  <2>1. Reads(k, F, b2, [a1 EXCEPT ![2] = OrNull(w2, d2)])
    BY <1>2, <1>4, <1>5, NextField
  <2>2. QED
    BY <1>1, <1>3, <2>1
<1> HIDE DEF b2
<1>7. Reads(k, F, b3, a3)
  <2>1. Reads(k, F, b3, [a2 EXCEPT ![3] = OrNull(w3, d3)])
    BY <1>2, <1>4, <1>6, NextField
  <2>2. QED
    BY <1>1, <1>3, <2>1
<1> HIDE DEF b3
<1>8. Reads(k, F, b3 \o Written(4, v4, d4), [a3 EXCEPT ![4] = OrNull(w4, d4)])
  BY <1>2, <1>4, <1>7, NextField
<1>9. QED
  BY <1>1, <1>3, <1>8 DEF b1, b2, b3

(* The four readers *)
LEMMA FreshIs ==
    /\ Fresh("Message") = <<Null, Null, Null>>
    /\ Fresh("Event")   = <<Null, Null, Null, Null>>
    /\ Fresh("Data")    = <<Null, Null, Null, Null>>
    /\ Fresh("Packet")  = <<Null, Null, Null, Null>>
<1>1. /\ NewMessage = <<Null, Null, Null>>
      /\ NewEvent   = <<Null, Null, Null, Null>>
      /\ NewData    = <<Null, Null, Null, Null>>
      /\ NewPacket  = <<Null, Null, Null, Null>>
  BY DEF NewMessage, NewEvent, NewData, NewPacket
<1>2. QED
  BY <1>1 DEF Fresh

(* One turn of each reader's loop sets the field it is given. *)
LEMMA MessageSets ==
    ASSUME NEW v
    PROVE  /\ Sets("Message", 1, v, v, 0) /\ Sets("Message", 2, v, v, "")
           /\ Sets("Message", 3, v, ReadInt64(v), 0)
           /\ \A a: Turn("Message", a, <<9, v>>) = a
<1> SUFFICES ASSUME NEW a
             PROVE  /\ Turn("Message", a, <<1, v>>) = SetFieldIgnoringDefault(a, 1, v, 0)
                    /\ Turn("Message", a, <<2, v>>) = SetFieldIgnoringDefault(a, 2, v, "")
                    /\ Turn("Message", a, <<3, v>>) =
                          SetFieldIgnoringDefault(a, 3, ReadInt64(v), 0)
                    /\ Turn("Message", a, <<9, v>>) = a
  BY ReadZero DEF Sets
<1>1. /\ Turn("Message", a, <<1, v>>) = MessageReadField(a, <<1, v>>)
      /\ Turn("Message", a, <<2, v>>) = MessageReadField(a, <<2, v>>)
      /\ Turn("Message", a, <<3, v>>) = MessageReadField(a, <<3, v>>)
      /\ Turn("Message", a, <<9, v>>) = MessageReadField(a, <<9, v>>)
  BY DEF Turn
<1>2. /\ MessageReadField(a, <<1, v>>) = MessageSetType(a, v)
      /\ MessageReadField(a, <<2, v>>) = MessageSetContent(a, v)
      /\ MessageReadField(a, <<3, v>>) = MessageSetTimestamp(a, ReadInt64(v))
      /\ MessageReadField(a, <<9, v>>) = a
  BY DEF MessageReadField
<1>3. QED
  BY <1>1, <1>2 DEF MessageSetType, MessageSetContent, MessageSetTimestamp,
     SetProto3EnumField, SetProto3IntField, SetProto3StringField

LEMMA EventSets ==
    ASSUME NEW v
    PROVE  /\ Sets("Event", 1, v, v, "") /\ Sets("Event", 2, v, v, "")
           /\ Sets("Event", 3, v, v, 0) /\ Sets("Event", 4, v, ReadInt64(v), 0)
<1> SUFFICES ASSUME NEW a
             PROVE  /\ Turn("Event", a, <<1, v>>) = SetFieldIgnoringDefault(a, 1, v, "")
                    /\ Turn("Event", a, <<2, v>>) = SetFieldIgnoringDefault(a, 2, v, "")
                    /\ Turn("Event", a, <<3, v>>) = SetFieldIgnoringDefault(a, 3, v, 0)
                    /\ Turn("Event", a, <<4, v>>) =
                          SetFieldIgnoringDefault(a, 4, ReadInt64(v), 0)
  BY ReadZero DEF Sets
<1>1. /\ Turn("Event", a, <<1, v>>) = EventReadField(a, <<1, v>>)
      /\ Turn("Event", a, <<2, v>>) = EventReadField(a, <<2, v>>)
      /\ Turn("Event", a, <<3, v>>) = EventReadField(a, <<3, v>>)
      /\ Turn("Event", a, <<4, v>>) = EventReadField(a, <<4, v>>)
  BY DEF Turn
<1>2. /\ EventReadField(a, <<1, v>>) = EventSetChannelid(a, v)
      /\ EventReadField(a, <<2, v>>) = EventSetUserid(a, v)
      /\ EventReadField(a, <<3, v>>) = EventSetType(a, v)
      /\ EventReadField(a, <<4, v>>) = EventSetTimestamp(a, ReadInt64(v))
  BY DEF EventReadField
<1>3. QED
  BY <1>1, <1>2 DEF EventSetChannelid, EventSetUserid, EventSetType, EventSetTimestamp,
     SetProto3EnumField, SetProto3IntField, SetProto3StringField

LEMMA DataSets ==
    ASSUME NEW v
    PROVE  /\ Sets("Data", 1, v, v, "") /\ Sets("Data", 2, v, v, "")
           /\ Sets("Data", 3, v, v, "") /\ Sets("Data", 4, v, ReadInt64(v), 0)
<1> SUFFICES ASSUME NEW a
             PROVE  /\ Turn("Data", a, <<1, v>>) = SetFieldIgnoringDefault(a, 1, v, "")
                    /\ Turn("Data", a, <<2, v>>) = SetFieldIgnoringDefault(a, 2, v, "")
                    /\ Turn("Data", a, <<3, v>>) = SetFieldIgnoringDefault(a, 3, v, "")
                    /\ Turn("Data", a, <<4, v>>) =
                          SetFieldIgnoringDefault(a, 4, ReadInt64(v), 0)
  BY ReadZero DEF Sets
<1>1. /\ Turn("Data", a, <<1, v>>) = DataReadField(a, <<1, v>>)
      /\ Turn("Data", a, <<2, v>>) = DataReadField(a, <<2, v>>)
      /\ Turn("Data", a, <<3, v>>) = DataReadField(a, <<3, v>>)
      /\ Turn("Data", a, <<4, v>>) = DataReadField(a, <<4, v>>)
  BY DEF Turn
<1>2. /\ DataReadField(a, <<1, v>>) = DataSetChannelid(a, v)
      /\ DataReadField(a, <<2, v>>) = DataSetContent(a, v)
      /\ DataReadField(a, <<3, v>>) = DataSetMessageid(a, v)
      /\ DataReadField(a, <<4, v>>) = DataSetTimestamp(a, ReadInt64(v))
  BY DEF DataReadField
<1>3. QED
  BY <1>1, <1>2 DEF DataSetChannelid, DataSetContent, DataSetMessageid, DataSetTimestamp,
     SetProto3EnumField, SetProto3IntField, SetProto3StringField

Value == Content \cup Time \cup (0 .. 6) \cup {Null}
Field == (1 .. 9) \X Value

(* The messages as the script holds them, with any integer for a timestamp *)
HMessage == [type: 0 .. 6, content: Content, timestamp: Int, more: BOOLEAN]
HEvent   == [channelId: Content, userId: Content, type: 0 .. 6, timestamp: Int]
HData    == [channelId: Content, content: Content, messageId: Content, timestamp: Int]
HPacket  == [dataType: 0 .. 1, timestamp: Int,
             message: HMessage \cup {Null}, event: HEvent \cup {Null}]

(* What becomes of a message that is received *)
LEMMA RoundedIs ==
    /\ \A m \in JMessage: /\ Rounded(m) \in HMessage /\ Rounded(m) # Null
                          /\ Rounded(m).type = m.type /\ Rounded(m).content = m.content
                          /\ Rounded(m).timestamp = ReadInt64(m.timestamp)
    /\ \A e \in JEvent:   /\ Rounded(e) \in HEvent /\ Rounded(e) # Null
                          /\ Rounded(e).channelId = e.channelId
                          /\ Rounded(e).userId = e.userId /\ Rounded(e).type = e.type
                          /\ Rounded(e).timestamp = ReadInt64(e.timestamp)
    /\ \A d \in JData:    /\ Rounded(d) \in HData
                          /\ Rounded(d).channelId = d.channelId
                          /\ Rounded(d).content = d.content
                          /\ Rounded(d).messageId = d.messageId
                          /\ Rounded(d).timestamp = ReadInt64(d.timestamp)
<1>1. \A t \in Time: ReadInt64(t) \in Int
  BY TimeIsInt64, ReadInt64Is
<1>2. Null \notin HMessage /\ Null \notin HEvent
  BY NullIsNoMessage DEF HMessage, HEvent
<1>3. ASSUME NEW m \in JMessage
      PROVE  /\ Rounded(m) \in HMessage
             /\ Rounded(m).type = m.type /\ Rounded(m).content = m.content
             /\ Rounded(m).timestamp = ReadInt64(m.timestamp)
  BY <1>1 DEF Rounded, JMessage, HMessage
<1>4. ASSUME NEW e \in JEvent
      PROVE  /\ Rounded(e) \in HEvent
             /\ Rounded(e).channelId = e.channelId
             /\ Rounded(e).userId = e.userId /\ Rounded(e).type = e.type
             /\ Rounded(e).timestamp = ReadInt64(e.timestamp)
  BY <1>1 DEF Rounded, JEvent, HEvent
<1>5. ASSUME NEW d \in JData
      PROVE  /\ Rounded(d) \in HData
             /\ Rounded(d).channelId = d.channelId /\ Rounded(d).content = d.content
             /\ Rounded(d).messageId = d.messageId
             /\ Rounded(d).timestamp = ReadInt64(d.timestamp)
  BY <1>1 DEF Rounded, JData, HData
<1>6. QED
  BY <1>2, <1>3, <1>4, <1>5

LEMMA ReceivedIs ==
    ASSUME NEW p \in JPacket
    PROVE  /\ Received(p) \in HPacket
           /\ Received(p).dataType = p.dataType
           /\ Received(p).timestamp = ReadInt64(p.timestamp)
           /\ Received(p).message = IF p.message = Null THEN Null ELSE Rounded(p.message)
           /\ Received(p).event = IF p.event = Null THEN Null ELSE Rounded(p.event)
<1>1. /\ p.dataType \in 0 .. 1 /\ p.timestamp \in Time
      /\ p.message \in JMessage \cup {Null} /\ p.event \in JEvent \cup {Null}
  BY DEF JPacket
<1>2. PICK m: m = IF p.message = Null THEN Null ELSE Rounded(p.message)
  OBVIOUS
<1>3. PICK e: e = IF p.event = Null THEN Null ELSE Rounded(p.event)
  OBVIOUS
<1>4. m \in HMessage \cup {Null} /\ e \in HEvent \cup {Null}
  BY <1>1, <1>2, <1>3, RoundedIs
<1>5. PICK t \in Int: t = ReadInt64(p.timestamp)
  BY <1>1, TimeIsInt64, ReadInt64Is
<1>6. Received(p) = [dataType |-> p.dataType, timestamp |-> t, message |-> m, event |-> e]
  <2>1. p = [dataType |-> p.dataType, timestamp |-> p.timestamp,
             message |-> p.message, event |-> p.event]
    BY DEF JPacket
  <2>2. PICK q: q = Rounded(p)
    OBVIOUS
  <2>3. q = [dataType |-> p.dataType, timestamp |-> t,
             message |-> p.message, event |-> p.event]
    BY <1>5, <2>1, <2>2 DEF Rounded
  <2>4. Received(p) = [q EXCEPT !.message = m, !.event = e]
    BY <1>2, <1>3, <2>2, <2>3 DEF Received
  <2>5. QED
    BY <2>3, <2>4
<1>7. QED
  BY <1>1, <1>2, <1>3, <1>4, <1>5, <1>6 DEF HPacket

MessageArray(m) == <<OrNull(m.type, 0), OrNull(m.content, ""), OrNull(m.timestamp, 0)>>

EventArray(e) == <<OrNull(e.channelId, ""), OrNull(e.userId, ""),
                   OrNull(e.type, 0), OrNull(e.timestamp, 0)>>

DataArray(d) == <<OrNull(d.channelId, ""), OrNull(d.content, ""),
                  OrNull(d.messageId, ""), OrNull(d.timestamp, 0)>>

(* A Message, and the field its reader does not know *)
LEMMA MessageRead ==
    ASSUME NEW m \in JMessage
    PROVE  Reads("Message", Field, EncodeMessage(m), MessageArray(Rounded(m)))
<1>1. m.type \in 0 .. 6 /\ m.content \in Content /\ m.timestamp \in Time
  BY DEF JMessage
<1>2. /\ <<1, m.type>> \in Field /\ <<2, m.content>> \in Field
      /\ <<3, m.timestamp>> \in Field /\ <<9, Null>> \in Field
  BY <1>1 DEF Field, Value
<1>3. "Message" \in Kind
  BY DEF Kind
<1> DEFINE b == Written(1, m.type, 0) \o Written(2, m.content, "") \o Written(3, m.timestamp, 0)
<1>4. Reads("Message", Field, b, MessageArray(Rounded(m)))
  <2>1. /\ Rounded(m).type = m.type /\ Rounded(m).content = m.content
        /\ Rounded(m).timestamp = ReadInt64(m.timestamp)
    BY RoundedIs
  <2>2. /\ Sets("Message", 1, m.type, m.type, 0) /\ Sets("Message", 2, m.content, m.content, "")
        /\ Sets("Message", 3, m.timestamp, ReadInt64(m.timestamp), 0)
    BY MessageSets
  <2>3. Reads("Message", Field, b, <<OrNull(m.type, 0), OrNull(m.content, ""),
                                     OrNull(ReadInt64(m.timestamp), 0)>>)
    BY <1>2, <1>3, <2>2, FreshIs, ThreeFields
  <2>4. QED
    BY <2>1, <2>3 DEF MessageArray
<1>5. EncodeMessage(m) = b \o IF m.more THEN << <<9, Null>> >> ELSE <<>>
  BY DEF EncodeMessage
<1> HIDE DEF b
<1>6. CASE m.more
  <2>1. FromReader("Message", b \o << <<9, Null>> >>)
           = Turn("Message", FromReader("Message", b), <<9, Null>>)
    BY <1>2, <1>3, <1>4, ReadOneMore DEF Reads
  <2>2. Turn("Message", FromReader("Message", b), <<9, Null>>) = FromReader("Message", b)
    BY MessageSets
  <2>3. b \o << <<9, Null>> >> \in Seq(Field)
    BY <1>2, <1>4 DEF Reads
  <2>4. QED
    BY <1>4, <1>5, <1>6, <2>1, <2>2, <2>3 DEF Reads
<1>7. CASE ~m.more
  <2>1. b \in Seq(Field) /\ b \o <<>> = b
    BY <1>4 DEF Reads
  <2>2. QED
    BY <1>4, <1>5, <1>7, <2>1
<1>8. QED
  BY <1>6, <1>7

(* Event and Data have fields their reader knows only. *)
LEMMA EventRead ==
    ASSUME NEW e \in JEvent
    PROVE  Reads("Event", Field, EncodeEvent(e), EventArray(Rounded(e)))
<1>1. /\ e.channelId \in Content /\ e.userId \in Content
      /\ e.type \in 0 .. 6 /\ e.timestamp \in Time
  BY DEF JEvent
<1>2. /\ <<1, e.channelId>> \in Field /\ <<2, e.userId>> \in Field
      /\ <<3, e.type>> \in Field /\ <<4, e.timestamp>> \in Field
  BY <1>1 DEF Field, Value
<1>3. "Event" \in Kind
  BY DEF Kind
<1>4. /\ Rounded(e).channelId = e.channelId /\ Rounded(e).userId = e.userId
      /\ Rounded(e).type = e.type /\ Rounded(e).timestamp = ReadInt64(e.timestamp)
  BY RoundedIs
<1>5. /\ Sets("Event", 1, e.channelId, e.channelId, "") /\ Sets("Event", 2, e.userId, e.userId, "")
      /\ Sets("Event", 3, e.type, e.type, 0)
      /\ Sets("Event", 4, e.timestamp, ReadInt64(e.timestamp), 0)
  BY EventSets
<1>6. Reads("Event", Field, EncodeEvent(e),
            <<OrNull(e.channelId, ""), OrNull(e.userId, ""),
              OrNull(e.type, 0), OrNull(ReadInt64(e.timestamp), 0)>>)
  BY <1>2, <1>3, <1>5, FreshIs, FourFields DEF EncodeEvent
<1>7. QED
  BY <1>4, <1>6 DEF EventArray

LEMMA DataRead ==
    ASSUME NEW d \in JData
    PROVE  Reads("Data", Field, EncodeData(d), DataArray(Rounded(d)))
<1>1. /\ d.channelId \in Content /\ d.content \in Content
      /\ d.messageId \in Content /\ d.timestamp \in Time
  BY DEF JData
<1>2. /\ <<1, d.channelId>> \in Field /\ <<2, d.content>> \in Field
      /\ <<3, d.messageId>> \in Field /\ <<4, d.timestamp>> \in Field
  BY <1>1 DEF Field, Value
<1>3. "Data" \in Kind
  BY DEF Kind
<1>4. /\ Rounded(d).channelId = d.channelId /\ Rounded(d).content = d.content
      /\ Rounded(d).messageId = d.messageId /\ Rounded(d).timestamp = ReadInt64(d.timestamp)
  BY RoundedIs
<1>5. /\ Sets("Data", 1, d.channelId, d.channelId, "") /\ Sets("Data", 2, d.content, d.content, "")
      /\ Sets("Data", 3, d.messageId, d.messageId, "")
      /\ Sets("Data", 4, d.timestamp, ReadInt64(d.timestamp), 0)
  BY DataSets
<1>6. Reads("Data", Field, EncodeData(d),
            <<OrNull(d.channelId, ""), OrNull(d.content, ""),
              OrNull(d.messageId, ""), OrNull(ReadInt64(d.timestamp), 0)>>)
  BY <1>2, <1>3, <1>5, FreshIs, FourFields DEF EncodeData
<1>7. QED
  BY <1>4, <1>6 DEF DataArray

(* What the script sees of such arrays, and what it would write of them *)
LEMMA MessageSeen ==
    ASSUME NEW m \in HMessage
    PROVE  /\ MessageToObject(MessageArray(m)) =
                [type |-> m.type, content |-> m.content, timestamp |-> m.timestamp]
           /\ MessageToWriter(MessageArray(m)) = EncodeMessage([m EXCEPT !.more = FALSE])
<1>1. m.type # Null /\ m.content # Null /\ m.timestamp # Null
  BY NullIsNoValue DEF HMessage
<1> DEFINE a == MessageArray(m)
<1>2. /\ a[1] = OrNull(m.type, 0) /\ a[2] = OrNull(m.content, "")
      /\ a[3] = OrNull(m.timestamp, 0)
  BY DEF MessageArray
<1> HIDE DEF a
<1>3. /\ GetFieldWithDefault(a, 1, 0) = m.type
      /\ GetFieldWithDefault(a, 2, "") = m.content
      /\ GetFieldWithDefault(a, 3, 0) = m.timestamp
  <2>1. GetFieldWithDefault(a, 1, 0) = m.type
    BY <1>1, <1>2 DEF GetFieldWithDefault, OrNull
  <2>2. GetFieldWithDefault(a, 2, "") = m.content
    BY <1>1, <1>2 DEF GetFieldWithDefault, OrNull
  <2>3. GetFieldWithDefault(a, 3, 0) = m.timestamp
    BY <1>1, <1>2 DEF GetFieldWithDefault, OrNull
  <2>4. QED
    BY <2>1, <2>2, <2>3
<1>4. MessageToObject(a) =
         [type |-> m.type, content |-> m.content, timestamp |-> m.timestamp]
  BY <1>3 DEF MessageToObject
<1> DEFINE b == Written(1, m.type, 0) \o Written(2, m.content, "") \o Written(3, m.timestamp, 0)
<1>5. MessageToWriter(a) = b
  BY <1>3 DEF MessageToWriter, MessageGetType, MessageGetContent, MessageGetTimestamp
<1>6. EncodeMessage([m EXCEPT !.more = FALSE]) = b \o <<>>
  BY DEF EncodeMessage, HMessage
<1>7. b \o <<>> = b
  BY DEF Written
<1>8. QED
  BY <1>4, <1>5, <1>6, <1>7 DEF a

LEMMA EventSeen ==
    ASSUME NEW e \in HEvent
    PROVE  /\ EventToObject(EventArray(e)) =
                [channelid |-> e.channelId, userid |-> e.userId,
                 type |-> e.type, timestamp |-> e.timestamp]
           /\ EventToWriter(EventArray(e)) = EncodeEvent(e)
<1>1. e.channelId # Null /\ e.userId # Null /\ e.type # Null /\ e.timestamp # Null
  BY NullIsNoValue DEF HEvent
<1> DEFINE a == EventArray(e)
<1>2. /\ a[1] = OrNull(e.channelId, "") /\ a[2] = OrNull(e.userId, "")
      /\ a[3] = OrNull(e.type, 0) /\ a[4] = OrNull(e.timestamp, 0)
  BY DEF EventArray
<1> HIDE DEF a
<1>3. /\ GetFieldWithDefault(a, 1, "") = e.channelId
      /\ GetFieldWithDefault(a, 2, "") = e.userId
      /\ GetFieldWithDefault(a, 3, 0) = e.type
      /\ GetFieldWithDefault(a, 4, 0) = e.timestamp
  <2>1. GetFieldWithDefault(a, 1, "") = e.channelId
    BY <1>1, <1>2 DEF GetFieldWithDefault, OrNull
  <2>2. GetFieldWithDefault(a, 2, "") = e.userId
    BY <1>1, <1>2 DEF GetFieldWithDefault, OrNull
  <2>3. GetFieldWithDefault(a, 3, 0) = e.type
    BY <1>1, <1>2 DEF GetFieldWithDefault, OrNull
  <2>4. GetFieldWithDefault(a, 4, 0) = e.timestamp
    BY <1>1, <1>2 DEF GetFieldWithDefault, OrNull
  <2>5. QED
    BY <2>1, <2>2, <2>3, <2>4
<1>4. EventToObject(a) = [channelid |-> e.channelId, userid |-> e.userId,
                          type |-> e.type, timestamp |-> e.timestamp]
  BY <1>3 DEF EventToObject
<1>5. EventToWriter(a) = EncodeEvent(e)
  BY <1>3 DEF EventToWriter, EncodeEvent, EventGetChannelid, EventGetUserid, EventGetType,
              EventGetTimestamp
<1>6. QED
  BY <1>4, <1>5 DEF a

LEMMA DataSeen ==
    ASSUME NEW d \in HData
    PROVE  DataToObject(DataArray(d)) = SeenData(d) /\ DataToWriter(DataArray(d)) = EncodeData(d)
<1>1. d.channelId # Null /\ d.content # Null /\ d.messageId # Null /\ d.timestamp # Null
  BY NullIsNoValue DEF HData
<1> DEFINE a == DataArray(d)
<1>2. /\ a[1] = OrNull(d.channelId, "") /\ a[2] = OrNull(d.content, "")
      /\ a[3] = OrNull(d.messageId, "") /\ a[4] = OrNull(d.timestamp, 0)
  BY DEF DataArray
<1> HIDE DEF a
<1>3. /\ GetFieldWithDefault(a, 1, "") = d.channelId
      /\ GetFieldWithDefault(a, 2, "") = d.content
      /\ GetFieldWithDefault(a, 3, "") = d.messageId
      /\ GetFieldWithDefault(a, 4, 0) = d.timestamp
  <2>1. GetFieldWithDefault(a, 1, "") = d.channelId
    BY <1>1, <1>2 DEF GetFieldWithDefault, OrNull
  <2>2. GetFieldWithDefault(a, 2, "") = d.content
    BY <1>1, <1>2 DEF GetFieldWithDefault, OrNull
  <2>3. GetFieldWithDefault(a, 3, "") = d.messageId
    BY <1>1, <1>2 DEF GetFieldWithDefault, OrNull
  <2>4. GetFieldWithDefault(a, 4, 0) = d.timestamp
    BY <1>1, <1>2 DEF GetFieldWithDefault, OrNull
  <2>5. QED
    BY <2>1, <2>2, <2>3, <2>4
<1>4. DataToObject(a) = SeenData(d)
  BY <1>3 DEF DataToObject, SeenData
<1>5. DataToWriter(a) = EncodeData(d)
  BY <1>3 DEF DataToWriter, EncodeData, DataGetChannelid, DataGetContent, DataGetMessageid,
              DataGetTimestamp
<1>6. QED
  BY <1>4, <1>5 DEF a

(* A Packet, with its parts *)
PacketField == (1 .. 4) \X (Value \cup Seq(Field))

MessagePart(p) == IF p.message = Null THEN <<>> ELSE << <<3, EncodeMessage(p.message)>> >>
EventPart(p)   == IF p.event = Null THEN <<>> ELSE << <<4, EncodeEvent(p.event)>> >>

MessageHeld(p) == IF p.message = Null THEN Null ELSE MessageArray(p.message)
EventHeld(p)   == IF p.event = Null THEN Null ELSE EventArray(p.event)

PacketArray(p) == <<OrNull(p.dataType, 0), OrNull(p.timestamp, 0),
                    MessageHeld(p), EventHeld(p)>>

(* One turn of the Packet reader, which holds parts in wrappers *)
LEMMA PacketSets ==
    /\ \A v: Sets("Packet", 1, v, v, 0) /\ Sets("Packet", 2, v, ReadInt64(v), 0)
    /\ \A a, b: Turn("Packet", a, <<3, b>>) = [a EXCEPT ![3] = MessageFromReader(b)]
    /\ \A a, b: Turn("Packet", a, <<4, b>>) = [a EXCEPT ![4] = EventFromReader(b)]
<1>1. ASSUME NEW a, NEW v
      PROVE  /\ Turn("Packet", a, <<1, v>>) = SetFieldIgnoringDefault(a, 1, v, 0)
             /\ Turn("Packet", a, <<2, v>>) = SetFieldIgnoringDefault(a, 2, ReadInt64(v), 0)
             /\ Turn("Packet", a, <<3, v>>) = [a EXCEPT ![3] = MessageFromReader(v)]
             /\ Turn("Packet", a, <<4, v>>) = [a EXCEPT ![4] = EventFromReader(v)]
  <2>1. /\ Turn("Packet", a, <<1, v>>) = PacketReadField(a, <<1, v>>)
        /\ Turn("Packet", a, <<2, v>>) = PacketReadField(a, <<2, v>>)
        /\ Turn("Packet", a, <<3, v>>) = PacketReadField(a, <<3, v>>)
        /\ Turn("Packet", a, <<4, v>>) = PacketReadField(a, <<4, v>>)
    BY DEF Turn
  <2>2. /\ PacketReadField(a, <<1, v>>) = PacketSetDatatype(a, v)
        /\ PacketReadField(a, <<2, v>>) = PacketSetTimestamp(a, ReadInt64(v))
        /\ PacketReadField(a, <<3, v>>) = PacketSetMessage(a, MessageFromReader(v))
        /\ PacketReadField(a, <<4, v>>) = PacketSetEvent(a, EventFromReader(v))
    BY DEF PacketReadField
  <2>3. /\ PacketSetDatatype(a, v) = SetFieldIgnoringDefault(a, 1, v, 0)
        /\ PacketSetTimestamp(a, ReadInt64(v)) = SetFieldIgnoringDefault(a, 2, ReadInt64(v), 0)
        /\ PacketSetMessage(a, MessageFromReader(v)) = [a EXCEPT ![3] = MessageFromReader(v)]
        /\ PacketSetEvent(a, EventFromReader(v)) = [a EXCEPT ![4] = EventFromReader(v)]
    BY DEF PacketSetDatatype, PacketSetTimestamp, PacketSetMessage, PacketSetEvent,
           SetProto3EnumField, SetProto3IntField, SetWrapperField
  <2>4. QED
    BY <2>1, <2>2, <2>3
<1>2. \A v: Sets("Packet", 1, v, v, 0)
  BY <1>1 DEF Sets
<1>3. \A v: Sets("Packet", 2, v, ReadInt64(v), 0)
  BY <1>1, ReadZero DEF Sets
<1>4. \A a, b: Turn("Packet", a, <<3, b>>) = [a EXCEPT ![3] = MessageFromReader(b)]
  BY <1>1
<1>5. \A a, b: Turn("Packet", a, <<4, b>>) = [a EXCEPT ![4] = EventFromReader(b)]
  BY <1>1
<1>6. QED
  BY <1>2, <1>3, <1>4, <1>5

LEMMA Head2 ==
    ASSUME NEW p \in JPacket
    PROVE  Reads("Packet", PacketField,
                 Written(1, p.dataType, 0) \o Written(2, p.timestamp, 0),
                 <<OrNull(p.dataType, 0), OrNull(ReadInt64(p.timestamp), 0), Null, Null>>)
<1>1. PICK x1, x2: x1 = OrNull(p.dataType, 0) /\ x2 = OrNull(ReadInt64(p.timestamp), 0)
  OBVIOUS
<1> DEFINE a0 == <<Null, Null, Null, Null>>
           a1 == <<x1, Null, Null, Null>>
           b1 == Written(1, p.dataType, 0)
<1>2. /\ a0 = [i \in 1 .. 4 |-> a0[i]] /\ a0[1] = Null
      /\ a1 = [i \in 1 .. 4 |-> a1[i]] /\ a1[2] = Null
  OBVIOUS
<1>3. /\ [a0 EXCEPT ![1] = x1] = a1
      /\ [a1 EXCEPT ![2] = x2] = <<x1, x2, Null, Null>>
  OBVIOUS
<1>4. /\ 1 \in 1 .. 4 /\ 2 \in 1 .. 4 /\ Fresh("Packet") = a0 /\ "Packet" \in Kind
      /\ Sets("Packet", 1, p.dataType, p.dataType, 0)
      /\ Sets("Packet", 2, p.timestamp, ReadInt64(p.timestamp), 0)
  BY FreshIs, PacketSets DEF Kind
<1>5. <<1, p.dataType>> \in PacketField /\ <<2, p.timestamp>> \in PacketField
  <2>1. p.dataType \in Value /\ p.timestamp \in Value
    BY DEF JPacket, Value
  <2>2. QED
    BY <2>1 DEF PacketField
<1> HIDE DEF a0, a1
<1>6. Reads("Packet", PacketField, b1, a1)
  <2>1. Reads("Packet", PacketField, b1, [a0 EXCEPT ![1] = OrNull(p.dataType, 0)])
    BY <1>2, <1>4, <1>5, FirstField
  <2>2. QED
    BY <1>1, <1>3, <2>1
<1> HIDE DEF b1
<1>7. Reads("Packet", PacketField, b1 \o Written(2, p.timestamp, 0),
            [a1 EXCEPT ![2] = OrNull(ReadInt64(p.timestamp), 0)])
  BY <1>2, <1>4, <1>5, <1>6, NextField
<1>8. QED
  BY <1>1, <1>3, <1>7 DEF b1

(* A part is read by a reader of its own. *)
LEMMA NextPart ==
    ASSUME NEW b, NEW a, Reads("Packet", PacketField, b, a), NEW f \in PacketField
    PROVE  Reads("Packet", PacketField, b \o <<f>>, Turn("Packet", a, f))
<1>1. b \in Seq(PacketField) /\ FromReader("Packet", b) = a /\ "Packet" \in Kind
  BY DEF Reads, Kind
<1>2. FromReader("Packet", b \o <<f>>) = Turn("Packet", a, f)
  BY <1>1, ReadOneMore
<1>3. b \o <<f>> \in Seq(PacketField)
  BY <1>1
<1>4. QED
  BY <1>2, <1>3 DEF Reads

(* The part that is there, or the part that is not *)
LEMMA MessagePartRead ==
    ASSUME NEW p \in JPacket, NEW b, NEW x, NEW y,
           Reads("Packet", PacketField, b, <<x, y, Null, Null>>)
    PROVE  Reads("Packet", PacketField, b \o MessagePart(p),
                 <<x, y, MessageHeld(Received(p)), Null>>)
<1>1. CASE p.message = Null
  <2>1. MessageHeld(Received(p)) = Null /\ MessagePart(p) = <<>> /\ b \o <<>> = b
    BY <1>1, ReceivedIs DEF MessageHeld, MessagePart, Reads
  <2>2. QED
    BY <2>1
<1>2. CASE p.message # Null
  <2>1. PICK m \in JMessage: m = p.message
    BY <1>2 DEF JPacket
  <2>2. Reads("Message", Field, EncodeMessage(m), MessageArray(Rounded(m)))
    BY MessageRead
  <2>3. PICK w, z: w = EncodeMessage(m) /\ z = MessageArray(Rounded(m))
    OBVIOUS
  <2>4. w \in Seq(Field) /\ MessageFromReader(w) = z
    BY <2>2, <2>3 DEF Reads, FromReader
  <2>5. <<3, w>> \in PacketField
    BY <2>4 DEF PacketField
  <2>6. Turn("Packet", <<x, y, Null, Null>>, <<3, w>>) = <<x, y, z, Null>>
    <3>1. Turn("Packet", <<x, y, Null, Null>>, <<3, w>>)
             = [<<x, y, Null, Null>> EXCEPT ![3] = MessageFromReader(w)]
      BY PacketSets
    <3>2. [<<x, y, Null, Null>> EXCEPT ![3] = z] = <<x, y, z, Null>>
      OBVIOUS
    <3>3. QED
      BY <2>4, <3>1, <3>2
  <2>7. Reads("Packet", PacketField, b \o << <<3, w>> >>, <<x, y, z, Null>>)
    BY <2>5, <2>6, NextPart
  <2>8. MessagePart(p) = << <<3, w>> >> /\ MessageHeld(Received(p)) = z
    BY <1>2, <2>1, <2>3, ReceivedIs, RoundedIs DEF MessagePart, MessageHeld
  <2>9. QED
    BY <2>7, <2>8
<1>3. QED
  BY <1>1, <1>2

LEMMA EventPartRead ==
    ASSUME NEW p \in JPacket, NEW b, NEW x, NEW y, NEW u,
           Reads("Packet", PacketField, b, <<x, y, u, Null>>)
    PROVE  Reads("Packet", PacketField, b \o EventPart(p),
                 <<x, y, u, EventHeld(Received(p))>>)
<1>1. CASE p.event = Null
  <2>1. EventHeld(Received(p)) = Null /\ EventPart(p) = <<>> /\ b \o <<>> = b
    BY <1>1, ReceivedIs DEF EventHeld, EventPart, Reads
  <2>2. QED
    BY <2>1
<1>2. CASE p.event # Null
  <2>1. PICK e \in JEvent: e = p.event
    BY <1>2 DEF JPacket
  <2>2. Reads("Event", Field, EncodeEvent(e), EventArray(Rounded(e)))
    BY EventRead
  <2>3. PICK w, z: w = EncodeEvent(e) /\ z = EventArray(Rounded(e))
    OBVIOUS
  <2>4. w \in Seq(Field) /\ EventFromReader(w) = z
    BY <2>2, <2>3 DEF Reads, FromReader
  <2>5. <<4, w>> \in PacketField
    BY <2>4 DEF PacketField
  <2>6. Turn("Packet", <<x, y, u, Null>>, <<4, w>>) = <<x, y, u, z>>
    <3>1. Turn("Packet", <<x, y, u, Null>>, <<4, w>>)
             = [<<x, y, u, Null>> EXCEPT ![4] = EventFromReader(w)]
      BY PacketSets
    <3>2. [<<x, y, u, Null>> EXCEPT ![4] = z] = <<x, y, u, z>>
      OBVIOUS
    <3>3. QED
      BY <2>4, <3>1, <3>2
  <2>7. Reads("Packet", PacketField, b \o << <<4, w>> >>, <<x, y, u, z>>)
    BY <2>5, <2>6, NextPart
  <2>8. EventPart(p) = << <<4, w>> >> /\ EventHeld(Received(p)) = z
    BY <1>2, <2>1, <2>3, ReceivedIs, RoundedIs DEF EventPart, EventHeld
  <2>9. QED
    BY <2>7, <2>8
<1>3. QED
  BY <1>1, <1>2

(* The four fields of a Packet, read *)
LEMMA PacketRead ==
    ASSUME NEW p \in JPacket
    PROVE  PacketFromReader(EncodePacket(p)) = PacketArray(Received(p))
<1> DEFINE b == Written(1, p.dataType, 0) \o Written(2, p.timestamp, 0)
<1>1. Reads("Packet", PacketField, b,
            <<OrNull(p.dataType, 0), OrNull(ReadInt64(p.timestamp), 0), Null, Null>>)
  BY Head2
<1>2. EncodePacket(p) = b \o MessagePart(p) \o EventPart(p)
  BY DEF EncodePacket, MessagePart, EventPart
<1> HIDE DEF b
<1>3. Reads("Packet", PacketField, b \o MessagePart(p),
            <<OrNull(p.dataType, 0), OrNull(ReadInt64(p.timestamp), 0),
              MessageHeld(Received(p)), Null>>)
  BY <1>1, MessagePartRead
<1>4. Reads("Packet", PacketField, b \o MessagePart(p) \o EventPart(p),
            PacketArray(Received(p)))
  BY <1>3, EventPartRead, ReceivedIs DEF PacketArray
<1>5. QED
  BY <1>2, <1>4 DEF Reads, FromReader

(* null is no array: what was read of a part is there. *)
LEMMA HeldIsThere ==
    /\ \A m \in HMessage: MessageArray(m) # Null
    /\ \A e \in HEvent: EventArray(e) # Null
<1> DEFINE Type == (0 .. 6) \cup {Null}
           Text == Content \cup {Null}
           When == Int \cup {Null}
<1>0. /\ Null \notin Type \X Text \X When
      /\ Null \notin Text \X Text \X Type \X When
  BY NullIsNoArray
<1>1. ASSUME NEW m \in HMessage PROVE MessageArray(m) \in Type \X Text \X When
  <2>1. m.type \in 0 .. 6 /\ m.content \in Content /\ m.timestamp \in Int
    BY DEF HMessage
  <2>2. /\ OrNull(m.type, 0) \in Type
        /\ OrNull(m.content, "") \in Text
        /\ OrNull(m.timestamp, 0) \in When
    BY <2>1 DEF OrNull
  <2>3. QED
    BY <2>2 DEF MessageArray
<1>2. ASSUME NEW e \in HEvent PROVE EventArray(e) \in Text \X Text \X Type \X When
  <2>1. /\ e.channelId \in Content /\ e.userId \in Content
        /\ e.type \in 0 .. 6 /\ e.timestamp \in Int
    BY DEF HEvent
  <2>2. /\ OrNull(e.channelId, "") \in Text /\ OrNull(e.userId, "") \in Text
        /\ OrNull(e.type, 0) \in Type /\ OrNull(e.timestamp, 0) \in When
    BY <2>1 DEF OrNull
  <2>3. QED
    BY <2>2 DEF EventArray
<1> HIDE DEF Type, Text, When
<1>3. QED
  BY <1>0, <1>1, <1>2

(* What the script sees of the Packet that was read, *)
LEMMA PacketSeen ==
    ASSUME NEW p \in HPacket
    PROVE  PacketToObject(PacketArray(p)) = Seen(p)
<1>1. p.dataType # Null /\ p.timestamp # Null
  BY NullIsNoValue DEF HPacket
<1>2. PICK a: a = PacketArray(p)
  OBVIOUS
<1>3. /\ a[1] = OrNull(p.dataType, 0) /\ a[2] = OrNull(p.timestamp, 0)
      /\ a[3] = MessageHeld(p) /\ a[4] = EventHeld(p)
  BY <1>2 DEF PacketArray
<1>4. /\ GetFieldWithDefault(a, 1, 0) = p.dataType
      /\ GetFieldWithDefault(a, 2, 0) = p.timestamp
  BY <1>1, <1>3 DEF GetFieldWithDefault, OrNull
<1>5. /\ PacketGetMessage(a) = MessageHeld(p)
      /\ PacketGetEvent(a) = EventHeld(p)
  BY <1>3 DEF PacketGetMessage, PacketGetEvent, GetWrapperField
<1>6. (IF MessageHeld(p) = Null THEN Null ELSE MessageToObject(MessageHeld(p))) = Seen(p).message
  <2>1. CASE p.message = Null
    BY <2>1 DEF MessageHeld, Seen
  <2>2. CASE p.message # Null
    <3>1. PICK m \in HMessage: m = p.message
      BY <2>2 DEF HPacket
    <3>2. MessageHeld(p) = MessageArray(m) /\ MessageArray(m) # Null
      BY <2>2, <3>1, HeldIsThere DEF MessageHeld
    <3>3. MessageToObject(MessageArray(m)) =
             [type |-> m.type, content |-> m.content, timestamp |-> m.timestamp]
      BY MessageSeen
    <3>4. Seen(p).message = [type |-> m.type, content |-> m.content, timestamp |-> m.timestamp]
      BY <2>2, <3>1 DEF Seen
    <3>5. QED
      BY <3>2, <3>3, <3>4
  <2>3. QED
    BY <2>1, <2>2
<1>7. (IF EventHeld(p) = Null THEN Null ELSE EventToObject(EventHeld(p))) = Seen(p).event
  <2>1. CASE p.event = Null
    BY <2>1 DEF EventHeld, Seen
  <2>2. CASE p.event # Null
    <3>1. PICK e \in HEvent: e = p.event
      BY <2>2 DEF HPacket
    <3>2. EventHeld(p) = EventArray(e) /\ EventArray(e) # Null
      BY <2>2, <3>1, HeldIsThere DEF EventHeld
    <3>3. EventToObject(EventArray(e)) =
             [channelid |-> e.channelId, userid |-> e.userId,
              type |-> e.type, timestamp |-> e.timestamp]
      BY EventSeen
    <3>4. Seen(p).event = [channelid |-> e.channelId, userid |-> e.userId,
                           type |-> e.type, timestamp |-> e.timestamp]
      BY <2>2, <3>1 DEF Seen
    <3>5. QED
      BY <3>2, <3>3, <3>4
  <2>3. QED
    BY <2>1, <2>2
<1>8. PacketToObject(a) = [datatype |-> p.dataType, timestamp |-> p.timestamp,
                           message |-> Seen(p).message, event |-> Seen(p).event]
  BY <1>4, <1>5, <1>6, <1>7 DEF PacketToObject
<1>9. Seen(p) = [datatype |-> p.dataType, timestamp |-> p.timestamp,
                 message |-> Seen(p).message, event |-> Seen(p).event]
  BY DEF Seen
<1>10. QED
  BY <1>2, <1>8, <1>9

(* and what it would write: the bytes without the fields it does not know. *)
LEMMA PacketWritten ==
    ASSUME NEW p \in HPacket
    PROVE  PacketToWriter(PacketArray(p)) =
              EncodePacket(Known(p))
<1>1. p.dataType # Null /\ p.timestamp # Null
  BY NullIsNoValue DEF HPacket
<1>2. PICK a: a = PacketArray(p)
  OBVIOUS
<1>3. /\ a[1] = OrNull(p.dataType, 0) /\ a[2] = OrNull(p.timestamp, 0)
      /\ a[3] = MessageHeld(p) /\ a[4] = EventHeld(p)
  BY <1>2 DEF PacketArray
<1>4. PacketGetDatatype(a) = p.dataType /\ PacketGetTimestamp(a) = p.timestamp
  BY <1>1, <1>3 DEF PacketGetDatatype, PacketGetTimestamp, GetFieldWithDefault, OrNull
<1>5. /\ PacketGetMessage(a) = MessageHeld(p)
      /\ PacketGetEvent(a) = EventHeld(p)
  BY <1>3 DEF PacketGetMessage, PacketGetEvent, GetWrapperField
<1>6. PICK q: q = Known(p)
  OBVIOUS
<1>7. q.dataType = p.dataType /\ q.timestamp = p.timestamp /\ q.event = p.event
  BY <1>6 DEF HPacket, Known
<1>8. (IF MessageHeld(p) = Null THEN <<>> ELSE << <<3, MessageToWriter(MessageHeld(p))>> >>)
         = MessagePart(q)
  <2>1. CASE p.message = Null
    BY <1>6, <2>1 DEF MessageHeld, MessagePart, Known
  <2>2. CASE p.message # Null
    <3>1. PICK m \in HMessage: m = p.message
      BY <2>2 DEF HPacket
    <3>2. MessageHeld(p) = MessageArray(m) /\ MessageArray(m) # Null
      BY <2>2, <3>1, HeldIsThere DEF MessageHeld
    <3>3. MessageToWriter(MessageArray(m)) = EncodeMessage([m EXCEPT !.more = FALSE])
      BY MessageSeen
    <3>4. q.message = [m EXCEPT !.more = FALSE]
      BY <1>6, <2>2, <3>1 DEF HPacket, Known
    <3>5. q.message # Null
      <4>1. q.message \in HMessage
        BY <3>4 DEF HMessage
      <4>2. QED
        BY <4>1, NullIsNoMessage DEF HMessage
    <3>6. QED
      BY <3>2, <3>3, <3>4, <3>5 DEF MessagePart
  <2>3. QED
    BY <2>1, <2>2
<1>9. (IF EventHeld(p) = Null THEN <<>> ELSE << <<4, EventToWriter(EventHeld(p))>> >>)
         = EventPart(q)
  <2>1. CASE p.event = Null
    BY <1>7, <2>1 DEF EventHeld, EventPart
  <2>2. CASE p.event # Null
    <3>1. PICK e \in HEvent: e = p.event
      BY <2>2 DEF HPacket
    <3>2. EventHeld(p) = EventArray(e) /\ EventArray(e) # Null
      BY <2>2, <3>1, HeldIsThere DEF EventHeld
    <3>3. EventToWriter(EventArray(e)) = EncodeEvent(e)
      BY EventSeen
    <3>4. QED
      BY <1>7, <2>2, <3>1, <3>2, <3>3 DEF EventPart
  <2>3. QED
    BY <2>1, <2>2
<1>10. EncodePacket(q) = Written(1, p.dataType, 0) \o Written(2, p.timestamp, 0)
                           \o MessagePart(q) \o EventPart(q)
  BY <1>7 DEF EncodePacket, MessagePart, EventPart
<1>11. PacketToWriter(a) = Written(1, p.dataType, 0) \o Written(2, p.timestamp, 0)
                             \o MessagePart(q) \o EventPart(q)
  BY <1>4, <1>5, <1>8, <1>9 DEF PacketToWriter
<1>12. QED
  BY <1>2, <1>6, <1>10, <1>11

(* The codec, for every Packet and every Data *)
LEMMA CodecLemma ==
    /\ \A p \in JPacket: ReadsPacket(p)
    /\ \A d \in JData: ReadsData(d)
<1>1. ASSUME NEW p \in JPacket PROVE ReadsPacket(p)
  BY PacketRead, ReceivedIs, PacketSeen, PacketWritten DEF ReadsPacket
<1>2. ASSUME NEW d \in JData PROVE ReadsData(d)
  <2>1. DataFromReader(EncodeData(d)) = DataArray(Rounded(d)) /\ Rounded(d) \in HData
    BY DataRead, RoundedIs DEF Reads, FromReader
  <2>2. QED
    BY <2>1, DataSeen DEF ReadsData
<1>3. QED
  BY <1>1, <1>2

(* Whatever the contents, times and types, and whatever parts and values a     *)
(* message leaves out, packet_pb.js reads the services' packets as they were   *)
(* built, except that it rounds an int64 past what JavaScript holds by no more *)
(* than one part in Exact, and it writes back what it holds unless that is no  *)
(* int64 (packet_pb.js, deserializeBinary, toObject and serializeBinary;       *)
(* google-protobuf.js, readInt64 and writeInt64).                              *)
THEOREM CodecSafe == Spec => []CodecAgrees
<1>1. CodecAgrees
  <2>1. \A t \in Time: ReadsTime(t)
    BY TimeIsInt64, ReadInt64Is
  <2>2. QED
    BY <2>1, CodecLemma DEF CodecAgrees
<1>2. QED
  BY <1>1, PTL

-----------------------------------------------------------------------------
(* The types *)

(* What nodes send, on its way and as it is handed over *)
Items    == {[packet |-> p, bytes |-> EncodePacket(p)] : p \in Packets}
Readings == {PacketFromReader(EncodePacket(p)) : p \in Packets}

(* No user goes anywhere before its script is set up. *)
Inv ==
    /\ TypeOK
    /\ nodeInfo \in [Script -> Seq(Node)]
    /\ inbox \in [VU -> Seq(Items)]
    /\ heard \in [VU -> Seq(Readings)]
    /\ \A v \in VU: phase[ScriptOf[v]] = "setup" => at[v] = "idle"

(* Nodes send packets of the schema. *)
LEMMA PacketsAre == Packets \subseteq JPacket
BY TrafficAssumption, TimeIsInt64 DEF Packets, Broadcast, JPacket

(* Inv is inductive: it holds at the start, and every action keeps it. *)
LEMMA InvStart == Init => Inv
<1> SUFFICES ASSUME Init PROVE Inv
  OBVIOUS
<1>1. <<>> \in Seq(Node) /\ <<>> \in Seq(Items) /\ <<>> \in Seq(Readings) /\ Len(<<>>) = 0
  OBVIOUS
<1>2. /\ nodeInfo \in [Script -> Seq(Node)] /\ inbox \in [VU -> Seq(Items)]
      /\ heard \in [VU -> Seq(Readings)]
  BY <1>1 DEF Init
<1>3. TypeOK
  BY <1>1, ScriptOfType, FramesAreNat DEF Init, TypeOK
<1>4. QED
  BY <1>2, <1>3, ScriptOfType DEF Inv, Init

(* The connection of one user ends. *)
LEMMA EndsInv ==
    ASSUME Inv, NEW v \in VU, Ends(v)
    PROVE  Inv'
<1>1. /\ at' = [at EXCEPT ![v] = "idle"] /\ link' = [link EXCEPT ![v] = "none"]
      /\ inbox' = [inbox EXCEPT ![v] = <<>>] /\ heard' = [heard EXCEPT ![v] = <<>>]
      /\ up' = up /\ losses' = losses /\ phase' = phase /\ nodeInfo' = nodeInfo
  BY DEF Ends
<1>2. inbox' \in [VU -> Seq(Items)] /\ heard' \in [VU -> Seq(Readings)]
  BY <1>1 DEF Inv
<1>3. TypeOK'
  BY <1>1, FramesAreNat DEF Inv, TypeOK
<1>4. QED
  BY <1>1, <1>2, <1>3 DEF Inv

(* The phases of a test run *)
LEMMA SetupInv ==
    ASSUME Inv, NEW s \in Script, Setup(s) \/ SetupFails(s) \/ Over(s)
    PROVE  Inv'
<1>1. /\ at' = at /\ link' = link /\ inbox' = inbox /\ heard' = heard
      /\ up' = up /\ losses' = losses
  BY DEF Setup, SetupFails, Over, Conn
<1>2. phase' \in [Script -> {"setup", "running", "over"}]
  BY DEF Setup, SetupFails, Over, Inv, TypeOK
<1>3. \A t \in Script: phase'[t] = "setup" => phase[t] = "setup"
  BY DEF Setup, SetupFails, Over, Inv, TypeOK
<1>4. /\ nodeInfo' \in [Script -> Seq(Node)]
      /\ \A t \in Script: Len(nodeInfo'[t]) =< 2
      /\ \A t \in Script: phase[t] # "setup" => nodeInfo'[t] = nodeInfo[t]
  <2>1. CASE Setup(s)
    <3>1. PICK k \in 0 .. 2: \E list \in [1 .. k -> Node]:
             nodeInfo' = [nodeInfo EXCEPT ![s] = list]
      BY <2>1 DEF Setup
    <3>2. PICK list \in [1 .. k -> Node]: nodeInfo' = [nodeInfo EXCEPT ![s] = list]
      BY <3>1
    <3>3. list \in Seq(Node) /\ Len(list) = k
      OBVIOUS
    <3>4. phase[s] = "setup"
      BY <2>1 DEF Setup
    <3>5. QED
      BY <3>2, <3>3, <3>4 DEF Inv, TypeOK
  <2>2. CASE SetupFails(s) \/ Over(s)
    BY <2>2 DEF SetupFails, Over, Inv, TypeOK
  <2>3. QED
    BY <2>1, <2>2
<1>5. TypeOK'
  BY <1>1, <1>2, <1>4, ScriptOfType DEF Inv, TypeOK
<1>6. QED
  BY <1>1, <1>3, <1>4, <1>5, ScriptOfType DEF Inv

(* Going to a node, and the node's answer *)
LEMMA ConnectInv ==
    ASSUME Inv, NEW v \in VU, Iterate(v) \/ Open(v) \/ Refused(v)
    PROVE  Inv'
<1>1. /\ inbox' = inbox /\ heard' = heard /\ nodeInfo' = nodeInfo /\ phase' = phase
      /\ up' = up /\ losses' = losses
  BY DEF Iterate, Open, Refused
<1>2. TypeOK'
  <2>1. CASE Iterate(v)
    BY <2>1 DEF Iterate, Inv, TypeOK
  <2>2. CASE Open(v)
    BY <2>2 DEF Open, Inv, TypeOK
  <2>3. CASE Refused(v)
    BY <2>3 DEF Refused, Inv, TypeOK
  <2>4. QED
    BY <2>1, <2>2, <2>3
<1>3. \A u \in VU: phase'[ScriptOf[u]] = "setup" => at'[u] = "idle"
  BY DEF Iterate, Open, Refused, Inv, TypeOK
<1>4. QED
  BY <1>1, <1>2, <1>3 DEF Inv

(* One more packet on its way *)
LEMMA SendInv ==
    ASSUME Inv, NEW v \in VU, NEW m \in Traffic, NEW now \in Clock, Send(v, m, now)
    PROVE  Inv'
<1> DEFINE p == Broadcast(m, now)
           x == [packet |-> p, bytes |-> EncodePacket(p)]
<1>1. p \in Packets /\ x \in Items
  BY DEF Packets, Items
<1>2. /\ link[v] = "up" /\ Len(inbox[v]) + Len(heard[v]) < MaxFrames
      /\ inbox' = [inbox EXCEPT ![v] = Append(@, x)]
      /\ UNCHANGED <<up, losses, phase, nodeInfo, at, link, heard>>
  BY DEF Send
<1> HIDE DEF p, x
<1>3. PICK b \in Seq(Items): b = inbox[v]
  BY DEF Inv
<1>4. Append(b, x) \in Seq(Items) /\ Len(Append(b, x)) = Len(b) + 1 /\ Len(b) \in Nat
  BY <1>1
<1>5. inbox' = [inbox EXCEPT ![v] = Append(b, x)] /\ inbox' \in [VU -> Seq(Items)]
  BY <1>2, <1>3, <1>4 DEF Inv
<1>6. heard[v] \in Seq(Readings) /\ Len(heard[v]) \in Nat
  BY DEF Inv
<1>7. Len(inbox'[v]) + Len(heard[v]) =< MaxFrames
  BY <1>2, <1>3, <1>4, <1>5, <1>6, FramesAreNat DEF Inv
<1>8. TypeOK'
  BY <1>2, <1>5, <1>7 DEF Inv, TypeOK
<1>9. QED
  BY <1>2, <1>5, <1>8 DEF Inv

(* One packet less on its way, one more handed over *)
LEMMA HearInv ==
    ASSUME Inv, NEW v \in VU, OnBinaryMessage(v)
    PROVE  Inv'
<1>1. PICK b \in Seq(Items), h \in Seq(Readings): b = inbox[v] /\ h = heard[v]
  BY DEF Inv
<1>2. PICK y: y = PacketFromReader(Head(b).bytes)
  OBVIOUS
<1>3. /\ b # <<>> /\ heard' = [heard EXCEPT ![v] = Append(h, y)]
      /\ inbox' = [inbox EXCEPT ![v] = Tail(b)]
      /\ UNCHANGED <<up, losses, phase, nodeInfo, at, link>>
  BY <1>1, <1>2 DEF OnBinaryMessage
<1>4. y \in Readings
  <2>1. Head(b) \in Items
    BY <1>3
  <2>2. PICK p \in Packets: Head(b) = [packet |-> p, bytes |-> EncodePacket(p)]
    BY <2>1 DEF Items
  <2>3. y = PacketFromReader(EncodePacket(p))
    BY <1>2, <2>2
  <2>4. QED
    BY <2>3 DEF Readings
<1>5. /\ Append(h, y) \in Seq(Readings) /\ Len(Append(h, y)) = Len(h) + 1 /\ Len(h) \in Nat
      /\ Tail(b) \in Seq(Items) /\ Len(Tail(b)) = Len(b) - 1 /\ Len(b) \in Nat
  BY <1>3, <1>4
<1>6. inbox' \in [VU -> Seq(Items)] /\ heard' \in [VU -> Seq(Readings)]
  BY <1>3, <1>5 DEF Inv
<1>7. Len(inbox'[v]) + Len(heard'[v]) = Len(inbox[v]) + Len(heard[v])
  BY <1>1, <1>3, <1>5 DEF Inv
<1>8. link[v] # "none"
  BY <1>1, <1>3 DEF Inv, TypeOK
<1>9. TypeOK'
  BY <1>3, <1>7, <1>8, <1>6 DEF Inv, TypeOK
<1>10. QED
  BY <1>3, <1>6, <1>9 DEF Inv

(* Losses, and nodes that come back *)
LEMMA NetworkInv ==
    ASSUME Inv, Network
    PROVE  Inv'
<1>1. /\ phase' = phase /\ nodeInfo' = nodeInfo /\ at' = at /\ inbox' = inbox /\ heard' = heard
  BY DEF Network, Drop, NodeUp, NodeDown, Conn
<1>2. up' \subseteq Node /\ losses' \in 0 .. MaxLosses
  <2>1. up' = up \/ \E n \in Node: up' = up \cup {n} \/ up' = up \ {n}
    BY DEF Network, Drop, NodeUp, NodeDown
  <2>2. losses' = losses \/ (losses < MaxLosses /\ losses' = losses + 1)
    BY DEF Network, Drop, NodeUp, NodeDown
  <2>3. QED
    BY <2>1, <2>2, FramesAreNat DEF Inv, TypeOK
<1> DEFINE Kept == /\ link' \in [VU -> {"none", "up", "closed", "silent"}]
                   /\ \A v \in VU: link'[v] = "none" <=> link[v] = "none"
<1>3. Kept
  <2>1. ASSUME NEW v \in VU, NEW how \in {"closed", "silent"}, Drop(v, how)
        PROVE  Kept
    BY <2>1 DEF Drop, Inv, TypeOK
  <2>2. ASSUME NEW n \in Node, NEW how \in {"closed", "silent"}, NodeDown(n, how)
        PROVE  Kept
    BY <2>2 DEF NodeDown, Inv, TypeOK
  <2>3. ASSUME NEW n \in Node, NodeUp(n)
        PROVE  Kept
    BY <2>3 DEF NodeUp, Conn, Inv, TypeOK
  <2>4. QED
    BY <2>1, <2>2, <2>3 DEF Network
<1>4. TypeOK'
  BY <1>1, <1>2, <1>3 DEF Inv, TypeOK
<1>5. QED
  BY <1>1, <1>4 DEF Inv

LEMMA InvStep == Inv /\ [Next]_vars => Inv'
<1> SUFFICES ASSUME Inv, [Next]_vars PROVE Inv'
  OBVIOUS
<1>1. CASE UNCHANGED vars
  BY <1>1 DEF vars, Inv, TypeOK
<1>2. ASSUME NEW v \in VU, User(v) PROVE Inv'
  BY <1>2, ConnectInv, EndsInv DEF User, OnClose, Interval
<1>3. ASSUME NEW v \in VU, Interrupt(v) PROVE Inv'
  BY <1>3, EndsInv DEF Interrupt
<1>4. QED
  BY <1>1, <1>2, <1>3, SetupInv, SendInv, HearInv, NetworkInv DEF Next

(* The scripts, their users and connections keep their types for any number of *)
(* them; a user has a connection exactly while its iteration is in ws.connect, *)
(* what was under way on one never outlasts it, and no user connects before    *)
(* setup has given it a node (script.js, setup and default).                   *)
THEOREM TypeCorrect == Spec => []TypeOK
<1>1. Inv => TypeOK
  BY DEF Inv
<1>2. QED
  BY <1>1, InvStart, InvStep, PTL DEF Spec

-----------------------------------------------------------------------------
(* The refinement of Delivery *)

(* The values of packets handed over, and of packets on their way *)
Handed(h) == [i \in 1 .. Len(h) |-> PacketToObject(h[i])]
Coming(b) == [i \in 1 .. Len(b) |-> ToHear[b[i].packet]]
ToSend    == {ToHear[p] : p \in Packets}

SentTo    == [v \in VU |-> Log(v) \o OnTheWay(v)]
HeardBy   == [v \in VU |-> Log(v)]

(* What is handed over has the values it should have, by CodecLemma. *)
LEMMA ReadingSeen ==
    ASSUME NEW p \in Packets
    PROVE  PacketToObject(PacketFromReader(EncodePacket(p))) = ToHear[p]
BY PacketsAre, CodecLemma DEF ReadsPacket, ToHear

(* The two logs, as sequences of such values, one packet more or less *)
LEMMA HandedType ==
    ASSUME NEW h \in Seq(Readings)
    PROVE  /\ Handed(h) \in Seq(ToSend) /\ Len(Handed(h)) = Len(h)
           /\ \A i \in 1 .. Len(h): Handed(h)[i] = PacketToObject(h[i])
           /\ \A x \in Readings: PacketToObject(x) \in ToSend
<1>1. \A x \in Readings: PacketToObject(x) \in ToSend
  <2> SUFFICES ASSUME NEW x \in Readings PROVE PacketToObject(x) \in ToSend
    OBVIOUS
  <2>1. PICK p \in Packets: x = PacketFromReader(EncodePacket(p))
    BY DEF Readings
  <2>2. PacketToObject(x) = ToHear[p]
    BY <2>1, ReadingSeen
  <2>3. QED
    BY <2>2 DEF ToSend
<1>2. Len(h) \in Nat /\ \A i \in 1 .. Len(h): PacketToObject(h[i]) \in ToSend
  BY <1>1
<1>3. QED
  BY <1>1, <1>2 DEF Handed

LEMMA HandedAppend ==
    ASSUME NEW h \in Seq(Readings), NEW y \in Readings
    PROVE  Handed(Append(h, y)) = Append(Handed(h), PacketToObject(y))
<1>1. /\ \A i \in 1 .. Len(h): Append(h, y)[i] = h[i]
      /\ Append(h, y)[Len(h) + 1] = y /\ Append(h, y) \in Seq(Readings)
      /\ Len(Append(h, y)) = Len(h) + 1 /\ Len(h) \in Nat
  OBVIOUS
<1>2. PICK c: c = Append(h, y)
  OBVIOUS
<1>3. /\ Handed(c) \in Seq(ToSend) /\ Len(Handed(c)) = Len(h) + 1
      /\ \A i \in 1 .. Len(h) + 1: Handed(c)[i] = PacketToObject(c[i])
  BY <1>1, <1>2, HandedType
<1>4. PICK g, z: g = Handed(h) /\ z = PacketToObject(y)
  OBVIOUS
<1>5. /\ g \in Seq(ToSend) /\ Len(g) = Len(h) /\ z \in ToSend
      /\ \A i \in 1 .. Len(h): g[i] = PacketToObject(h[i])
  BY <1>4, HandedType
<1>6. /\ Append(g, z) \in Seq(ToSend) /\ Len(Append(g, z)) = Len(h) + 1
      /\ \A i \in 1 .. Len(h): Append(g, z)[i] = g[i]
      /\ Append(g, z)[Len(h) + 1] = z
  BY <1>5, AppendProperties
<1>7. \A i \in 1 .. Len(h) + 1: Handed(c)[i] = Append(g, z)[i]
  BY <1>1, <1>2, <1>3, <1>4, <1>5, <1>6
<1>8. Handed(c) = Append(g, z)
  BY <1>3, <1>6, <1>7, SeqEqual
<1>9. QED
  BY <1>2, <1>4, <1>8

LEMMA ComingIs ==
    ASSUME NEW b \in Seq(Items)
    PROVE  /\ Coming(b) \in Seq(ToSend) /\ Len(Coming(b)) = Len(b)
           /\ \A i \in 1 .. Len(b): Coming(b)[i] = ToHear[b[i].packet]
<1>1. \A i \in 1 .. Len(b): ToHear[b[i].packet] \in ToSend
  <2> SUFFICES ASSUME NEW i \in 1 .. Len(b) PROVE ToHear[b[i].packet] \in ToSend
    OBVIOUS
  <2>1. b[i] \in Items
    OBVIOUS
  <2>2. PICK p \in Packets: b[i] = [packet |-> p, bytes |-> EncodePacket(p)]
    BY <2>1 DEF Items
  <2>3. QED
    BY <2>2 DEF ToSend
<1>2. Len(b) \in Nat
  OBVIOUS
<1>3. QED
  BY <1>1, <1>2 DEF Coming

LEMMA ComingAppend ==
    ASSUME NEW b \in Seq(Items), NEW x \in Items
    PROVE  Coming(Append(b, x)) = Append(Coming(b), ToHear[x.packet])
<1>1. /\ \A i \in 1 .. Len(b): Append(b, x)[i] = b[i]
      /\ Append(b, x)[Len(b) + 1] = x
      /\ Len(Append(b, x)) = Len(b) + 1 /\ Len(b) \in Nat
  OBVIOUS
<1>2. PICK c, g: c = Append(b, x) /\ g = Coming(b)
  OBVIOUS
<1>3. Coming(c) = [i \in 1 .. Len(b) + 1 |-> IF i = Len(b) + 1 THEN ToHear[x.packet]
                                             ELSE ToHear[b[i].packet]]
  BY <1>1, <1>2 DEF Coming
<1>4. Append(g, ToHear[x.packet]) =
         [i \in 1 .. Len(b) + 1 |-> IF i = Len(b) + 1 THEN ToHear[x.packet]
                                    ELSE ToHear[b[i].packet]]
  BY <1>1, <1>2, ComingIs
<1>5. QED
  BY <1>2, <1>3, <1>4

LEMMA ComingTail ==
    ASSUME NEW b \in Seq(Items), b # <<>>
    PROVE  /\ Coming(b) # <<>> /\ Head(Coming(b)) = ToHear[Head(b).packet]
           /\ Coming(Tail(b)) = Tail(Coming(b))
<1>1. /\ Len(b) \in Nat /\ Len(b) > 0 /\ Head(b) = b[1]
      /\ Tail(b) \in Seq(Items) /\ Len(Tail(b)) = Len(b) - 1
      /\ \A i \in 1 .. Len(b) - 1: Tail(b)[i] = b[i + 1]
  OBVIOUS
<1>2. PICK c, g: c = Tail(b) /\ g = Coming(b)
  OBVIOUS
<1>3. /\ g \in Seq(ToSend) /\ Len(g) = Len(b)
      /\ \A i \in 1 .. Len(b): g[i] = ToHear[b[i].packet]
  BY <1>2, ComingIs
<1>4. g # <<>> /\ Head(g) = ToHear[Head(b).packet]
  BY <1>1, <1>3
<1>5. /\ Coming(c) \in Seq(ToSend) /\ Len(Coming(c)) = Len(b) - 1
      /\ \A i \in 1 .. Len(b) - 1: Coming(c)[i] = ToHear[b[i + 1].packet]
  <2>1. c \in Seq(Items) /\ Len(c) = Len(b) - 1
    BY <1>1, <1>2
  <2>2. /\ Coming(c) \in Seq(ToSend) /\ Len(Coming(c)) = Len(c)
        /\ \A i \in 1 .. Len(c): Coming(c)[i] = ToHear[c[i].packet]
    BY <2>1, ComingIs
  <2>3. QED
    BY <1>1, <1>2, <2>1, <2>2
<1>6. /\ Tail(g) \in Seq(ToSend) /\ Len(Tail(g)) = Len(g) - 1
      /\ \A i \in 1 .. Len(g) - 1: Tail(g)[i] = g[i + 1]
  BY <1>3, <1>4, HeadTailProperties
<1>7. \A i \in 1 .. Len(b) - 1: Tail(g)[i] = ToHear[b[i + 1].packet]
  <2>1. \A i \in 1 .. Len(b) - 1: i \in 1 .. Len(g) - 1 /\ i + 1 \in 1 .. Len(b)
    BY <1>1, <1>3
  <2>2. QED
    BY <1>3, <1>6, <2>1
<1>8. Coming(c) = Tail(g)
  BY <1>3, <1>5, <1>6, <1>7, SeqEqual
<1>9. QED
  BY <1>2, <1>4, <1>8

(* A value that moves from the second sequence to the first leaves their       *)
(* concatenation as it is.                                                     *)
LEMMA MoveOver ==
    ASSUME NEW T, NEW s \in Seq(T), NEW t \in Seq(T)
    PROVE  /\ \A e \in T: s \o Append(t, e) = Append(s \o t, e)
           /\ t # <<>> => /\ Append(s, Head(t)) \o Tail(t) = s \o t
                          /\ (s \o t)[Len(s) + 1] = Head(t)
                          /\ Len(s) < Len(s \o t)
<1>1. ASSUME NEW e \in T PROVE s \o Append(t, e) = Append(s \o t, e)
  <2>1. <<e>> \in Seq(T) /\ s \o t \in Seq(T)
    OBVIOUS
  <2>2. Append(t, e) = t \o <<e>> /\ Append(s \o t, e) = (s \o t) \o <<e>>
    BY <2>1, AppendIsConcat
  <2>3. QED
    BY <2>1, <2>2, ConcatAssociative
<1>2. CASE t # <<>>
  <2>1. Head(t) \in T /\ Tail(t) \in Seq(T) /\ Len(t) \in Nat /\ Len(t) > 0
    BY <1>2
  <2>2. <<Head(t)>> \in Seq(T) /\ t = <<Head(t)>> \o Tail(t)
    BY <1>2
  <2>3. Append(s, Head(t)) = s \o <<Head(t)>>
    BY <2>1, AppendIsConcat
  <2>4. Append(s, Head(t)) \o Tail(t) = s \o t
    BY <2>1, <2>2, <2>3, ConcatAssociative
  <2>5. (s \o t)[Len(s) + 1] = Head(t) /\ Len(s) < Len(s \o t)
    BY <1>2, <2>1
  <2>6. QED
    BY <1>1, <2>4, <2>5
<1>3. QED
  BY <1>1, <1>2

(* The substituted variables of Delivery, for one user *)
LEMMA LogIs ==
    ASSUME NEW v \in VU
    PROVE  /\ SentTo[v] = Handed(heard[v]) \o Coming(inbox[v])
           /\ HeardBy[v] = Handed(heard[v])
           /\ SentTo'[v] = Handed(heard'[v]) \o Coming(inbox'[v])
           /\ HeardBy'[v] = Handed(heard'[v])
BY DEF SentTo, HeardBy, Log, OnTheWay, Handed, Coming

(* What has been sent and heard starts empty, like the connection. *)
LEMMA NothingYet ==
    /\ Handed(<<>>) = <<>> /\ Coming(<<>>) = <<>>
    /\ <<>> \o <<>> = <<>>
<1>1. Len(<<>>) = 0 /\ <<>> \in Seq(Items) /\ <<>> \in Seq(Readings)
  OBVIOUS
<1>2. Handed(<<>>) = <<>> /\ Coming(<<>>) = <<>>
  BY <1>1 DEF Handed, Coming
<1>3. QED
  BY <1>2

(* A step that changes what is on its way and what was handed over to v only.  *)
LEMMA OnlyOne ==
    ASSUME Inv, NEW v \in VU, NEW b \in Seq(Items), NEW h \in Seq(Readings),
           inbox' = [inbox EXCEPT ![v] = b], heard' = [heard EXCEPT ![v] = h]
    PROVE  /\ SentTo' = [SentTo EXCEPT ![v] = Handed(h) \o Coming(b)]
           /\ HeardBy' = [HeardBy EXCEPT ![v] = Handed(h)]
<1>1. /\ \A u \in VU: u # v => inbox'[u] = inbox[u] /\ heard'[u] = heard[u]
      /\ inbox'[v] = b /\ heard'[v] = h
  BY DEF Inv
<1>2. /\ SentTo = [u \in VU |-> SentTo[u]] /\ HeardBy = [u \in VU |-> HeardBy[u]]
      /\ SentTo' = [u \in VU |-> SentTo'[u]] /\ HeardBy' = [u \in VU |-> HeardBy'[u]]
  BY DEF SentTo, HeardBy
<1>3. \A u \in VU: u # v => SentTo'[u] = SentTo[u] /\ HeardBy'[u] = HeardBy[u]
  <2> SUFFICES ASSUME NEW u \in VU, u # v
               PROVE  SentTo'[u] = SentTo[u] /\ HeardBy'[u] = HeardBy[u]
    OBVIOUS
  <2>1. inbox'[u] = inbox[u] /\ heard'[u] = heard[u]
    BY <1>1
  <2>2. /\ SentTo[u] = Handed(heard[u]) \o Coming(inbox[u]) /\ HeardBy[u] = Handed(heard[u])
        /\ SentTo'[u] = Handed(heard'[u]) \o Coming(inbox'[u])
        /\ HeardBy'[u] = Handed(heard'[u])
    BY LogIs
  <2>3. QED
    BY <2>1, <2>2
<1>4. SentTo'[v] = Handed(h) \o Coming(b) /\ HeardBy'[v] = Handed(h)
  BY <1>1, LogIs
<1>5. QED
  BY <1>2, <1>3, <1>4

(* The first state, and each kind of step, as Delivery has them *)
LEMMA StartMaps == Init => Promise!Init
<1> SUFFICES ASSUME Init PROVE Promise!Init
  OBVIOUS
<1>1. \A v \in VU: SentTo[v] = <<>> /\ HeardBy[v] = <<>>
  BY LogIs, NothingYet DEF Init
<1>2. SentTo = [v \in VU |-> <<>>] /\ HeardBy = [v \in VU |-> <<>>]
  BY <1>1 DEF SentTo, HeardBy
<1>3. QED
  BY <1>2 DEF Promise!Init, SentTo, HeardBy

(* Send writes one more packet. *)
LEMMA SendMaps ==
    ASSUME Inv, NEW v \in VU, NEW m \in Traffic, NEW now \in Clock, Send(v, m, now)
    PROVE  Promise!Next
<1>1. PICK p: p = Broadcast(m, now)
  OBVIOUS
<1>2. PICK x: x = [packet |-> p, bytes |-> EncodePacket(p)]
  OBVIOUS
<1>3. p \in Packets /\ x \in Items /\ x.packet = p
  BY <1>1, <1>2 DEF Packets, Items
<1>4. PICK b \in Seq(Items): b = inbox[v]
  BY DEF Inv
<1>5. PICK h \in Seq(Readings): h = heard[v]
  BY DEF Inv
<1>6. inbox' = [inbox EXCEPT ![v] = Append(b, x)] /\ heard' = [heard EXCEPT ![v] = h]
  BY <1>1, <1>2, <1>4, <1>5 DEF Send, Inv
<1>7. Append(b, x) \in Seq(Items)
  BY <1>3
<1>8. /\ SentTo' = [SentTo EXCEPT ![v] = Handed(h) \o Coming(Append(b, x))]
      /\ HeardBy' = [HeardBy EXCEPT ![v] = Handed(h)]
  BY <1>6, <1>7, OnlyOne
<1>9. Handed(h) \o Coming(Append(b, x)) = Append(SentTo[v], ToHear[p])
  <2>1. Handed(h) \in Seq(ToSend) /\ Coming(b) \in Seq(ToSend) /\ ToHear[p] \in ToSend
    BY <1>3, HandedType, ComingIs DEF ToSend
  <2>2. Coming(Append(b, x)) = Append(Coming(b), ToHear[p])
    BY <1>3, ComingAppend
  <2>3. SentTo[v] = Handed(h) \o Coming(b)
    BY <1>4, <1>5, LogIs
  <2>4. QED
    BY <2>1, <2>2, <2>3, MoveOver
<1>10. HeardBy[v] = Handed(h) /\ HeardBy' = HeardBy
  <2>1. HeardBy[v] = Handed(h)
    BY <1>5, LogIs
  <2>2. QED
    BY <1>8, <2>1 DEF HeardBy
<1>11. SentTo' = [SentTo EXCEPT ![v] = Append(@, ToHear[p])]
  BY <1>8, <1>9
<1>12. Promise!Put(v, ToHear[p])
  BY <1>10, <1>11 DEF Promise!Put, SentTo, HeardBy
<1>13. QED
  BY <1>3, <1>12 DEF Promise!Next

(* OnBinaryMessage hands over the next packet of those sent. *)
LEMMA GetMaps ==
    ASSUME Inv, NEW v \in VU, OnBinaryMessage(v)
    PROVE  Promise!Next
<1>1. PICK b \in Seq(Items): b = inbox[v]
  BY DEF Inv
<1>2. PICK h \in Seq(Readings): h = heard[v]
  BY DEF Inv
<1>3. b # <<>> /\ Head(b) \in Items /\ Tail(b) \in Seq(Items)
  BY <1>1 DEF OnBinaryMessage
<1>4. PICK p \in Packets: Head(b) = [packet |-> p, bytes |-> EncodePacket(p)]
  BY <1>3 DEF Items
<1>5. PICK y \in Readings: y = PacketFromReader(EncodePacket(p))
  BY DEF Readings
<1>6. PacketToObject(y) = ToHear[p] /\ Head(b).packet = p /\ Head(b).bytes = EncodePacket(p)
  BY <1>4, <1>5, ReadingSeen
<1>7. inbox' = [inbox EXCEPT ![v] = Tail(b)] /\ heard' = [heard EXCEPT ![v] = Append(h, y)]
  BY <1>1, <1>2, <1>5, <1>6 DEF OnBinaryMessage, Inv
<1>8. Append(h, y) \in Seq(Readings)
  OBVIOUS
<1>9. /\ SentTo' = [SentTo EXCEPT ![v] = Handed(Append(h, y)) \o Coming(Tail(b))]
      /\ HeardBy' = [HeardBy EXCEPT ![v] = Handed(Append(h, y))]
  BY <1>3, <1>7, <1>8, OnlyOne
<1>10. PICK s, t: s = Handed(h) /\ t = Coming(b)
  OBVIOUS
<1>11. /\ s \in Seq(ToSend) /\ t \in Seq(ToSend) /\ t # <<>> /\ Head(t) = ToHear[p]
       /\ Coming(Tail(b)) = Tail(t) /\ Handed(Append(h, y)) = Append(s, ToHear[p])
  BY <1>3, <1>6, <1>10, HandedType, HandedAppend, ComingIs, ComingTail
<1>12. SentTo[v] = s \o t /\ HeardBy[v] = s
  BY <1>1, <1>2, <1>10, LogIs
<1>13. /\ Append(s, Head(t)) \o Tail(t) = s \o t
       /\ (s \o t)[Len(s) + 1] = Head(t) /\ Len(s) < Len(s \o t)
  BY <1>11, MoveOver
<1>14. SentTo' = SentTo
  BY <1>9, <1>11, <1>12, <1>13 DEF SentTo
<1>15. /\ HeardBy' = [HeardBy EXCEPT ![v] = Append(@, SentTo[v][Len(@) + 1])]
       /\ Len(HeardBy[v]) < Len(SentTo[v])
  BY <1>9, <1>11, <1>12, <1>13
<1>16. Promise!Get(v)
  BY <1>14, <1>15 DEF Promise!Get, SentTo, HeardBy
<1>17. QED
  BY <1>16 DEF Promise!Next

(* When the connection ends, the rest is lost. *)
LEMMA EndMaps ==
    ASSUME Inv, NEW v \in VU, Ends(v)
    PROVE  Promise!Next
<1>1. /\ inbox' = [inbox EXCEPT ![v] = <<>>] /\ heard' = [heard EXCEPT ![v] = <<>>]
      /\ <<>> \in Seq(Items) /\ <<>> \in Seq(Readings)
  BY DEF Ends
<1>2. SentTo' = [SentTo EXCEPT ![v] = <<>>] /\ HeardBy' = [HeardBy EXCEPT ![v] = <<>>]
  <2>1. /\ SentTo' = [SentTo EXCEPT ![v] = Handed(<<>>) \o Coming(<<>>)]
        /\ HeardBy' = [HeardBy EXCEPT ![v] = Handed(<<>>)]
    BY <1>1, OnlyOne
  <2>2. Handed(<<>>) \o Coming(<<>>) = <<>> /\ Handed(<<>>) = <<>>
    BY NothingYet
  <2>3. QED
    BY <2>1, <2>2
<1>3. Promise!Cut(v)
  BY <1>2 DEF Promise!Cut, SentTo, HeardBy
<1>4. QED
  BY <1>3 DEF Promise!Next

-----------------------------------------------------------------------------
(* For any scripts, users, nodes, messages and bounds, what a script is handed *)
(* over one connection follows Delivery: what the node wrote, in order, once,  *)
(* with its values as JavaScript holds them, until the connection ends         *)
(* (script.js, binaryMessage).                                                 *)
THEOREM DeliveryRefined == Spec => DeliveryHolds
<1>1. Inv /\ [Next]_vars => [Promise!Next]_<<SentTo, HeardBy>>
  <2> SUFFICES ASSUME Inv, [Next]_vars
               PROVE  Promise!Next \/ UNCHANGED <<SentTo, HeardBy>>
    OBVIOUS
  <2>1. CASE UNCHANGED <<inbox, heard>>
    BY <2>1 DEF SentTo, HeardBy, Log, OnTheWay
  <2>2. CASE \E s \in Script: Setup(s) \/ SetupFails(s) \/ Over(s)
    BY <2>1, <2>2 DEF Setup, SetupFails, Over, Conn
  <2>3. ASSUME NEW v \in VU, Iterate(v) \/ Open(v) \/ Refused(v)
        PROVE  Promise!Next \/ UNCHANGED <<SentTo, HeardBy>>
    BY <2>1, <2>3 DEF Iterate, Open, Refused
  <2>4. ASSUME NEW v \in VU, OnClose(v) \/ Interval(v) \/ Interrupt(v) PROVE Promise!Next
    BY <2>4, EndMaps DEF OnClose, Interval, Interrupt
  <2>5. ASSUME NEW v \in VU, OnBinaryMessage(v) PROVE Promise!Next
    BY <2>5, GetMaps
  <2>6. ASSUME NEW v \in VU, NEW m \in Traffic, NEW now \in Clock, Send(v, m, now)
        PROVE  Promise!Next
    BY <2>6, SendMaps
  <2>7. CASE Network
    BY <2>1, <2>7 DEF Network, Drop, NodeUp, NodeDown, Conn
  <2>8. CASE UNCHANGED vars
    BY <2>1, <2>8 DEF vars
  <2>9. QED
    BY <2>2, <2>3, <2>4, <2>5, <2>6, <2>7, <2>8 DEF Next, User
<1>2. Inv /\ [Next]_vars => Inv'
  BY InvStep
<1>3. Init => Promise!Init
  BY StartMaps
<1>4. Init => Inv
  BY InvStart
<1>5. QED
  BY <1>1, <1>2, <1>3, <1>4, PTL DEF Spec, DeliveryHolds, Promise!Spec, SentTo, HeardBy
=============================================================================
