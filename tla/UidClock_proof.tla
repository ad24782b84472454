--------------------------- MODULE UidClock_proof ---------------------------
(***************************************************************************)
(* Proofs about the UIDs of UidClock, for any number of instances, any     *)
(* widths of the fields and any movement of the clock.                     *)
(*                                                                         *)
(* UniqueUid is not inductive: a new UID differs from the old ones because *)
(* each of those was made by another start of the service, which had       *)
(* another worker id, or before, which Fresh says in terms of the second   *)
(* and the sequence the generator stands at.                               *)
(***************************************************************************)
EXTENDS UidClock, TLAPS

Worker   == 1 .. MaxWorkerId
Sequence == 0 .. MaxSequence
Second   == 0 .. 2 * 2^TimeBits - 1

Up(p) == gen[p].at # "down"

(* The generator of p is past this second and sequence. *)
Past(p, d, s) ==
    \/ d < gen[p].lastSecond
    \/ d = gen[p].lastSecond /\ (p \in Cached \/ gen[p].at = "wait" \/ s =< gen[p].sequence)

(* u was made with worker id w at sequence s of second d. *)
MadeAt(u, d, w, s) ==
    /\ u = Allocate(d, w, s)
    /\ w =< rows
    /\ \A p \in Instance: Up(p) /\ gen[p].workerId = w => Past(p, d, s)

Fresh == \A u \in issued: \E d \in Second, w \in Worker, s \in Sequence: MadeAt(u, d, w, s)

(* p hands out sequences ss of second d, past all it has handed out before.    *)
Issues(p, d, ss) ==
    /\ Up(p) /\ gen'[p].at = "ready"
    /\ gen'[p].workerId = gen[p].workerId /\ gen'[p].lastSecond = d
    /\ \A q \in Instance: q # p => gen'[q] = gen[q]
    /\ \/ gen[p].lastSecond < d
       \/ /\ gen[p].lastSecond = d /\ p \notin Cached /\ gen[p].at # "wait"
          /\ gen[p].sequence < gen'[p].sequence
    /\ p \notin Cached => d =< MaxDeltaSeconds /\ ss = {gen'[p].sequence}
    /\ HandOut({Allocate(d, gen[p].workerId, s) : s \in ss})
    /\ rows' = rows /\ exhausted' = exhausted

(* p, if it runs, is new or is past all it was past before. *)
Keeps(p) ==
    \/ ~Up(p)'
    \/ gen'[p].workerId > rows
    \/ /\ Up(p) /\ gen'[p].workerId = gen[p].workerId
       /\ \A d \in Second, s \in Sequence: Past(p, d, s) => Past(p, d, s)'

(* Every running instance has a worker id of its own. *)
Workers ==
    /\ \A p \in Instance: Up(p) => gen[p].workerId \in Worker /\ gen[p].workerId =< rows
    /\ \A p, q \in Instance:
          p # q /\ Up(p) /\ Up(q) => gen[p].workerId # gen[q].workerId

(* What a generator may rely on between the steps of a call. *)
Locals ==
    \A p \in Instance:
        /\ gen[p].lastSecond >= -1
        /\ gen[p].at = "down" => gen[p].workerId = 0
        /\ gen[p].at = "compare" => gen[p].now \in 0 .. MaxDeltaSeconds
        /\ gen[p].at = "wait" => gen[p].sequence = 0
        /\ p \in Cached => gen[p].at \in {"down", "ready"}
        /\ p \in Cached /\ Up(p) => gen[p].lastSecond >= 0

ClockInv == TypeOK /\ Workers /\ Locals /\ (~exhausted => Fresh /\ ~repeated)

-----------------------------------------------------------------------------
(* Numbers written with digits *)

LEMMA Multiple ==
    ASSUME NEW n \in Int, NEW b \in Nat, b * n < b, 0 < b * n
    PROVE  FALSE
<1>1. CASE n =< 0
  BY <1>1
<1>2. CASE n >= 1
  <2>1. b * n >= b * 1
    BY <1>2
  <2>2. QED
    BY <2>1
<1>3. QED
  BY <1>1, <1>2

LEMMA Digits ==
    ASSUME NEW b \in Nat, b >= 1, NEW m \in Int, NEW n \in Int,
           NEW x \in 0 .. b - 1, NEW y \in 0 .. b - 1, m * b + x = n * b + y
    PROVE  m = n /\ x = y
<1>1. b * (m - n) = y - x /\ b * (n - m) = x - y
  OBVIOUS
<1>2. m - n \in Int /\ n - m \in Int /\ y - x < b /\ x - y < b
  OBVIOUS
<1>3. ~(0 < y - x) /\ ~(0 < x - y)
  BY <1>1, <1>2, Multiple
<1>4. x = y
  BY <1>3
<1>5. b * (m - n) = 0
  BY <1>1, <1>4
<1>6. m = n
  BY <1>5
<1>7. QED
  BY <1>4, <1>6

LEMMA DivMod ==
    ASSUME NEW b \in Nat, b >= 1, NEW m \in Nat, NEW x \in 0 .. b - 1
    PROVE  (m * b + x) \div b = m /\ (m * b + x) % b = x
<1> DEFINE v == m * b + x
           q == v \div b
           r == v % b
<1>0. v \in Nat
  BY SMT
<1>1. q \in Int /\ r \in 0 .. b - 1 /\ v = b * q + r
  BY <1>0 DEF q, r
<1> HIDE DEF q, r
<1>2. q * b + r = m * b + x
  BY <1>1 DEF v
<1>3. q = m /\ r = x
  BY <1>1, <1>2, Digits
<1>4. QED
  BY <1>3 DEF q, r

LEMMA Scaled ==
    ASSUME NEW b \in Nat, NEW m \in Nat, NEW n \in Nat, m < n, NEW x \in 0 .. b - 1
    PROVE  m * b + x < n * b /\ m * b + x \in Nat /\ m * b + x >= m * b
<1>1. n - m - 1 \in Nat /\ m * b \in Nat /\ n * b \in Nat
  OBVIOUS
<1>2. (n - m - 1) * b \in Nat
  BY <1>1
<1>3. n * b = m * b + b + (n - m - 1) * b
  OBVIOUS
<1>4. QED
  BY <1>1, <1>2, <1>3

-----------------------------------------------------------------------------
(* The layout of BitsAllocator *)

LEMMA Widths ==
    /\ 2^TimeBits \in Nat /\ 2^TimeBits >= 1
    /\ 2^WorkerBits \in Nat /\ 2^WorkerBits >= 1
    /\ 2^SeqBits \in Nat /\ 2^SeqBits >= 1
    /\ 2^TimestampShift = 2^WorkerBits * 2^SeqBits
    /\ 2^TimestampShift \in Nat /\ 2^TimestampShift >= 1
    /\ SignBit = 2^TimeBits * 2^TimestampShift
    /\ SignBit \in Nat /\ SignBit >= 1
    /\ 2 * SignBit = (2 * 2^TimeBits) * 2^TimestampShift
<1>1. /\ 2^TimeBits \in Nat /\ 2^TimeBits >= 1
      /\ 2^WorkerBits \in Nat /\ 2^WorkerBits >= 1
      /\ 2^SeqBits \in Nat /\ 2^SeqBits >= 1
  BY PowersAssumption
<1>2. /\ 2^TimestampShift = 2^WorkerBits * 2^SeqBits
      /\ SignBit = 2^TimeBits * 2^TimestampShift
  BY PowersAssumption DEF TimestampShift, SignBit
<1>3. ASSUME NEW a \in Nat, NEW b \in Nat, a >= 1, b >= 1
      PROVE  a * b \in Nat /\ a * b >= 1 /\ 2 * (a * b) = (2 * a) * b
  BY <1>3
<1>4. 2^TimestampShift \in Nat /\ 2^TimestampShift >= 1
  BY <1>1, <1>2, <1>3
<1>5. QED
  BY <1>1, <1>2, <1>3, <1>4

(* Within its widths, allocate adds three digits up. *)
LEMMA Layout ==
    ASSUME NEW d \in Second, NEW w \in 0 .. MaxWorkerId, NEW s \in Sequence
    PROVE  /\ w * 2^SeqBits + s \in 0 .. 2^TimestampShift - 1
           /\ Allocate(d, w, s) = d * 2^TimestampShift + (w * 2^SeqBits + s)
           /\ Allocate(d, w, s) \in Uid
           /\ d =< MaxDeltaSeconds => Allocate(d, w, s) < SignBit
<1> DEFINE T == 2^TimestampShift
           W == 2^WorkerBits
           S == 2^SeqBits
           D == 2^TimeBits
<1>1. /\ T \in Nat /\ T >= 1 /\ W \in Nat /\ S \in Nat /\ D \in Nat /\ T = W * S
      /\ SignBit = D * T /\ 2 * SignBit = (2 * D) * T /\ SignBit \in Nat
  BY Widths
<1>2. /\ d \in Nat /\ d < 2 * D /\ w \in Nat /\ w < W /\ s \in 0 .. S - 1
      /\ (d =< MaxDeltaSeconds => d < D)
  BY <1>1 DEF Second, Sequence, MaxWorkerId, MaxSequence, MaxDeltaSeconds
<1>3. Allocate(d, w, s) = (d * T + w * S + s) % (2 * SignBit)
  BY DEF Allocate
<1> HIDE DEF T, W, S, D
<1>4. w * S + s < T /\ w * S + s \in Nat
  BY <1>1, <1>2, Scaled
<1>5. w * S + s \in 0 .. T - 1
  BY <1>1, <1>4
<1>6. /\ d * T + (w * S + s) < (2 * D) * T
      /\ d * T + (w * S + s) \in Nat
      /\ d < D => d * T + (w * S + s) < D * T
  BY <1>1, <1>2, <1>5, Scaled
<1>7. d * T + w * S + s = d * T + (w * S + s)
  BY <1>1, <1>2
<1>8. ASSUME NEW x \in Nat, NEW n \in Nat, x < n PROVE x % n = x
  <2>1. 0 * n + x = x /\ n >= 1 /\ x \in 0 .. n - 1
    BY <1>8
  <2>2. QED
    BY <2>1, DivMod
<1>9. Allocate(d, w, s) = d * T + (w * S + s)
  <2>1. 2 * SignBit \in Nat /\ d * T + (w * S + s) < 2 * SignBit
    BY <1>1, <1>6
  <2>2. QED
    BY <1>3, <1>6, <1>7, <1>8, <2>1
<1>10. QED
  BY <1>1, <1>2, <1>5, <1>6, <1>9 DEF Uid, T, S

(* parseUID gives back what allocate was given. *)
LEMMA RoundTrip ==
    ASSUME NEW d \in Second, NEW w \in 0 .. MaxWorkerId, NEW s \in Sequence
    PROVE  Parse(Allocate(d, w, s)) = [deltaSeconds |-> d, workerId |-> w, sequence |-> s]
<1> DEFINE T == 2^TimestampShift
           W == 2^WorkerBits
           S == 2^SeqBits
           u == Allocate(d, w, s)
           l == w * S + s
<1>1. T \in Nat /\ T >= 1 /\ W \in Nat /\ S \in Nat /\ S >= 1 /\ T = W * S
  BY Widths
<1>2. d \in Nat /\ w \in Nat /\ s \in 0 .. S - 1
  BY <1>1, Widths DEF Second, Sequence, MaxSequence
<1>3. u = d * T + l /\ l \in 0 .. T - 1
  BY Layout
<1>4. Parse(u) = [deltaSeconds |-> u \div T, workerId |-> (u % T) \div S, sequence |-> u % S]
  BY DEF Parse
<1> HIDE DEF T, W, S, u, l
<1>5. u \div T = d /\ u % T = l
  BY <1>1, <1>2, <1>3, DivMod
<1>6. l \div S = w
  BY <1>1, <1>2, DivMod DEF l
<1>7. u % S = s
  <2>1. d * T = (d * W) * S
    BY <1>1, <1>2
  <2>2. d * W \in Nat /\ d * W + w \in Nat
    BY <1>1, <1>2
  <2>3. u = (d * W + w) * S + s
    <3>1. (d * W + w) * S = (d * W) * S + w * S
      BY <1>1, <1>2, <2>2
    <3>2. (d * W) * S \in Nat /\ w * S \in Nat
      BY <1>1, <1>2, <2>2
    <3>3. QED
      BY <1>2, <1>3, <2>1, <3>1, <3>2 DEF l
  <2>4. QED
    BY <1>1, <1>2, <2>2, <2>3, DivMod
<1>8. QED
  BY <1>4, <1>5, <1>6, <1>7 DEF u

(* Different digits make different UIDs. *)
LEMMA Apart ==
    ASSUME NEW d \in Second, NEW w \in 0 .. MaxWorkerId, NEW s \in Sequence,
           NEW e \in Second, NEW v \in 0 .. MaxWorkerId, NEW t \in Sequence,
           Allocate(d, w, s) = Allocate(e, v, t)
    PROVE  d = e /\ w = v /\ s = t
BY RoundTrip

(* A later sequence of a worker makes a larger UID. *)
LEMMA Increasing ==
    ASSUME NEW d \in Second, NEW e \in Second, NEW w \in 0 .. MaxWorkerId,
           NEW s \in Sequence, NEW t \in Sequence, d < e \/ (d = e /\ s < t)
    PROVE  Allocate(d, w, s) < Allocate(e, w, t)
<1> DEFINE T == 2^TimestampShift
           S == 2^SeqBits
           l == w * S + s
           m == w * S + t
<1>1. T \in Nat /\ d \in Nat /\ e \in Nat
  BY Widths DEF Second
<1>2. /\ Allocate(d, w, s) = d * T + l /\ l \in 0 .. T - 1
      /\ Allocate(e, w, t) = e * T + m /\ m \in 0 .. T - 1
  BY Layout
<1>3. w * S \in Nat /\ s \in Nat /\ t \in Nat
  BY Widths DEF Sequence, MaxWorkerId, MaxSequence
<1>4. d = e => l < m
  BY <1>1, <1>3
<1> HIDE DEF T, S, l, m
<1>5. CASE d < e
  <2>1. d * T + l < e * T /\ e * T \in Nat
    BY <1>1, <1>2, <1>5, Scaled
  <2>2. QED
    BY <1>1, <1>2, <2>1
<1>6. CASE d = e
  <2>1. e * T \in Nat
    BY <1>1
  <2>2. QED
    BY <1>2, <1>4, <1>6, <2>1
<1>7. QED
  BY <1>5, <1>6

-----------------------------------------------------------------------------
(* A generator's record changes in one place, within its types. *)
LEMMA OneMoves ==
    ASSUME TypeOK, NEW p \in Instance, NEW g \in Generator, gen' = [gen EXCEPT ![p] = g]
    PROVE  /\ gen' \in [Instance -> Generator]
           /\ gen'[p] = g
           /\ \A q \in Instance: q # p => gen'[q] = gen[q]
BY DEF TypeOK

LEMMA DownTyped == Down \in Generator
<1>1. 0 \in 0 .. MaxWorkerId /\ 0 \in 0 .. MaxSequence
  BY Widths DEF MaxWorkerId, MaxSequence
<1>2. QED
  BY <1>1 DEF Down, Generator

(* The fields of a generator, and the record a step gives it. *)
LEMMA Fields ==
    ASSUME NEW g \in Generator,
           NEW a \in {"down", "ready", "compare", "wait"}, NEW w \in 0 .. MaxWorkerId,
           NEW s \in 0 .. MaxSequence, NEW l \in Int, NEW n \in Int
    PROVE  /\ g.at \in {"down", "ready", "compare", "wait"}
           /\ g.workerId \in 0 .. MaxWorkerId /\ g.sequence \in 0 .. MaxSequence
           /\ g.lastSecond \in Int /\ g.now \in Int
           /\ [at |-> a, workerId |-> w, sequence |-> s, lastSecond |-> l, now |-> n] \in Generator
BY DEF Generator

(* What each step makes of the generator it moves. *)
Becomes(p, a, w, s, l, n) ==
    gen' = [gen EXCEPT ![p] = [at |-> a, workerId |-> w, sequence |-> s,
                               lastSecond |-> l, now |-> n]]

LEMMA Moves ==
    ASSUME TypeOK, NEW p \in Instance
    PROVE  LET g == gen[p]
           IN  /\ ReadClock(p) => Becomes(p, "compare", g.workerId, g.sequence, g.lastSecond, clock)
               /\ Refuse(p) \/ GiveUp(p) =>
                     Becomes(p, "ready", g.workerId, g.sequence, g.lastSecond, 0)
               /\ NewSecond(p) => Becomes(p, "ready", g.workerId, 0, g.now, 0)
               /\ SameSecond(p) =>
                     IF NextSequence(g.sequence) = 0
                     THEN Becomes(p, "wait", g.workerId, 0, g.lastSecond, g.now)
                     ELSE Becomes(p, "ready", g.workerId, NextSequence(g.sequence), g.lastSecond, 0)
               /\ NextSecond(p) => Becomes(p, "ready", g.workerId, g.sequence, clock, 0)
               /\ Borrow(p) => Becomes(p, g.at, g.workerId, g.sequence, g.lastSecond + 1, g.now)
<1>1. gen[p] \in Generator /\ gen \in [Instance -> Generator]
  BY DEF TypeOK
<1>2. ReadClock(p) => Becomes(p, "compare", gen[p].workerId, gen[p].sequence, gen[p].lastSecond, clock)
  BY <1>1 DEF ReadClock, Becomes, Generator
<1>3. Refuse(p) \/ GiveUp(p) =>
          Becomes(p, "ready", gen[p].workerId, gen[p].sequence, gen[p].lastSecond, 0)
  BY <1>1 DEF Refuse, GiveUp, Becomes, Generator
<1>4. NewSecond(p) => Becomes(p, "ready", gen[p].workerId, 0, gen[p].now, 0)
  BY <1>1 DEF NewSecond, Becomes, Generator
<1>5. SameSecond(p) =>
          IF NextSequence(gen[p].sequence) = 0
          THEN Becomes(p, "wait", gen[p].workerId, 0, gen[p].lastSecond, gen[p].now)
          ELSE Becomes(p, "ready", gen[p].workerId, NextSequence(gen[p].sequence),
                       gen[p].lastSecond, 0)
  BY <1>1 DEF SameSecond, Becomes, Generator
<1>6. NextSecond(p) => Becomes(p, "ready", gen[p].workerId, gen[p].sequence, clock, 0)
  BY <1>1 DEF NextSecond, Becomes, Generator
<1>7. Borrow(p) => Becomes(p, gen[p].at, gen[p].workerId, gen[p].sequence,
                           gen[p].lastSecond + 1, gen[p].now)
  BY <1>1 DEF Borrow, Becomes, Generator
<1>8. QED
  BY <1>2, <1>3, <1>4, <1>5, <1>6, <1>7

LEMMA Became ==
    ASSUME TypeOK, NEW p \in Instance,
           NEW a \in {"down", "ready", "compare", "wait"}, NEW w \in 0 .. MaxWorkerId,
           NEW s \in 0 .. MaxSequence, NEW l \in Int, NEW n \in Int, Becomes(p, a, w, s, l, n)
    PROVE  /\ gen' \in [Instance -> Generator]
           /\ gen'[p].at = a /\ gen'[p].workerId = w /\ gen'[p].sequence = s
           /\ gen'[p].lastSecond = l /\ gen'[p].now = n
           /\ \A q \in Instance: q # p => gen'[q] = gen[q]
<1> DEFINE g == [at |-> a, workerId |-> w, sequence |-> s, lastSecond |-> l, now |-> n]
<1>1. g \in Generator
  BY DEF Generator
<1>2. g.at = a /\ g.workerId = w /\ g.sequence = s /\ g.lastSecond = l /\ g.now = n
  OBVIOUS
<1>3. gen' = [gen EXCEPT ![p] = g]
  BY DEF Becomes
<1> HIDE DEF g
<1>4. gen' \in [Instance -> Generator] /\ gen'[p] = g
      /\ \A q \in Instance: q # p => gen'[q] = gen[q]
  BY <1>1, <1>3, OneMoves
<1>5. QED
  BY <1>2, <1>4

LEMMA SequenceNext ==
    ASSUME NEW s \in 0 .. MaxSequence
    PROVE  /\ NextSequence(s) \in 0 .. MaxSequence
           /\ NextSequence(s) # 0 => NextSequence(s) = s + 1
<1>1. MaxSequence + 1 \in Nat /\ MaxSequence + 1 >= 1 /\ MaxSequence \in Nat
  BY Widths DEF MaxSequence
<1>2. CASE s = MaxSequence
  <2>1. s + 1 = 1 * (MaxSequence + 1) + 0 /\ 0 \in 0 .. (MaxSequence + 1) - 1
    BY <1>1, <1>2
  <2>2. (s + 1) % (MaxSequence + 1) = 0
    BY <1>1, <2>1, DivMod
  <2>3. QED
    BY <1>1, <2>2 DEF NextSequence
<1>3. CASE s < MaxSequence
  <2>1. s + 1 = 0 * (MaxSequence + 1) + (s + 1) /\ s + 1 \in 0 .. (MaxSequence + 1) - 1
    BY <1>1, <1>3
  <2>2. (s + 1) % (MaxSequence + 1) = s + 1
    BY <1>1, <2>1, DivMod
  <2>3. QED
    BY <1>1, <1>3, <2>2 DEF NextSequence
<1>4. QED
  BY <1>1, <1>2, <1>3

-----------------------------------------------------------------------------
(* What a step does to the generators: types, worker ids and seconds stay.     *)

LEMMA WorkersKept ==
    ASSUME TypeOK, Workers, rows' = rows,
           \A q \in Instance: Up(q)' => Up(q) /\ gen'[q].workerId = gen[q].workerId
    PROVE  Workers'
BY DEF Workers, Worker

(* One generator goes on, and keeps its worker id. *)
LEMMA GoesOn ==
    ASSUME TypeOK, Workers, Locals, rows' = rows, NEW p \in Instance, Up(p),
           NEW a \in {"ready", "compare", "wait"}, NEW s \in 0 .. MaxSequence,
           NEW l \in Int, NEW n \in Int,
           Becomes(p, a, gen[p].workerId, s, l, n),
           l >= -1, p \in Cached => l >= 0 /\ a = "ready",
           a = "compare" => n \in 0 .. MaxDeltaSeconds,
           a = "wait" => s = 0
    PROVE  /\ gen' \in [Instance -> Generator] /\ Workers' /\ Locals'
           /\ Up(p)' /\ gen'[p].at = a /\ gen'[p].workerId = gen[p].workerId
           /\ gen'[p].sequence = s /\ gen'[p].lastSecond = l
           /\ \A q \in Instance: q # p => gen'[q] = gen[q]
<1>1. gen[p].workerId \in 0 .. MaxWorkerId
  BY DEF TypeOK, Generator
<1>2. /\ gen' \in [Instance -> Generator]
      /\ gen'[p].at = a /\ gen'[p].workerId = gen[p].workerId /\ gen'[p].sequence = s
      /\ gen'[p].lastSecond = l /\ gen'[p].now = n
      /\ \A q \in Instance: q # p => gen'[q] = gen[q]
  BY <1>1, Became
<1>3. Up(p)'
  BY <1>2 DEF Up
<1>4. Workers'
  <2>1. \A q \in Instance: Up(q)' => Up(q) /\ gen'[q].workerId = gen[q].workerId
    BY <1>2 DEF Up
  <2>2. QED
    BY <2>1, WorkersKept
<1>5. Locals'
  <2>1. ASSUME NEW q \in Instance
        PROVE  /\ gen'[q].lastSecond >= -1
               /\ gen'[q].at = "down" => gen'[q].workerId = 0
               /\ gen'[q].at = "compare" => gen'[q].now \in 0 .. MaxDeltaSeconds
               /\ gen'[q].at = "wait" => gen'[q].sequence = 0
               /\ q \in Cached => gen'[q].at \in {"down", "ready"}
               /\ q \in Cached /\ gen'[q].at # "down" => gen'[q].lastSecond >= 0
    <3>1. CASE q = p
      BY <1>2, <3>1
    <3>2. CASE q # p
      BY <1>2, <3>2 DEF Locals, Up
    <3>3. QED
      BY <3>1, <3>2
  <2>2. QED
    BY <2>1 DEF Locals, Up
<1>6. QED
  BY <1>2, <1>3, <1>4, <1>5

(* The steps that hand UIDs out. *)
LEMMA NewSecondIssues ==
    ASSUME TypeOK, Workers, Locals, NEW p \in Instance, NewSecond(p)
    PROVE  /\ gen' \in [Instance -> Generator] /\ Workers' /\ Locals'
           /\ gen[p].now \in Second /\ Issues(p, gen[p].now, {0})
<1>1. /\ Up(p) /\ gen[p].at = "compare" /\ gen[p].now > gen[p].lastSecond /\ rows' = rows
      /\ exhausted' = exhausted
      /\ Becomes(p, "ready", gen[p].workerId, 0, gen[p].now, 0)
  BY Moves DEF NewSecond, Up
<1>2. /\ gen[p].now \in 0 .. MaxDeltaSeconds /\ gen[p].now \in Int /\ p \notin Cached
      /\ gen[p].lastSecond \in Int /\ 0 \in 0 .. MaxSequence /\ MaxDeltaSeconds \in Int
  BY <1>1, Widths DEF Locals, TypeOK, Generator, MaxSequence, MaxDeltaSeconds
<1>3. gen[p].now \in Second
  BY <1>2, Widths DEF Second, MaxDeltaSeconds
<1>4. gen[p].now >= -1
  BY <1>2
<1>5. /\ gen' \in [Instance -> Generator] /\ Workers' /\ Locals'
      /\ gen'[p].at = "ready" /\ gen'[p].workerId = gen[p].workerId
      /\ gen'[p].sequence = 0 /\ gen'[p].lastSecond = gen[p].now
      /\ \A q \in Instance: q # p => gen'[q] = gen[q]
  BY <1>1, <1>2, <1>4, GoesOn
<1>6. HandOut({Allocate(gen[p].now, gen[p].workerId, s) : s \in {0}})
  <2>1. {Allocate(gen[p].now, gen[p].workerId, s) : s \in {0}}
          = {Allocate(gen[p].now, gen[p].workerId, 0)}
    OBVIOUS
  <2>2. QED
    BY <2>1 DEF NewSecond
<1>7. QED
  BY <1>1, <1>2, <1>3, <1>5, <1>6 DEF Issues

LEMMA NextSecondIssues ==
    ASSUME TypeOK, Workers, Locals, NEW p \in Instance, NextSecond(p)
    PROVE  /\ gen' \in [Instance -> Generator] /\ Workers' /\ Locals'
           /\ clock \in Second /\ Issues(p, clock, {0})
<1>1. /\ Up(p) /\ gen[p].at = "wait" /\ clock > gen[p].lastSecond /\ rows' = rows
      /\ exhausted' = exhausted /\ ~(clock > MaxDeltaSeconds)
      /\ Becomes(p, "ready", gen[p].workerId, gen[p].sequence, clock, 0)
  BY Moves DEF NextSecond, Up, IsExhausted
<1>2. /\ clock \in Int /\ clock >= 0 /\ p \notin Cached /\ gen[p].sequence = 0
      /\ gen[p].lastSecond \in Int /\ 0 \in 0 .. MaxSequence /\ MaxDeltaSeconds \in Int
  BY <1>1, Widths DEF Locals, TypeOK, Generator, MaxSequence, MaxDeltaSeconds
<1>3. clock \in Second /\ clock =< MaxDeltaSeconds
  BY <1>1, <1>2, Widths DEF Second, MaxDeltaSeconds
<1>4. clock >= -1
  BY <1>2
<1>5. /\ gen' \in [Instance -> Generator] /\ Workers' /\ Locals'
      /\ gen'[p].at = "ready" /\ gen'[p].workerId = gen[p].workerId
      /\ gen'[p].sequence = 0 /\ gen'[p].lastSecond = clock
      /\ \A q \in Instance: q # p => gen'[q] = gen[q]
  <2>1. Becomes(p, "ready", gen[p].workerId, 0, clock, 0)
    BY <1>1, <1>2
  <2>2. /\ Up(p) /\ rows' = rows /\ p \notin Cached
        /\ 0 \in 0 .. MaxSequence /\ clock \in Int /\ clock >= -1 /\ 0 \in Int
    BY <1>1, <1>2, <1>4
  <2>3. QED
    BY <2>1, <2>2, GoesOn
<1>6. HandOut({Allocate(clock, gen[p].workerId, s) : s \in {0}})
  <2>1. {Allocate(clock, gen[p].workerId, s) : s \in {0}}
          = {Allocate(clock, gen[p].workerId, 0)}
    OBVIOUS
  <2>2. QED
    BY <2>1 DEF NextSecond
<1>7. QED
  BY <1>1, <1>2, <1>3, <1>5, <1>6 DEF Issues

LEMMA SameSecondIssues ==
    ASSUME TypeOK, Workers, Locals, NEW p \in Instance, SameSecond(p),
           NextSequence(gen[p].sequence) # 0
    PROVE  /\ gen' \in [Instance -> Generator] /\ Workers' /\ Locals'
           /\ gen[p].now \in Second
           /\ Issues(p, gen[p].now, {NextSequence(gen[p].sequence)})
<1> DEFINE t == NextSequence(gen[p].sequence)
<1>1. /\ Up(p) /\ gen[p].at = "compare" /\ gen[p].now = gen[p].lastSecond /\ rows' = rows
      /\ exhausted' = exhausted
      /\ Becomes(p, "ready", gen[p].workerId, t, gen[p].lastSecond, 0)
  BY Moves DEF SameSecond, Up
<1>2. /\ gen[p].now \in 0 .. MaxDeltaSeconds /\ p \notin Cached /\ MaxDeltaSeconds \in Int
      /\ gen[p].lastSecond \in Int /\ gen[p].sequence \in 0 .. MaxSequence
  BY <1>1, Widths DEF Locals, TypeOK, Generator, MaxDeltaSeconds
<1>3. gen[p].now \in Second
  BY <1>2, Widths DEF Second, MaxDeltaSeconds
<1>4. t \in 0 .. MaxSequence /\ gen[p].sequence < t
  <2>1. t = gen[p].sequence + 1
    BY <1>2, SequenceNext
  <2>2. QED
    BY <1>2, <2>1, SequenceNext
<1>5. HandOut({Allocate(gen[p].now, gen[p].workerId, s) : s \in {t}})
  <2>1. {Allocate(gen[p].now, gen[p].workerId, s) : s \in {t}}
          = {Allocate(gen[p].now, gen[p].workerId, t)}
    OBVIOUS
  <2>2. QED
    BY <2>1 DEF SameSecond
<1> HIDE DEF t
<1>6. gen[p].lastSecond >= -1
  BY <1>1, <1>2
<1>7. /\ gen' \in [Instance -> Generator] /\ Workers' /\ Locals'
      /\ gen'[p].at = "ready" /\ gen'[p].workerId = gen[p].workerId
      /\ gen'[p].sequence = t /\ gen'[p].lastSecond = gen[p].lastSecond
      /\ \A q \in Instance: q # p => gen'[q] = gen[q]
  BY <1>1, <1>2, <1>4, <1>6, GoesOn
<1>8. Issues(p, gen[p].now, {t})
  BY <1>1, <1>2, <1>4, <1>5, <1>7 DEF Issues
<1>9. QED
  BY <1>3, <1>7, <1>8 DEF t

LEMMA BorrowIssues ==
    ASSUME TypeOK, Workers, Locals, MaxBorrowed < 2 * 2^TimeBits,
           NEW p \in Instance, Borrow(p)
    PROVE  /\ gen' \in [Instance -> Generator] /\ Workers' /\ Locals'
           /\ gen[p].lastSecond + 1 \in Second
           /\ Issues(p, gen[p].lastSecond + 1, Sequence)
<1> DEFINE d == gen[p].lastSecond + 1
           w == gen[p].workerId
<1>1. /\ Up(p) /\ gen[p].at = "ready" /\ p \in Cached /\ gen[p].lastSecond < MaxBorrowed
      /\ rows' = rows /\ exhausted' = exhausted
      /\ Becomes(p, "ready", w, gen[p].sequence, d, gen[p].now)
  BY Moves DEF Borrow, Up
<1>2. /\ gen[p].lastSecond \in Int /\ gen[p].lastSecond >= 0 /\ gen[p].now \in Int
      /\ gen[p].sequence \in 0 .. MaxSequence /\ w \in 0 .. MaxWorkerId
      /\ MaxBorrowed \in Nat
  BY <1>1, BoundsAssumption DEF Locals, TypeOK, Generator
<1>3. d \in Second /\ d \in Int /\ d >= 0 /\ gen[p].lastSecond < d
  BY <1>1, <1>2, Widths DEF Second
<1>4. /\ gen' \in [Instance -> Generator] /\ Workers' /\ Locals'
      /\ gen'[p].at = "ready" /\ gen'[p].workerId = w
      /\ gen'[p].sequence = gen[p].sequence /\ gen'[p].lastSecond = d
      /\ \A q \in Instance: q # p => gen'[q] = gen[q]
  <2>1. d >= -1
    BY <1>3
  <2>2. QED
    BY <1>1, <1>2, <1>3, <2>1, GoesOn
<1>5. HandOut({Allocate(d, w, s) : s \in Sequence})
  <2>1. HandOut(Allocate(d, w, 0) .. Allocate(d, w, 0) + MaxSequence)
    BY <1>4 DEF Borrow
  <2>2. \A s \in Sequence: Allocate(d, w, s) = Allocate(d, w, 0) + s
    <3>1. MaxSequence \in Nat /\ 0 \in Sequence
      BY Widths DEF Sequence, MaxSequence
    <3>2. ASSUME NEW s \in Sequence PROVE Allocate(d, w, s) = Allocate(d, w, 0) + s
      <4>1. /\ Allocate(d, w, s) = d * 2^TimestampShift + (w * 2^SeqBits + s)
            /\ Allocate(d, w, 0) = d * 2^TimestampShift + (w * 2^SeqBits + 0)
        BY <1>2, <1>3, <3>1, Layout
      <4>2. d * 2^TimestampShift \in Int /\ w * 2^SeqBits \in Int /\ s \in Int
        BY <1>2, <1>3, <3>1, Widths DEF Sequence
      <4>3. QED
        BY <4>1, <4>2
    <3>3. QED
      BY <3>2
  <2>3. Allocate(d, w, 0) \in Int /\ MaxSequence \in Nat
    <3>1. MaxSequence \in Nat /\ 0 \in Sequence
      BY Widths DEF Sequence, MaxSequence
    <3>2. QED
      BY <1>2, <1>3, <3>1, Layout DEF Uid
  <2> DEFINE f == Allocate(d, w, 0)
  <2> HIDE DEF f, d, w
  <2>4. f .. f + MaxSequence = {f + s : s \in Sequence}
    <3>1. ASSUME NEW x \in f .. f + MaxSequence PROVE \E s \in Sequence: x = f + s
      <4>1. x - f \in Sequence /\ x = f + (x - f)
        BY <2>3 DEF Sequence, f
      <4>2. QED
        BY <4>1
    <3>2. ASSUME NEW s \in Sequence PROVE f + s \in f .. f + MaxSequence
      BY <2>3 DEF Sequence, f
    <3>3. QED
      BY <3>1, <3>2
  <2>5. {f + s : s \in Sequence} = {Allocate(d, w, s) : s \in Sequence}
    BY <2>2 DEF f
  <2>6. QED
    BY <2>1, <2>4, <2>5 DEF f
<1>6. QED
  BY <1>1, <1>3, <1>4, <1>5 DEF Issues

-----------------------------------------------------------------------------
(* The steps that hand nothing out. *)
Silent ==
    /\ gen' \in [Instance -> Generator] /\ Workers' /\ Locals'
    /\ issued' = issued /\ repeated' = repeated /\ rows' \in Int /\ rows =< rows'
    /\ exhausted' \/ (exhausted' = exhausted /\ \A p \in Instance: Keeps(p))

LEMMA Unmoved ==
    ASSUME NEW p \in Instance, gen'[p] = gen[p]
    PROVE  Keeps(p)
BY DEF Keeps, Up, Past

(* A generator stands still, or waits after the last sequence of its second.   *)
LEMMA GoesOnSilently ==
    ASSUME TypeOK, Workers, Locals, rows' = rows, issued' = issued, repeated' = repeated,
           NEW p \in Instance, Up(p),
           NEW a \in {"ready", "compare", "wait"}, NEW s \in 0 .. MaxSequence,
           NEW l \in Int, NEW n \in Int,
           Becomes(p, a, gen[p].workerId, s, l, n), l = gen[p].lastSecond,
           p \in Cached => a = "ready",
           a = "compare" => n \in 0 .. MaxDeltaSeconds,
           a = "wait" => s = 0,
           exhausted' \/ (exhausted' = exhausted /\
                          (a = "wait" \/ (s = gen[p].sequence /\ gen[p].at # "wait")))
    PROVE  Silent
<1>1. l >= -1 /\ (p \in Cached => l >= 0)
  BY DEF Locals
<1>2. /\ gen' \in [Instance -> Generator] /\ Workers' /\ Locals'
      /\ Up(p)' /\ gen'[p].at = a /\ gen'[p].workerId = gen[p].workerId
      /\ gen'[p].sequence = s /\ gen'[p].lastSecond = l
      /\ \A q \in Instance: q # p => gen'[q] = gen[q]
  BY <1>1, GoesOn
<1>3. rows' \in Int /\ rows =< rows'
  BY DEF TypeOK
<1>4. ASSUME ~exhausted' PROVE exhausted' = exhausted /\ \A q \in Instance: Keeps(q)
  <2>1. exhausted' = exhausted /\ (a = "wait" \/ (s = gen[p].sequence /\ gen[p].at # "wait"))
    BY <1>4
  <2>2. \A d \in Second, t \in Sequence: Past(p, d, t) => Past(p, d, t)'
    BY <1>2, <2>1 DEF Past
  <2>3. Keeps(p)
    BY <1>2, <2>2 DEF Keeps
  <2>4. QED
    BY <1>2, <2>1, <2>3, Unmoved
<1>5. QED
  BY <1>2, <1>3, <1>4 DEF Silent

LEMMA QuietCalls ==
    ASSUME TypeOK, Workers, Locals, NEW p \in Instance,
           \/ ReadClock(p) \/ Refuse(p) \/ GiveUp(p)
           \/ SameSecond(p) /\ NextSequence(gen[p].sequence) = 0
    PROVE  Silent
<1>0. /\ gen[p].lastSecond \in Int /\ gen[p].sequence \in 0 .. MaxSequence
      /\ gen[p].now \in Int /\ clock \in Nat /\ MaxDeltaSeconds \in Int
      /\ 0 \in 0 .. MaxSequence
  BY Widths DEF TypeOK, Generator, MaxDeltaSeconds, MaxSequence
<1>1. CASE ReadClock(p)
  <2>1. /\ Up(p) /\ gen[p].at = "ready" /\ rows' = rows /\ p \notin Cached
        /\ issued' = issued /\ repeated' = repeated /\ exhausted' = exhausted
        /\ ~(clock > MaxDeltaSeconds)
        /\ Becomes(p, "compare", gen[p].workerId, gen[p].sequence, gen[p].lastSecond, clock)
    BY <1>1, Moves DEF ReadClock, Up, IsExhausted, history
  <2>2. clock \in 0 .. MaxDeltaSeconds /\ clock \in Int
    BY <1>0, <2>1
  <2>3. QED
    BY <1>0, <2>1, <2>2, GoesOnSilently
<1>2. CASE Refuse(p)
  <2>1. /\ Up(p) /\ gen[p].at = "compare" /\ rows' = rows
        /\ issued' = issued /\ repeated' = repeated /\ exhausted' = exhausted
        /\ Becomes(p, "ready", gen[p].workerId, gen[p].sequence, gen[p].lastSecond, 0)
    BY <1>2, Moves DEF Refuse, Up, history
  <2>2. QED
    BY <1>0, <2>1, GoesOnSilently
<1>3. CASE GiveUp(p)
  <2>1. /\ Up(p) /\ gen[p].at = "wait" /\ rows' = rows
        /\ issued' = issued /\ repeated' = repeated /\ exhausted' = TRUE
        /\ Becomes(p, "ready", gen[p].workerId, gen[p].sequence, gen[p].lastSecond, 0)
    BY <1>3, Moves DEF GiveUp, Up
  <2>2. QED
    BY <1>0, <2>1, GoesOnSilently
<1>4. CASE SameSecond(p) /\ NextSequence(gen[p].sequence) = 0
  <2>1. /\ Up(p) /\ gen[p].at = "compare" /\ rows' = rows
        /\ issued' = issued /\ repeated' = repeated /\ exhausted' = exhausted
        /\ Becomes(p, "wait", gen[p].workerId, 0, gen[p].lastSecond, gen[p].now)
    BY <1>4, Moves DEF SameSecond, Up
  <2>2. p \notin Cached
    BY <2>1 DEF Locals
  <2>3. QED
    BY <1>0, <2>1, <2>2, GoesOnSilently
<1>5. QED
  BY <1>1, <1>2, <1>3, <1>4

(* A start has a worker id nobody had before; a crash gives its one up.        *)
LEMMA StartsAnew ==
    ASSUME TypeOK, Workers, Locals, NEW p \in Instance, Start(p)
    PROVE  Silent
<1>1. /\ rows \in Nat /\ rows' = rows + 1 /\ clock \in Nat /\ MaxWorkerId \in Int
      /\ issued' = issued /\ repeated' = repeated /\ exhausted' = exhausted
      /\ gen' = [gen EXCEPT ![p] = Started(p, rows + 1)]
  BY Widths DEF Start, TypeOK, history, MaxWorkerId
<1> DEFINE g == Started(p, rows + 1)
<1>2. \/ rows + 1 > MaxWorkerId /\ g = Down
      \/ /\ rows + 1 =< MaxWorkerId /\ g.at = "ready" /\ g.workerId = rows + 1
         /\ g.sequence = 0
         /\ g.lastSecond = IF p \in Cached THEN clock ELSE -1
         /\ g \in Generator
  <2>1. CASE rows + 1 > MaxWorkerId
    BY <2>1 DEF Started
  <2>2. CASE ~(rows + 1 > MaxWorkerId)
    <3>1. g = [at |-> "ready", workerId |-> rows + 1, sequence |-> 0,
               lastSecond |-> IF p \in Cached THEN clock ELSE -1, now |-> 0]
      BY <2>2 DEF Started, Down
    <3>2. rows + 1 \in 0 .. MaxWorkerId /\ 0 \in 0 .. MaxSequence
      BY <1>1, <2>2, Widths DEF MaxSequence
    <3>3. (IF p \in Cached THEN clock ELSE -1) \in Int
      BY <1>1
    <3>4. g \in Generator
      BY <3>1, <3>2, <3>3 DEF Generator
    <3>5. QED
      BY <1>1, <2>2, <3>1, <3>4
  <2>3. QED
    BY <2>1, <2>2
<1>3. /\ Down \in Generator /\ Down.at = "down" /\ Down.lastSecond = -1 /\ Down.workerId = 0
  BY DownTyped DEF Down
<1>4. g \in Generator
  BY <1>2, <1>3
<1> HIDE DEF g
<1>5. /\ gen' \in [Instance -> Generator] /\ gen'[p] = g
      /\ \A q \in Instance: q # p => gen'[q] = gen[q]
  BY <1>1, <1>4, OneMoves DEF g
<1>6. gen'[p].at # "down" => gen'[p].workerId = rows + 1 /\ rows + 1 \in Worker
  <2>1. gen'[p].at # "down" => rows + 1 =< MaxWorkerId /\ gen'[p].workerId = rows + 1
    BY <1>2, <1>3, <1>5
  <2>2. QED
    BY <1>1, <2>1 DEF Worker
<1>7. Workers'
  <2>1. ASSUME NEW q \in Instance, Up(q)'
        PROVE  gen'[q].workerId \in Worker /\ gen'[q].workerId =< rows + 1
    <3>1. CASE q = p
      BY <1>1, <1>6, <2>1, <3>1 DEF Up
    <3>2. CASE q # p
      <4>1. gen[q].workerId \in Worker /\ gen[q].workerId =< rows
        BY <1>5, <2>1, <3>2 DEF Workers, Up
      <4>2. QED
        BY <1>1, <1>5, <3>2, <4>1 DEF Worker
    <3>3. QED
      BY <3>1, <3>2
  <2>2. ASSUME NEW q \in Instance, NEW r \in Instance, q # r, Up(q)', Up(r)'
        PROVE  gen'[q].workerId # gen'[r].workerId
    <3>1. \A x \in Instance: x # p /\ Up(x)' => /\ Up(x) /\ gen[x].workerId =< rows
                                                /\ gen'[x].workerId = gen[x].workerId
      BY <1>5 DEF Workers, Up
    <3>2. CASE q # p /\ r # p
      BY <2>2, <3>1, <3>2 DEF Workers
    <3>3. CASE q = p \/ r = p
      BY <1>1, <1>6, <2>2, <3>1, <3>3 DEF Up
    <3>4. QED
      BY <3>2, <3>3
  <2>3. QED
    BY <1>1, <2>1, <2>2 DEF Workers
<1>8. Locals'
  <2>1. ASSUME NEW q \in Instance
        PROVE  /\ gen'[q].lastSecond >= -1
               /\ gen'[q].at = "down" => gen'[q].workerId = 0
               /\ gen'[q].at = "compare" => gen'[q].now \in 0 .. MaxDeltaSeconds
               /\ gen'[q].at = "wait" => gen'[q].sequence = 0
               /\ q \in Cached => gen'[q].at \in {"down", "ready"}
               /\ q \in Cached /\ gen'[q].at # "down" => gen'[q].lastSecond >= 0
    <3>1. CASE q = p
      BY <1>1, <1>2, <1>3, <1>5, <3>1
    <3>2. CASE q # p
      BY <1>5, <3>2 DEF Locals, Up
    <3>3. QED
      BY <3>1, <3>2
  <2>2. QED
    BY <2>1 DEF Locals, Up
<1>9. \A q \in Instance: Keeps(q)
  <2>1. Keeps(p)
    BY <1>1, <1>5, <1>6 DEF Keeps, Up
  <2>2. QED
    BY <1>5, <2>1, Unmoved
<1>10. QED
  BY <1>1, <1>5, <1>7, <1>8, <1>9 DEF Silent

LEMMA Crashes ==
    ASSUME TypeOK, Workers, Locals, NEW p \in Instance, Crash(p)
    PROVE  Silent
<1>1. /\ rows' = rows /\ rows \in Int
      /\ issued' = issued /\ repeated' = repeated /\ exhausted' = exhausted
      /\ gen' = [gen EXCEPT ![p] = Down]
  BY DEF Crash, history, TypeOK
<1>2. Down.at = "down" /\ Down.lastSecond = -1 /\ Down.workerId = 0
  BY DEF Down
<1>3. /\ gen' \in [Instance -> Generator] /\ gen'[p] = Down
      /\ \A q \in Instance: q # p => gen'[q] = gen[q]
  BY <1>1, DownTyped, OneMoves
<1>4. ~Up(p)'
  BY <1>2, <1>3 DEF Up
<1>5. Workers'
  <2>1. \A q \in Instance: Up(q)' => Up(q) /\ gen'[q].workerId = gen[q].workerId
    BY <1>3, <1>4 DEF Up
  <2>2. QED
    BY <1>1, <2>1, WorkersKept
<1>6. Locals'
  <2>1. ASSUME NEW q \in Instance
        PROVE  /\ gen'[q].lastSecond >= -1
               /\ gen'[q].at = "down" => gen'[q].workerId = 0
               /\ gen'[q].at = "compare" => gen'[q].now \in 0 .. MaxDeltaSeconds
               /\ gen'[q].at = "wait" => gen'[q].sequence = 0
               /\ q \in Cached => gen'[q].at \in {"down", "ready"}
               /\ q \in Cached /\ gen'[q].at # "down" => gen'[q].lastSecond >= 0
    <3>1. CASE q = p
      BY <1>2, <1>3, <3>1
    <3>2. CASE q # p
      BY <1>3, <3>2 DEF Locals, Up
    <3>3. QED
      BY <3>1, <3>2
  <2>2. QED
    BY <2>1 DEF Locals, Up
<1>7. \A q \in Instance: Keeps(q)
  <2>1. Keeps(p)
    BY <1>4 DEF Keeps
  <2>2. QED
    BY <1>3, <2>1, Unmoved
<1>8. QED
  BY <1>1, <1>3, <1>5, <1>6, <1>7 DEF Silent

LEMMA ClockMoves ==
    ASSUME TypeOK, Workers, Locals, gen' = gen, rows' = rows, UNCHANGED history
    PROVE  Silent
<1>1. rows \in Int /\ gen' \in [Instance -> Generator]
  BY DEF TypeOK
<1>2. issued' = issued /\ repeated' = repeated /\ exhausted' = exhausted
  BY DEF history
<1>3. Workers' /\ Locals'
  BY DEF Workers, Locals, Up
<1>4. \A p \in Instance: Keeps(p)
  BY Unmoved
<1>5. QED
  BY <1>1, <1>2, <1>3, <1>4 DEF Silent

(* Every step either hands out UIDs of one second of one generator, or none.   *)
Issuing ==
    /\ gen' \in [Instance -> Generator] /\ Workers' /\ Locals'
    /\ \E p \in Instance, d \in Second, ss \in SUBSET Sequence: Issues(p, d, ss)

LEMMA Steps ==
    ASSUME TypeOK, Workers, Locals, MaxBorrowed < 2 * 2^TimeBits, [Next]_vars
    PROVE  Silent \/ Issuing
<1>0. 0 \in Sequence
  BY Widths DEF Sequence, MaxSequence
<1>1. CASE UNCHANGED vars \/ Tick \/ SetBack
  <2>1. gen' = gen /\ rows' = rows /\ UNCHANGED history
    BY <1>1 DEF Tick, SetBack, vars
  <2>2. QED
    BY <2>1, ClockMoves
<1>2. ASSUME NEW p \in Instance, Start(p) \/ Crash(p) PROVE Silent
  BY <1>2, StartsAnew, Crashes
<1>3. ASSUME NEW p \in Instance, NextId(p) PROVE Silent \/ Issuing
  <2>1. CASE \/ ReadClock(p) \/ Refuse(p) \/ GiveUp(p)
             \/ SameSecond(p) /\ NextSequence(gen[p].sequence) = 0
    BY <2>1, QuietCalls
  <2>2. CASE NewSecond(p)
    <3>1. {0} \in SUBSET Sequence
      BY <1>0
    <3>2. QED
      BY <2>2, <3>1, NewSecondIssues DEF Issuing
  <2>3. CASE NextSecond(p)
    <3>1. {0} \in SUBSET Sequence
      BY <1>0
    <3>2. QED
      BY <2>3, <3>1, NextSecondIssues DEF Issuing
  <2>4. CASE SameSecond(p) /\ NextSequence(gen[p].sequence) # 0
    <3>1. {NextSequence(gen[p].sequence)} \in SUBSET Sequence
      BY SequenceNext DEF TypeOK, Generator, Sequence
    <3>2. QED
      BY <2>4, <3>1, SameSecondIssues DEF Issuing
  <2>5. QED
    BY <1>3, <2>1, <2>2, <2>3, <2>4 DEF NextId
<1>4. ASSUME NEW p \in Instance, Borrow(p) PROVE Issuing
  <2>1. Sequence \in SUBSET Sequence
    OBVIOUS
  <2>2. QED
    BY <1>4, <2>1, BorrowIssues DEF Issuing
<1>5. QED
  BY <1>1, <1>2, <1>3, <1>4 DEF Next

-----------------------------------------------------------------------------
(* A generator that runs has made what is past, and makes what is not.         *)
LEMMA NewIsPast ==
    ASSUME TypeOK, TypeOK', NEW p \in Instance, NEW d \in Second, NEW ss \in SUBSET Sequence,
           Issues(p, d, ss)
    PROVE  /\ \A s \in ss: ~Past(p, d, s) /\ Past(p, d, s)'
           /\ \A e \in Second, t \in Sequence: Past(p, e, t) => Past(p, e, t)'
<1>1. /\ gen[p].lastSecond \in Int /\ gen[p].sequence \in Int
      /\ gen'[p].sequence \in Int /\ gen'[p].lastSecond = d /\ d \in Int
  BY Widths DEF TypeOK, Generator, MaxSequence, Issues, Second
<1>2. \A s \in Sequence: s \in Int
  BY DEF Sequence
<1>3. \/ gen[p].lastSecond < d
      \/ /\ gen[p].lastSecond = d /\ p \notin Cached /\ gen[p].at # "wait"
         /\ gen[p].sequence < gen'[p].sequence
  BY DEF Issues
<1>4. p \notin Cached => ss = {gen'[p].sequence}
  BY DEF Issues
<1>5. ASSUME NEW s \in ss PROVE ~Past(p, d, s) /\ Past(p, d, s)'
  <2>1. s \in Int /\ (p \in Cached \/ s = gen'[p].sequence)
    BY <1>2, <1>4
  <2>2. ~Past(p, d, s)
    BY <1>1, <1>3, <2>1 DEF Past
  <2>3. Past(p, d, s)'
    BY <1>1, <2>1 DEF Past
  <2>4. QED
    BY <2>2, <2>3
<1>6. ASSUME NEW e \in Second, NEW t \in Sequence, Past(p, e, t) PROVE Past(p, e, t)'
  <2>1. e \in Int /\ t \in Int
    BY <1>2 DEF Second
  <2>2. QED
    BY <1>1, <1>3, <1>6, <2>1 DEF Past
<1>7. QED
  BY <1>5, <1>6

(* What is handed out was not handed out before. *)
LEMMA NewIsFresh ==
    ASSUME TypeOK, TypeOK', Workers, Fresh, NEW p \in Instance, NEW d \in Second,
           NEW ss \in SUBSET Sequence, Issues(p, d, ss)
    PROVE  {Allocate(d, gen[p].workerId, s) : s \in ss} \cap issued = {}
<1>1. gen[p].workerId \in 0 .. MaxWorkerId /\ Up(p)
  BY DEF TypeOK, Generator, Issues
<1>2. ASSUME NEW s \in ss, Allocate(d, gen[p].workerId, s) \in issued PROVE FALSE
  <2>1. PICK e \in Second, v \in Worker, t \in Sequence:
            MadeAt(Allocate(d, gen[p].workerId, s), e, v, t)
    BY <1>2 DEF Fresh
  <2>2. s \in Sequence /\ v \in 0 .. MaxWorkerId
    BY <1>2 DEF Worker
  <2>3. d = e /\ gen[p].workerId = v /\ s = t
    BY <1>1, <2>1, <2>2, Apart DEF MadeAt
  <2>4. Past(p, d, s)
    BY <1>1, <2>1, <2>3 DEF MadeAt
  <2>5. QED
    BY <2>4, NewIsPast
<1>3. QED
  BY <1>2

LEMMA IssuingFresh ==
    ASSUME TypeOK, TypeOK', Workers, Fresh, NEW p \in Instance, NEW d \in Second,
           NEW ss \in SUBSET Sequence, Issues(p, d, ss)
    PROVE  Fresh'
<1>1. /\ Up(p) /\ gen'[p].workerId = gen[p].workerId /\ rows' = rows
      /\ \A q \in Instance: q # p => gen'[q] = gen[q]
      /\ issued' = issued \cup {Allocate(d, gen[p].workerId, s) : s \in ss}
  BY DEF Issues, HandOut
<1>2. gen[p].workerId \in Worker /\ gen[p].workerId =< rows
  BY <1>1 DEF Workers
<1>0. PICK w \in Worker: w = gen[p].workerId
  BY <1>2
<1>3. ASSUME NEW u \in issued
      PROVE  \E e \in Second, v \in Worker, s \in Sequence: MadeAt(u, e, v, s)'
  <2>1. PICK e \in Second, v \in Worker, s \in Sequence: MadeAt(u, e, v, s)
    BY DEF Fresh
  <2>2. ASSUME NEW q \in Instance, Up(q)', gen'[q].workerId = v PROVE Past(q, e, s)'
    <3>1. CASE q = p
      BY <1>1, <2>1, <2>2, <3>1, NewIsPast DEF MadeAt
    <3>2. CASE q # p
      BY <1>1, <2>1, <2>2, <3>2 DEF MadeAt, Up, Past
    <3>3. QED
      BY <3>1, <3>2
  <2>3. MadeAt(u, e, v, s)'
    BY <1>1, <2>1, <2>2 DEF MadeAt, Allocate
  <2>4. QED
    BY <2>3
<1>4. ASSUME NEW s \in ss
      PROVE  MadeAt(Allocate(d, w, s), d, w, s)'
  <2>1. ASSUME NEW q \in Instance, Up(q)', gen'[q].workerId = w
        PROVE  Past(q, d, s)'
    <3>1. CASE q = p
      BY <3>1, NewIsPast
    <3>2. CASE q # p
      BY <1>0, <1>1, <2>1, <3>2 DEF Workers, Up
    <3>3. QED
      BY <3>1, <3>2
  <2>2. QED
    BY <1>0, <1>1, <1>2, <2>1 DEF MadeAt, Allocate
<1>5. ASSUME NEW u \in issued'
      PROVE  \E e \in Second, v \in Worker, s \in Sequence: MadeAt(u, e, v, s)'
  <2>1. CASE u \in issued
    BY <1>3, <2>1
  <2>2. CASE u \notin issued
    <3>1. PICK s \in ss: u = Allocate(d, w, s)
      BY <1>0, <1>1, <1>5, <2>2
    <3>2. MadeAt(u, d, w, s)'
      BY <1>4, <3>1 DEF MadeAt, Allocate
    <3>3. s \in Sequence
      OBVIOUS
    <3>4. QED
      BY <3>2, <3>3
  <2>3. QED
    BY <2>1, <2>2
<1>6. QED
  BY <1>5 DEF Fresh

LEMMA SilentFresh ==
    ASSUME TypeOK, Fresh, Silent, ~exhausted'
    PROVE  Fresh'
<1>1. issued' = issued /\ rows' \in Int /\ rows =< rows' /\ \A p \in Instance: Keeps(p)
  BY DEF Silent
<1>2. ASSUME NEW u \in issued
      PROVE  \E e \in Second, w \in Worker, s \in Sequence: MadeAt(u, e, w, s)'
  <2>1. PICK e \in Second, w \in Worker, s \in Sequence: MadeAt(u, e, w, s)
    BY DEF Fresh
  <2>2. w \in Int /\ w =< rows /\ rows \in Int
    BY <2>1 DEF MadeAt, Worker, TypeOK
  <2>3. ASSUME NEW q \in Instance, Up(q)', gen'[q].workerId = w PROVE Past(q, e, s)'
    <3>1. ~(gen'[q].workerId > rows)
      BY <2>2, <2>3
    <3>2. /\ Up(q) /\ gen'[q].workerId = gen[q].workerId
          /\ \A d \in Second, t \in Sequence: Past(q, d, t) => Past(q, d, t)'
      BY <1>1, <2>3, <3>1 DEF Keeps
    <3>3. QED
      BY <2>1, <2>3, <3>2 DEF MadeAt
  <2>4. w =< rows'
    BY <1>1, <2>2
  <2>5. MadeAt(u, e, w, s)'
    BY <2>1, <2>3, <2>4 DEF MadeAt, Allocate
  <2>6. QED
    BY <2>5
<1>3. QED
  BY <1>1, <1>2 DEF Fresh

LEMMA TypeStep ==
    ASSUME TypeOK, Workers, Locals, MaxBorrowed < 2 * 2^TimeBits, [Next]_vars
    PROVE  TypeOK'
<1>1. /\ clock' \in 0 .. MaxClock /\ backs' \in 0 .. MaxBacks /\ rows' \in 0 .. MaxRows
  <2>1. MaxClock \in Nat /\ MaxBacks \in Nat /\ MaxRows \in Nat
    BY BoundsAssumption
  <2>2. clock \in 0 .. MaxClock /\ backs \in 0 .. MaxBacks /\ rows \in 0 .. MaxRows
    BY DEF TypeOK
  <2>3. \/ clock' = clock /\ backs' = backs /\ (rows' = rows \/ (rows < MaxRows /\ rows' = rows + 1))
        \/ Tick \/ SetBack
    BY DEF Next, Start, Crash, NextId, ReadClock, Refuse, NewSecond, SameSecond, NextSecond,
           GiveUp, Borrow, vars
  <2>4. CASE Tick
    BY <2>1, <2>2, <2>4 DEF Tick
  <2>5. CASE SetBack
    BY <2>1, <2>2, <2>5 DEF SetBack
  <2>6. QED
    BY <2>1, <2>2, <2>3, <2>4, <2>5
<1>2. CASE Silent
  <2>1. gen' \in [Instance -> Generator] /\ issued' = issued /\ repeated' = repeated
    BY <1>2 DEF Silent
  <2>2. exhausted' \in BOOLEAN
    BY DEF Next, Tick, SetBack, Start, Crash, NextId, ReadClock, Refuse, NewSecond, SameSecond,
           NextSecond, GiveUp, Borrow, history, vars, TypeOK
  <2>3. QED
    BY <1>1, <2>1, <2>2 DEF TypeOK
<1>3. CASE Issuing
  <2>1. PICK p \in Instance, d \in Second, ss \in SUBSET Sequence: Issues(p, d, ss)
    BY <1>3 DEF Issuing
  <2>2. gen[p].workerId \in 0 .. MaxWorkerId
    BY DEF TypeOK, Generator
  <2>3. \A s \in ss: Allocate(d, gen[p].workerId, s) \in Uid
    BY <2>2, Layout
  <2>4. issued' \subseteq Uid
    BY <2>1, <2>3 DEF Issues, HandOut, TypeOK
  <2>5. repeated' \in BOOLEAN /\ exhausted' \in BOOLEAN
    BY <2>1 DEF Issues, HandOut, TypeOK
  <2>6. QED
    BY <1>1, <1>3, <2>4, <2>5 DEF Issuing, TypeOK
<1>4. QED
  BY <1>2, <1>3, Steps

LEMMA ClockStep ==
    ASSUME ClockInv, MaxBorrowed < 2 * 2^TimeBits, [Next]_vars
    PROVE  ClockInv'
<1>1. TypeOK /\ Workers /\ Locals /\ TypeOK'
  BY TypeStep DEF ClockInv
<1>2. CASE Silent
  <2>1. Workers' /\ Locals' /\ repeated' = repeated
    BY <1>2 DEF Silent
  <2>2. ASSUME ~exhausted' PROVE Fresh' /\ ~repeated'
    <3>1. ~exhausted
      BY <1>2, <2>2 DEF Silent
    <3>2. QED
      BY <1>1, <1>2, <2>1, <2>2, <3>1, SilentFresh DEF ClockInv
  <2>3. QED
    BY <1>1, <2>1, <2>2 DEF ClockInv
<1>3. CASE Issuing
  <2>1. PICK p \in Instance, d \in Second, ss \in SUBSET Sequence: Issues(p, d, ss)
    BY <1>3 DEF Issuing
  <2>2. Workers' /\ Locals'
    BY <1>3 DEF Issuing
  <2>3. ASSUME ~exhausted' PROVE Fresh' /\ ~repeated'
    <3>1. Fresh /\ ~repeated
      BY <2>1, <2>3 DEF Issues, ClockInv
    <3>2. {Allocate(d, gen[p].workerId, s) : s \in ss} \cap issued = {}
      BY <1>1, <2>1, <3>1, NewIsFresh
    <3>3. ~repeated'
      BY <2>1, <3>1, <3>2 DEF Issues, HandOut
    <3>4. Fresh'
      BY <1>1, <2>1, <3>1, IssuingFresh
    <3>5. QED
      BY <3>3, <3>4
  <2>4. QED
    BY <1>1, <2>2, <2>3 DEF ClockInv
<1>4. QED
  BY <1>1, <1>2, <1>3, Steps

LEMMA ClockStart == Init => ClockInv
<1> SUFFICES ASSUME Init PROVE ClockInv
  OBVIOUS
<1>1. \A p \in Instance: gen[p] = Down /\ ~Up(p)
  BY DEF Init, Up, Down
<1>2. TypeOK
  <2>1. clock \in 0 .. MaxClock /\ backs \in 0 .. MaxBacks /\ rows \in 0 .. MaxRows
    BY BoundsAssumption DEF Init
  <2>2. gen \in [Instance -> Generator] /\ issued \subseteq Uid
    BY DownTyped DEF Init
  <2>3. repeated \in BOOLEAN /\ exhausted \in BOOLEAN
    BY DEF Init
  <2>4. QED
    BY <2>1, <2>2, <2>3 DEF TypeOK
<1>3. Workers
  BY <1>1 DEF Workers
<1>4. Locals
  <2>1. Down.at = "down" /\ Down.lastSecond = -1 /\ Down.workerId = 0
    BY DEF Down
  <2>2. ASSUME NEW p \in Instance
        PROVE  gen[p].at = "down" /\ gen[p].lastSecond = -1 /\ gen[p].workerId = 0
    BY <1>1, <2>1
  <2>3. \A p \in Instance: gen[p].lastSecond >= -1
    <3>1. -1 >= -1
      OBVIOUS
    <3>2. QED
      BY <2>2, <3>1
  <2>4. QED
    BY <2>2, <2>3 DEF Locals, Up
<1>5. Fresh /\ ~repeated
  BY DEF Init, Fresh
<1>6. QED
  BY <1>2, <1>3, <1>4, <1>5 DEF ClockInv

-----------------------------------------------------------------------------
(* The theorems bound the seconds that CachedUidGenerator borrows: past twice  *)
(* the time bits, the sign bit included, its UIDs come again.                  *)

(* Everything keeps its type; in particular no UID is wider than a long.       *)
THEOREM TypeCorrect ==
    ASSUME MaxBorrowed < 2 * 2^TimeBits
    PROVE  Spec => []TypeOK
<1>1. Init => ClockInv
  BY ClockStart
<1>2. ClockInv /\ [Next]_vars => ClockInv'
  BY ClockStep
<1>3. ClockInv => TypeOK
  BY DEF ClockInv
<1>4. QED
  BY <1>1, <1>2, <1>3, PTL DEF Spec

(* Until a nextId has given up at the end of the time bits, no UID is handed   *)
(* out twice: any number of instances with either generator, any widths, any   *)
(* crashes, restarts and steps of the clock (UidGenerator.getUID).             *)
THEOREM UniqueSafe ==
    ASSUME MaxBorrowed < 2 * 2^TimeBits
    PROVE  Spec => []UniqueUid
<1>1. Init => ClockInv
  BY ClockStart
<1>2. ClockInv /\ [Next]_vars => ClockInv'
  BY ClockStep
<1>3. ClockInv => UniqueUid
  BY DEF ClockInv, UniqueUid
<1>4. QED
  BY <1>1, <1>2, <1>3, PTL DEF Spec

(* DefaultUidGenerator.parseUID inverts BitsAllocator.allocate on every UID    *)
(* that is handed out, for any widths.                                         *)
THEOREM ParseSafe ==
    ASSUME MaxBorrowed < 2 * 2^TimeBits
    PROVE  Spec => ParsesBack
<1>1. Init => ClockInv
  BY ClockStart
<1>2. ClockInv /\ [Next]_vars => ClockInv'
  BY ClockStep
<1>3. ASSUME ClockInv, [Next]_vars, NEW u \in issued' \ issued
      PROVE  \E p \in Instance:
                 /\ Parse(u).workerId = gen'[p].workerId
                 /\ Parse(u).deltaSeconds = gen'[p].lastSecond
                 /\ p \notin Cached => Parse(u).sequence = gen'[p].sequence
  <2>1. Issuing
    BY <1>3, Steps DEF ClockInv, Silent
  <2>2. PICK p \in Instance, d \in Second, ss \in SUBSET Sequence: Issues(p, d, ss)
    BY <2>1 DEF Issuing
  <2>3. PICK s \in ss: u = Allocate(d, gen[p].workerId, s)
    BY <1>3, <2>2 DEF Issues, HandOut
  <2>4. gen[p].workerId \in 0 .. MaxWorkerId /\ s \in Sequence
    BY <1>3 DEF ClockInv, TypeOK, Generator
  <2>5. Parse(u) = [deltaSeconds |-> d, workerId |-> gen[p].workerId, sequence |-> s]
    BY <2>3, <2>4, RoundTrip
  <2>6. /\ gen'[p].workerId = gen[p].workerId /\ gen'[p].lastSecond = d
        /\ p \notin Cached => s = gen'[p].sequence
    BY <2>2 DEF Issues
  <2>7. QED
    BY <2>5, <2>6
<1>4. ClockInv /\ [Next]_vars =>
        [\A u \in issued' \ issued: \E p \in Instance:
            /\ Parse(u).workerId = gen'[p].workerId
            /\ Parse(u).deltaSeconds = gen'[p].lastSecond
            /\ p \notin Cached => Parse(u).sequence = gen'[p].sequence]_vars
  BY <1>3
<1>5. QED
  BY <1>1, <1>2, <1>4, PTL DEF Spec, ParsesBack

(* The longs that one start of DefaultUidGenerator returns are not negative    *)
(* and increase, until a call has given up at the end of the time bits.        *)
THEOREM IncreaseSafe ==
    ASSUME MaxBorrowed < 2 * 2^TimeBits
    PROVE  Spec => NextIdIncreases
<1>1. Init => ClockInv
  BY ClockStart
<1>2. ClockInv /\ [Next]_vars => ClockInv'
  BY ClockStep
<1>3. ASSUME ClockInv, [Next]_vars, NEW u \in issued' \ issued, NEW p \in Instance \ Cached,
             ~exhausted, gen[p].workerId = Parse(u).workerId
      PROVE  /\ Signed(u) >= 0
             /\ \A v \in issued:
                   Parse(v).workerId = Parse(u).workerId => Signed(v) < Signed(u)
  <2>0. TypeOK /\ TypeOK' /\ Workers /\ Locals /\ Fresh
    BY <1>3, ClockStep DEF ClockInv
  <2>1. Issuing
    BY <1>3, <2>0, Steps DEF Silent
  <2>2. PICK q \in Instance, d \in Second, ss \in SUBSET Sequence: Issues(q, d, ss)
    BY <2>1 DEF Issuing
  <2>3. PICK s \in ss: u = Allocate(d, gen[q].workerId, s)
    BY <1>3, <2>2 DEF Issues, HandOut
  <2>4. gen[q].workerId \in 0 .. MaxWorkerId /\ s \in Sequence /\ Up(q)
        /\ gen[q].workerId \in Worker
    BY <2>0, <2>2 DEF TypeOK, Generator, Issues, Workers
  <2>5. Parse(u).workerId = gen[q].workerId
    BY <2>3, <2>4, RoundTrip
  <2>6. Up(p)
    <3>1. gen[q].workerId # 0
      BY <2>4 DEF Worker
    <3>2. QED
      BY <1>3, <2>0, <2>5, <3>1 DEF Up, Locals
  <2>7. p = q
    BY <1>3, <2>0, <2>4, <2>5, <2>6 DEF Workers
  <2>8. d =< MaxDeltaSeconds /\ s = gen'[p].sequence
    BY <1>3, <2>2, <2>3, <2>7 DEF Issues
  <2>9. u \in Uid /\ u < SignBit
    BY <2>3, <2>4, <2>8, Layout
  <2>10. Signed(u) = u /\ Signed(u) >= 0
    BY <2>9 DEF Signed, Uid
  <2>11. ASSUME NEW v \in issued, Parse(v).workerId = Parse(u).workerId
         PROVE  Signed(v) < Signed(u)
    <3>1. PICK e \in Second, w \in Worker, t \in Sequence: MadeAt(v, e, w, t)
      BY <2>0 DEF Fresh
    <3>2. v = Allocate(e, w, t) /\ w \in 0 .. MaxWorkerId
      BY <3>1 DEF MadeAt, Worker
    <3>3. w = gen[p].workerId
      BY <1>3, <2>11, <3>2, RoundTrip
    <3>4. Past(p, e, t)
      BY <1>3, <2>6, <3>1, <3>3 DEF MadeAt
    <3>5. /\ gen[p].lastSecond \in Int /\ gen[p].sequence \in Int
          /\ d \in Int /\ e \in Int /\ s \in Int /\ t \in Int /\ MaxDeltaSeconds \in Int
      BY <1>3, <2>0, <2>4, Widths
         DEF TypeOK, Generator, MaxSequence, Second, Sequence, MaxDeltaSeconds
    <3>6. \/ gen[p].lastSecond < d
          \/ /\ gen[p].lastSecond = d /\ gen[p].at # "wait" /\ gen[p].sequence < s
      BY <2>2, <2>7, <2>8 DEF Issues
    <3>7. e < d \/ (e = d /\ t < s)
      BY <1>3, <3>4, <3>5, <3>6 DEF Past
    <3>8. v < u
      BY <2>3, <2>4, <2>7, <3>2, <3>3, <3>7, Increasing
    <3>9. e =< MaxDeltaSeconds
      BY <2>8, <3>5, <3>7
    <3>10. v < SignBit
      BY <3>2, <3>9, Layout
    <3>11. QED
      BY <2>10, <3>8, <3>10 DEF Signed
  <2>12. QED
    BY <2>10, <2>11
<1>4. ClockInv /\ [Next]_vars =>
        [\A u \in issued' \ issued, p \in Instance \ Cached:
            ~exhausted /\ gen[p].workerId = Parse(u).workerId =>
               /\ Signed(u) >= 0
               /\ \A v \in issued:
                     Parse(v).workerId = Parse(u).workerId => Signed(v) < Signed(u)]_vars
  BY <1>3
<1>5. QED
  BY <1>1, <1>2, <1>4, PTL DEF Spec, NextIdIncreases
=============================================================================
