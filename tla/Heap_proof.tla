----------------------------- MODULE Heap_proof -----------------------------
(***************************************************************************)
(* What java.util.PriorityQueue does to its heap array, for every array,   *)
(* place, entry and load: NodeLoad's SiftUp and SiftDown are functions     *)
(* defined by recursion over places, so what they return is proved by      *)
(* induction over the places.                                              *)
(*                                                                         *)
(* SiftUp and SiftDown, Added, RemovedAt and Removed keep the entries they *)
(* should, and order the array whenever it was ordered around the place.   *)
(***************************************************************************)
EXTENDS NodeLoad, Induction

-----------------------------------------------------------------------------
(* SiftUp and SiftDown by one step of their recursion *)

(* Heap arrays of n entries *)
Array(n) == [1 .. n -> Object]

(* q with v at place i *)
Put(q, i, v) == [q EXCEPT ![i] = v]

(* The equation of SiftUp's recursive function, and the functions on the places *)
(* from 1 to i that satisfy it                                                  *)
Up(g, q, x, ld, k) ==
    IF k = 1 \/ ld[x] >= ld[q[k \div 2]]
    THEN [q EXCEPT ![k] = x]
    ELSE [g[k \div 2] EXCEPT ![k] = q[k \div 2]]

IsUp(g, q, x, ld, i) == g = [k \in 1 .. i |-> Up(g, q, x, ld, k)]

LEMMA Half ==
    ASSUME NEW k \in Nat, k >= 2
    PROVE  /\ k \div 2 \in Nat /\ k \div 2 >= 1 /\ k \div 2 < k
           /\ k = 2 * (k \div 2) \/ k = 2 * (k \div 2) + 1
OBVIOUS

(* By induction on i: such a function there is, *)
LEMMA UpExists ==
    ASSUME NEW q, NEW x, NEW ld, NEW i \in Nat
    PROVE  \E g: IsUp(g, q, x, ld, i)
<1> DEFINE S == {m \in Nat: \E g: IsUp(g, q, x, ld, m)}
<1>1. 0 \in S
  <2>1. IsUp(<<>>, q, x, ld, 0)
    BY DEF IsUp
  <2>2. QED
    BY <2>1
<1>2. ASSUME NEW m \in Nat, m \in S PROVE m + 1 \in S
  <2>1. PICK g: IsUp(g, q, x, ld, m)
    BY <1>2
  <2> DEFINE h == [k \in 1 .. m + 1 |-> IF k =< m THEN g[k] ELSE Up(g, q, x, ld, k)]
  <2>2. ASSUME NEW k \in 1 .. m + 1 PROVE h[k] = Up(h, q, x, ld, k)
    <3>1. h[k] = Up(g, q, x, ld, k)
      BY <2>1 DEF IsUp
    <3>2. k # 1 => h[k \div 2] = g[k \div 2]
      BY Half
    <3> HIDE DEF h
    <3>3. QED
      BY <3>1, <3>2 DEF Up
  <2>3. h = [k \in 1 .. m + 1 |-> h[k]]
    OBVIOUS
  <2> HIDE DEF h
  <2>4. IsUp(h, q, x, ld, m + 1)
    BY <2>2, <2>3 DEF IsUp
  <2>5. QED
    BY <2>4
<1> HIDE DEF S
<1>3. i \in S
  BY <1>1, <1>2, Induct
<1>4. QED
  BY <1>3 DEF S

(* SiftUp is the value of one of them at i, *)
LEMMA UpIs ==
    ASSUME NEW q, NEW x, NEW ld, NEW i \in Nat
    PROVE  \E g: IsUp(g, q, x, ld, i) /\ SiftUp(q, i, x, ld) = g[i]
<1>1. PICK g: IsUp(g, q, x, ld, i)
  BY UpExists
<1> DEFINE h == CHOOSE f: f = [k \in 1 .. i |-> IF k = 1 \/ ld[x] >= ld[q[k \div 2]]
    THEN [q EXCEPT ![k] = x]
    ELSE [f[k \div 2] EXCEPT ![k] = q[k \div 2]]]
<1>2. IsUp(h, q, x, ld, i)
  BY <1>1 DEF IsUp, Up
<1>3. SiftUp(q, i, x, ld) = h[i]
  BY DEF SiftUp
<1>4. QED
  BY <1>2, <1>3

(* and any two agree where both are defined. *)
LEMMA UpAgree ==
    ASSUME NEW q, NEW x, NEW ld, NEW m \in Nat, NEW n \in Nat, NEW g, NEW h,
           IsUp(g, q, x, ld, m), IsUp(h, q, x, ld, n), NEW i \in 1 .. m, i =< n
    PROVE  g[i] = h[i]
<1> DEFINE S == {b \in Nat: \A k \in 1 .. b: k =< m /\ k =< n => g[k] = h[k]}
<1>1. 0 \in S
  OBVIOUS
<1>2. ASSUME NEW b \in Nat, b \in S PROVE b + 1 \in S
  <2> SUFFICES ASSUME NEW k \in 1 .. b + 1, k =< m, k =< n PROVE g[k] = h[k]
    OBVIOUS
  <2>1. g[k] = Up(g, q, x, ld, k)
    <3>1. k \in 1 .. m
      OBVIOUS
    <3>2. QED
      BY <3>1 DEF IsUp
  <2>2. h[k] = Up(h, q, x, ld, k)
    <3>1. k \in 1 .. n
      OBVIOUS
    <3>2. QED
      BY <3>1 DEF IsUp
  <2>3. k # 1 => g[k \div 2] = h[k \div 2]
    BY <1>2, Half
  <2>4. QED
    BY <2>1, <2>2, <2>3 DEF Up
<1> HIDE DEF S
<1>3. i \in S
  BY <1>1, <1>2, Induct
<1>4. QED
  BY <1>3 DEF S

(* One step of the loop of siftUp: the entry above comes down, or x stays *)
LEMMA SiftUpStep ==
    ASSUME NEW q, NEW x, NEW ld, NEW i \in Nat, i >= 1
    PROVE  SiftUp(q, i, x, ld) =
               IF i = 1 \/ ld[x] >= ld[q[i \div 2]]
               THEN [q EXCEPT ![i] = x]
               ELSE [SiftUp(q, i \div 2, x, ld) EXCEPT ![i] = q[i \div 2]]
<1>1. PICK g: IsUp(g, q, x, ld, i) /\ SiftUp(q, i, x, ld) = g[i]
  BY UpIs
<1>2. g[i] = Up(g, q, x, ld, i)
  BY <1>1 DEF IsUp
<1>3. CASE i = 1
  BY <1>1, <1>2, <1>3 DEF Up
<1>4. CASE i # 1
  <2>1. i \div 2 \in Nat /\ i \div 2 >= 1 /\ i \div 2 < i
    BY <1>4, Half
  <2>2. PICK h: IsUp(h, q, x, ld, i \div 2) /\ SiftUp(q, i \div 2, x, ld) = h[i \div 2]
    BY <2>1, UpIs
  <2>3. h[i \div 2] = g[i \div 2]
    BY <1>1, <2>1, <2>2, UpAgree
  <2>4. QED
    BY <1>1, <1>2, <1>4, <2>2, <2>3 DEF Up
<1>5. QED
  BY <1>3, <1>4

LEMMA SiftUpStop ==
    ASSUME NEW q, NEW x, NEW ld, NEW i \in Nat, i >= 1, i = 1 \/ ld[x] >= ld[q[i \div 2]]
    PROVE  SiftUp(q, i, x, ld) = Put(q, i, x)
BY SiftUpStep DEF Put

LEMMA SiftUpMove ==
    ASSUME NEW q, NEW x, NEW ld, NEW i \in Nat, i >= 2, ~(ld[x] >= ld[q[i \div 2]])
    PROVE  SiftUp(q, i, x, ld) = Put(SiftUp(q, i \div 2, x, ld), i, q[i \div 2])
BY SiftUpStep DEF Put

(* The lesser of the entries beneath k; SiftDown's equation *)
Child(q, ld, n, k) == IF 2*k < n /\ ld[q[2*k]] > ld[q[2*k + 1]] THEN 2*k + 1 ELSE 2*k

LEMMA ChildPlace ==
    ASSUME NEW q, NEW ld, NEW n \in Nat, NEW k \in Nat, k >= 1, 2*k =< n
    PROVE  Child(q, ld, n, k) \in 1 .. n /\ k < Child(q, ld, n, k)
           /\ Child(q, ld, n, k) \div 2 = k
BY DEF Child

Down(g, q, x, ld, n, k) ==
    IF 2*k > n \/ ld[x] =< ld[q[Child(q, ld, n, k)]]
    THEN [q EXCEPT ![k] = x]
    ELSE [g[Child(q, ld, n, k)] EXCEPT ![k] = q[Child(q, ld, n, k)]]

(* g is what SiftDown computes at the places from a to n. *)
IsDown(g, q, x, ld, n, a) == g = [k \in a .. n |-> Down(g, q, x, ld, n, k)]

LEMMA DownExists ==
    ASSUME NEW q, NEW x, NEW ld, NEW n \in Nat
    PROVE  \E g: IsDown(g, q, x, ld, n, 1)
<1> DEFINE S == {m \in Nat: m =< n => \E g: IsDown(g, q, x, ld, n, n + 1 - m)}
<1>1. 0 \in S
  <2>1. IsDown([k \in n + 1 .. n |-> 0], q, x, ld, n, n + 1 - 0)
    BY DEF IsDown
  <2>2. QED
    BY <2>1
<1>2. ASSUME NEW m \in Nat, m \in S PROVE m + 1 \in S
  <2> SUFFICES ASSUME m + 1 =< n PROVE \E g: IsDown(g, q, x, ld, n, n + 1 - (m + 1))
    OBVIOUS
  <2> DEFINE a == n - m
  <2>0. a \in 1 .. n /\ n + 1 - m = a + 1 /\ n + 1 - (m + 1) = a
    OBVIOUS
  <2> HIDE DEF a
  <2>1. PICK g: IsDown(g, q, x, ld, n, a + 1)
    BY <1>2, <2>0
  <2> DEFINE h == [k \in a .. n |-> IF k > a THEN g[k] ELSE Down(g, q, x, ld, n, k)]
  <2>2. ASSUME NEW k \in a .. n PROVE h[k] = Down(h, q, x, ld, n, k)
    <3>0. k > a => k \in a + 1 .. n
      BY <2>0
    <3>1. h[k] = Down(g, q, x, ld, n, k)
      BY <2>1, <3>0 DEF IsDown
    <3>2. 2*k =< n => h[Child(q, ld, n, k)] = g[Child(q, ld, n, k)]
      BY <2>0, ChildPlace
    <3> HIDE DEF h
    <3>3. QED
      BY <2>0, <3>1, <3>2 DEF Down
  <2>3. h = [k \in a .. n |-> h[k]]
    OBVIOUS
  <2> HIDE DEF h
  <2>4. IsDown(h, q, x, ld, n, a)
    BY <2>2, <2>3 DEF IsDown
  <2>5. QED
    BY <2>0, <2>4
<1> HIDE DEF S
<1>3. n \in S
  BY <1>1, <1>2, Induct
<1>4. n + 1 - n = 1
  OBVIOUS
<1>5. QED
  BY <1>3, <1>4 DEF S

LEMMA SiftDownStep ==
    ASSUME NEW q, NEW x, NEW ld, Len(q) \in Nat, NEW i \in 1 .. Len(q)
    PROVE  SiftDown(q, i, x, ld) =
               IF 2*i > Len(q) \/ ld[x] =< ld[q[Child(q, ld, Len(q), i)]]
               THEN Put(q, i, x)
               ELSE Put(SiftDown(q, Child(q, ld, Len(q), i), x, ld), i,
                        q[Child(q, ld, Len(q), i)])
<1> DEFINE n == Len(q)
           c == Child(q, ld, n, i)
           h == CHOOSE f: f = [k \in 1 .. n |->
                   IF 2*k > n \/ ld[x] =< ld[q[Child(q, ld, n, k)]]
                   THEN [q EXCEPT ![k] = x]
                   ELSE [f[Child(q, ld, n, k)] EXCEPT ![k] = q[Child(q, ld, n, k)]]]
<1>1. IsDown(h, q, x, ld, n, 1)
  <2>1. PICK g: IsDown(g, q, x, ld, n, 1)
    BY DownExists
  <2>2. QED
    BY <2>1 DEF IsDown, Down
<1>2. ASSUME NEW j \in 1 .. n PROVE SiftDown(q, j, x, ld) = h[j]
  BY DEF SiftDown, Child
<1> HIDE DEF h
<1>3. h[i] = Down(h, q, x, ld, n, i)
  BY <1>1 DEF IsDown
<1>4. 2*i =< n => c \in 1 .. n
  BY ChildPlace
<1> HIDE DEF n
<1>5. CASE 2*i =< n
  BY <1>2, <1>3, <1>4, <1>5 DEF Down, Put, n
<1>6. CASE 2*i > n
  BY <1>2, <1>3, <1>6 DEF Down, Put, n
<1>7. QED
  BY <1>5, <1>6 DEF n

(* An array of n entries is a sequence of length n. *)
LEMMA ArrayLen ==
    ASSUME NEW n \in Nat, NEW q \in Array(n)
    PROVE  q \in Seq(Object) /\ Len(q) = n
BY DEF Array

LEMMA EntryType ==
    ASSUME NEW n \in Nat, NEW q \in Array(n), NEW i \in 1 .. n
    PROVE  q[i] \in Object
BY DEF Array

LEMMA SiftDownStop ==
    ASSUME NEW n \in Nat, NEW q \in Array(n), NEW x, NEW ld, NEW i \in 1 .. n,
           NEW c, c = Child(q, ld, n, i), 2*i > n \/ ld[x] =< ld[q[c]]
    PROVE  SiftDown(q, i, x, ld) = Put(q, i, x)
<1>1. Len(q) = n
  BY ArrayLen
<1>2. QED
  BY <1>1, SiftDownStep

LEMMA SiftDownMove ==
    ASSUME NEW n \in Nat, NEW q \in Array(n), NEW x, NEW ld, NEW i \in 1 .. n,
           NEW c, c = Child(q, ld, n, i), 2*i =< n, ~(ld[x] =< ld[q[c]])
    PROVE  SiftDown(q, i, x, ld) = Put(SiftDown(q, c, x, ld), i, q[c])
<1>1. Len(q) = n
  BY ArrayLen
<1>2. ~(2*i > Len(q) \/ ld[x] =< ld[q[Child(q, ld, Len(q), i)]]) /\ i \in 1 .. Len(q)
      /\ c = Child(q, ld, Len(q), i)
  BY <1>1
<1>3. QED
  BY <1>1, <1>2, SiftDownStep

-----------------------------------------------------------------------------
(* The loops of siftUp and siftDown: each step moves one entry into the hole   *)
(* and goes on with the hole at the place the entry came from.                 *)

LEMMA PutType ==
    ASSUME NEW n \in Nat, NEW f \in Array(n), NEW i \in 1 .. n, NEW a \in Object
    PROVE  Put(f, i, a) \in Array(n)
BY DEF Put, Array

LEMMA PutAt ==
    ASSUME NEW n \in Nat, NEW f \in Array(n), NEW i \in 1 .. n, NEW a,
           NEW j \in 1 .. n
    PROVE  Put(f, i, a)[j] = IF j = i THEN a ELSE f[j]
BY DEF Put, Array

LEMMA PutCommute ==
    ASSUME NEW n \in Nat, NEW f \in Array(n),
           NEW i \in 1 .. n, NEW j \in 1 .. n, i # j, NEW a \in Object, NEW b \in Object
    PROVE  Put(Put(f, i, a), j, b) = Put(Put(f, j, b), i, a)
BY DEF Put, Array

LEMMA SiftUpType ==
    ASSUME NEW n \in Nat, NEW q \in Array(n), NEW x \in Object, NEW ld, NEW i \in 1 .. n
    PROVE  SiftUp(q, i, x, ld) \in Array(n)
<1> DEFINE S == {b \in Nat: \A k \in 1 .. b: k =< n => SiftUp(q, k, x, ld) \in Array(n)}
<1>1. 0 \in S
  OBVIOUS
<1>2. ASSUME NEW b \in Nat, b \in S PROVE b + 1 \in S
  <2> SUFFICES ASSUME NEW k \in 1 .. b + 1, k =< n
               PROVE  SiftUp(q, k, x, ld) \in Array(n)
    OBVIOUS
  <2>1. CASE k = 1 \/ ld[x] >= ld[q[k \div 2]]
    <3>1. SiftUp(q, k, x, ld) = Put(q, k, x)
      BY <2>1, SiftUpStop
    <3>2. QED
      BY <3>1, PutType
  <2>2. CASE k # 1 /\ ~(ld[x] >= ld[q[k \div 2]])
    <3>1. k \div 2 \in 1 .. b /\ k \div 2 \in 1 .. n
      BY <2>2, Half
    <3>2. SiftUp(q, k \div 2, x, ld) \in Array(n) /\ q[k \div 2] \in Object
      BY <1>2, <3>1, EntryType
    <3>3. SiftUp(q, k, x, ld) = Put(SiftUp(q, k \div 2, x, ld), k, q[k \div 2])
      BY <2>2, SiftUpMove
    <3>4. k \in 1 .. n
      OBVIOUS
    <3>5. QED
      BY <3>2, <3>3, <3>4, PutType
  <2>3. QED
    BY <2>1, <2>2
<1> HIDE DEF S
<1>3. i \in S
  BY <1>1, <1>2, Induct
<1>4. QED
  BY <1>3 DEF S

(* SiftUp neither looks at the places behind nor changes them. *)
LEMMA SiftUpApart ==
    ASSUME NEW n \in Nat, NEW q \in Array(n), NEW x \in Object, NEW ld,
           NEW i \in 1 .. n, NEW v \in Object, NEW p, p = Put(q, i, v),
           NEW j \in 1 .. n, j < i
    PROVE  SiftUp(p, j, x, ld) = Put(SiftUp(q, j, x, ld), i, v)
<1> DEFINE S == {b \in Nat: \A k \in 1 .. b:
                     k < i => SiftUp(p, k, x, ld) = Put(SiftUp(q, k, x, ld), i, v)}
<1>1. 0 \in S
  OBVIOUS
<1>2. ASSUME NEW b \in Nat, b \in S PROVE b + 1 \in S
  <2> SUFFICES ASSUME NEW k \in 1 .. b + 1, k < i
               PROVE  SiftUp(p, k, x, ld) = Put(SiftUp(q, k, x, ld), i, v)
    OBVIOUS
  <2>0. k \in 1 .. n /\ k # i
    OBVIOUS
  <2>1. k # 1 => k \div 2 \in 1 .. b /\ k \div 2 < i /\ k \div 2 \in 1 .. n
    BY Half
  <2>2. k # 1 => p[k \div 2] = q[k \div 2] /\ q[k \div 2] \in Object
    BY <2>1, EntryType, PutAt
  <2>3. CASE k = 1 \/ ld[x] >= ld[q[k \div 2]]
    <3>1. SiftUp(q, k, x, ld) = Put(q, k, x)
      BY <2>3, SiftUpStop
    <3>2. SiftUp(p, k, x, ld) = Put(p, k, x)
      BY <2>2, <2>3, SiftUpStop
    <3>3. QED
      BY <2>0, <3>1, <3>2, PutCommute
  <2>4. CASE k # 1 /\ ~(ld[x] >= ld[q[k \div 2]])
    <3>1. SiftUp(q, k, x, ld) = Put(SiftUp(q, k \div 2, x, ld), k, q[k \div 2])
      BY <2>4, SiftUpMove
    <3>2. SiftUp(p, k, x, ld) = Put(SiftUp(p, k \div 2, x, ld), k, q[k \div 2])
      BY <2>2, <2>4, SiftUpMove
    <3>3. SiftUp(p, k \div 2, x, ld) = Put(SiftUp(q, k \div 2, x, ld), i, v)
      BY <1>2, <2>1, <2>4
    <3>4. SiftUp(q, k \div 2, x, ld) \in Array(n)
      BY <2>1, <2>4, SiftUpType
    <3>5. QED
      BY <2>0, <2>2, <2>4, <3>1, <3>2, <3>3, <3>4, PutCommute
  <2>5. QED
    BY <2>3, <2>4
<1> HIDE DEF S
<1>3. j \in S
  BY <1>1, <1>2, Induct
<1>4. QED
  BY <1>3 DEF S

LEMMA SiftUpLoop ==
    ASSUME NEW n \in Nat, NEW q \in Array(n), NEW x \in Object, NEW ld,
           NEW i \in 2 .. n, ~(ld[x] >= ld[q[i \div 2]])
    PROVE  /\ i \div 2 \in 1 .. n
           /\ SiftUp(q, i, x, ld) = SiftUp(Put(q, i, q[i \div 2]), i \div 2, x, ld)
<1>1. i \div 2 \in 1 .. n /\ i \div 2 < i
  BY Half
<1>2. SiftUp(q, i, x, ld) = Put(SiftUp(q, i \div 2, x, ld), i, q[i \div 2])
  BY SiftUpMove
<1>3. q[i \div 2] \in Object
  BY <1>1, EntryType
<1>4. QED
  BY <1>1, <1>2, <1>3, SiftUpApart

LEMMA SiftDownType ==
    ASSUME NEW n \in Nat, NEW q \in Array(n), NEW x \in Object, NEW ld, NEW i \in 1 .. n
    PROVE  SiftDown(q, i, x, ld) \in Array(n)
<1> DEFINE S == {b \in Nat: \A k \in 1 .. n:
                     k > n - b => SiftDown(q, k, x, ld) \in Array(n)}
<1>0. Len(q) = n
  BY ArrayLen
<1>1. 0 \in S
  OBVIOUS
<1>2. ASSUME NEW b \in Nat, b \in S PROVE b + 1 \in S
  <2> SUFFICES ASSUME NEW k \in 1 .. n, k > n - (b + 1)
               PROVE  SiftDown(q, k, x, ld) \in Array(n)
    OBVIOUS
  <2>0. PICK c: c = Child(q, ld, n, k)
    OBVIOUS
  <2>1. 2*k =< n => c \in 1 .. n /\ c > n - b
    BY <2>0, ChildPlace
  <2>2. CASE 2*k > n \/ ld[x] =< ld[q[c]]
    <3>1. SiftDown(q, k, x, ld) = Put(q, k, x)
      BY <1>0, <2>0, <2>2, SiftDownStop
    <3>2. QED
      BY <3>1, PutType
  <2>3. CASE 2*k =< n /\ ~(ld[x] =< ld[q[c]])
    <3>1. SiftDown(q, k, x, ld) = Put(SiftDown(q, c, x, ld), k, q[c])
      BY <1>0, <2>0, <2>3, SiftDownMove
    <3>2. SiftDown(q, c, x, ld) \in Array(n) /\ q[c] \in Object
      BY <1>2, <2>1, <2>3, EntryType
    <3>3. QED
      BY <3>1, <3>2, PutType
  <2>4. QED
    BY <2>2, <2>3
<1> HIDE DEF S
<1>3. n \in S
  BY <1>1, <1>2, Induct
<1>4. QED
  BY <1>3 DEF S

(* SiftDown neither looks at the places before nor changes them. *)
LEMMA SiftDownApart ==
    ASSUME NEW n \in Nat, NEW q \in Array(n), NEW x \in Object, NEW ld,
           NEW i \in 1 .. n, NEW v \in Object, NEW p, p = Put(q, i, v),
           NEW j \in 1 .. n, i < j
    PROVE  SiftDown(p, j, x, ld) = Put(SiftDown(q, j, x, ld), i, v)
<1> DEFINE S == {b \in Nat: \A k \in 1 .. n: k > n - b /\ i < k =>
                     SiftDown(p, k, x, ld) = Put(SiftDown(q, k, x, ld), i, v)}
<1>0. p \in Array(n) /\ Len(p) = n /\ Len(q) = n
  <2>1. p \in Array(n)
    BY PutType
  <2>2. QED
    BY <2>1, ArrayLen
<1>1. 0 \in S
  OBVIOUS
<1>2. ASSUME NEW b \in Nat, b \in S PROVE b + 1 \in S
  <2> SUFFICES ASSUME NEW k \in 1 .. n, k > n - (b + 1), i < k
               PROVE  SiftDown(p, k, x, ld) = Put(SiftDown(q, k, x, ld), i, v)
    OBVIOUS
  <2>c. PICK c: c = Child(q, ld, n, k)
    OBVIOUS
  <2>0. \A m \in 1 .. n: m # i => p[m] = q[m]
    BY PutAt
  <2>1. Child(p, ld, n, k) = c
    BY <2>c, <2>0 DEF Child
  <2>2. 2*k =< n => c \in 1 .. n /\ c > n - b /\ i < c
    BY <2>c, ChildPlace
  <2>3. 2*k =< n => p[c] = q[c] /\ q[c] \in Object
    BY <2>0, <2>2, EntryType
  <2>4. CASE 2*k > n \/ ld[x] =< ld[q[c]]
    <3>1. SiftDown(q, k, x, ld) = Put(q, k, x)
      BY <1>0, <2>c, <2>4, SiftDownStop
    <3>2. SiftDown(p, k, x, ld) = Put(p, k, x)
      BY <1>0, <2>1, <2>3, <2>4, SiftDownStop
    <3>3. QED
      BY <3>1, <3>2, PutCommute
  <2>5. CASE 2*k =< n /\ ~(ld[x] =< ld[q[c]])
    <3>1. SiftDown(q, k, x, ld) = Put(SiftDown(q, c, x, ld), k, q[c])
      BY <1>0, <2>c, <2>5, SiftDownMove
    <3>2. SiftDown(p, k, x, ld) = Put(SiftDown(p, c, x, ld), k, q[c])
      BY <1>0, <2>1, <2>3, <2>5, SiftDownMove
    <3>3. SiftDown(p, c, x, ld) = Put(SiftDown(q, c, x, ld), i, v)
      BY <1>2, <2>2, <2>5
    <3>4. SiftDown(q, c, x, ld) \in Array(n)
      BY <2>2, <2>5, SiftDownType
    <3>5. QED
      BY <2>3, <2>5, <3>1, <3>2, <3>3, <3>4, PutCommute
  <2>6. QED
    BY <2>4, <2>5
<1> HIDE DEF S
<1>3. n \in S
  BY <1>1, <1>2, Induct
<1>4. QED
  BY <1>3 DEF S

LEMMA SiftDownLoop ==
    ASSUME NEW n \in Nat, NEW q \in Array(n), NEW x \in Object, NEW ld,
           NEW i \in 1 .. n, 2*i =< n, NEW c, c = Child(q, ld, n, i), ~(ld[x] =< ld[q[c]])
    PROVE  /\ c \in 1 .. n
           /\ SiftDown(q, i, x, ld) = SiftDown(Put(q, i, q[c]), c, x, ld)
<1>0. Len(q) = n
  BY ArrayLen
<1>1. c \in 1 .. n /\ i < c
  BY ChildPlace
<1>2. SiftDown(q, i, x, ld) = Put(SiftDown(q, c, x, ld), i, q[c])
  BY <1>0, SiftDownMove
<1>3. q[c] \in Object
  BY <1>1, EntryType
<1>4. QED
  BY <1>1, <1>2, <1>3, SiftDownApart

-----------------------------------------------------------------------------
(* The entries: both loops only move them. *)

(* p moves the places from 1 to n about. *)
Shuffle(p, n) ==
    /\ p \in [1 .. n -> 1 .. n]
    /\ \A i, j \in 1 .. n: p[i] = p[j] => i = j
    /\ \A j \in 1 .. n: \E i \in 1 .. n: p[i] = j

(* r has the entries of q, at other places. *)
Permuted(r, q, n) == \E p: Shuffle(p, n) /\ \A j \in 1 .. n: r[j] = q[p[j]]

LEMMA PermutedSame ==
    ASSUME NEW n \in Nat, NEW q
    PROVE  Permuted(q, q, n)
<1> DEFINE p == [j \in 1 .. n |-> j]
<1>1. Shuffle(p, n)
  BY DEF Shuffle
<1>2. \A j \in 1 .. n: q[j] = q[p[j]]
  OBVIOUS
<1> HIDE DEF p
<1>3. QED
  BY <1>1, <1>2 DEF Permuted

LEMMA PermutedTwice ==
    ASSUME NEW n \in Nat, NEW q, NEW r, NEW s, Permuted(s, r, n), Permuted(r, q, n)
    PROVE  Permuted(s, q, n)
<1>1. PICK a: Shuffle(a, n) /\ \A j \in 1 .. n: s[j] = r[a[j]]
  BY DEF Permuted
<1>2. PICK b: Shuffle(b, n) /\ \A j \in 1 .. n: r[j] = q[b[j]]
  BY DEF Permuted
<1> DEFINE p == [j \in 1 .. n |-> b[a[j]]]
<1>3. p \in [1 .. n -> 1 .. n]
  BY <1>1, <1>2 DEF Shuffle
<1>4. ASSUME NEW i \in 1 .. n, NEW j \in 1 .. n, p[i] = p[j] PROVE i = j
  <2>1. b[a[i]] = b[a[j]]
    BY <1>4
  <2>2. a[i] \in 1 .. n /\ a[j] \in 1 .. n
    BY <1>1 DEF Shuffle
  <2>3. a[i] = a[j]
    BY <1>2, <2>1, <2>2 DEF Shuffle
  <2>4. QED
    BY <1>1, <2>3 DEF Shuffle
<1>5. \A j \in 1 .. n: \E i \in 1 .. n: p[i] = j
  <2> TAKE j \in 1 .. n
  <2>1. PICK k \in 1 .. n: b[k] = j
    BY <1>2 DEF Shuffle
  <2>2. PICK i \in 1 .. n: a[i] = k
    BY <1>1 DEF Shuffle
  <2>3. QED
    BY <2>1, <2>2
<1>6. \A j \in 1 .. n: s[j] = q[p[j]]
  BY <1>1, <1>2 DEF Shuffle
<1> HIDE DEF p
<1>7. QED
  BY <1>3, <1>4, <1>5, <1>6 DEF Permuted, Shuffle

(* The entry at h goes to the hole at i, and the hole to h. *)
LEMMA PermutedMove ==
    ASSUME NEW n \in Nat, NEW q \in Array(n), NEW i \in 1 .. n, NEW h \in 1 .. n, i # h,
           NEW x \in Object
    PROVE  Permuted(Put(Put(q, i, q[h]), h, x), Put(q, i, x), n)
<1> DEFINE p == [j \in 1 .. n |-> IF j = i THEN h ELSE IF j = h THEN i ELSE j]
           a == Put(q, i, q[h])
<1>1. Shuffle(p, n)
  <2>1. p \in [1 .. n -> 1 .. n] /\ \A j, k \in 1 .. n: p[j] = p[k] => j = k
    OBVIOUS
  <2>2. \A j \in 1 .. n: p[p[j]] = j /\ p[j] \in 1 .. n
    OBVIOUS
  <2> HIDE DEF p
  <2>3. QED
    BY <2>1, <2>2 DEF Shuffle
<1>2. a \in Array(n)
  BY PutType, EntryType
<1>3. ASSUME NEW j \in 1 .. n
      PROVE  Put(a, h, x)[j] = Put(q, i, x)[p[j]]
  <2>1. Put(a, h, x)[j] = IF j = h THEN x ELSE IF j = i THEN q[h] ELSE q[j]
    BY <1>2, PutAt
  <2>2. p[j] \in 1 .. n
    OBVIOUS
  <2>3. Put(q, i, x)[p[j]] = IF p[j] = i THEN x ELSE q[p[j]]
    BY <2>2, PutAt
  <2>4. QED
    BY <2>1, <2>3
<1> HIDE DEF p
<1>4. QED
  BY <1>1, <1>3 DEF Permuted

LEMMA SiftUpEntries ==
    ASSUME NEW n \in Nat, NEW x \in Object, NEW ld, NEW q \in Array(n), NEW i \in 1 .. n
    PROVE  Permuted(SiftUp(q, i, x, ld), Put(q, i, x), n)
<1> DEFINE S == {b \in Nat: \A r \in Array(n): \A k \in 1 .. b:
                     k =< n => Permuted(SiftUp(r, k, x, ld), Put(r, k, x), n)}
<1>1. 0 \in S
  OBVIOUS
<1>2. ASSUME NEW b \in Nat, b \in S PROVE b + 1 \in S
  <2> SUFFICES ASSUME NEW r \in Array(n), NEW k \in 1 .. b + 1, k =< n
               PROVE  Permuted(SiftUp(r, k, x, ld), Put(r, k, x), n)
    OBVIOUS
  <2>1. CASE k = 1 \/ ld[x] >= ld[r[k \div 2]]
    BY <2>1, SiftUpStop, PermutedSame
  <2>2. CASE k # 1 /\ ~(ld[x] >= ld[r[k \div 2]])
    <3>1. k \in 2 .. n
      BY <2>2
    <3>2. PICK h: h = k \div 2 /\ h \in 1 .. n /\ h \in 1 .. b /\ h # k
      BY <3>1, Half
    <3>3. SiftUp(r, k, x, ld) = SiftUp(Put(r, k, r[h]), h, x, ld)
      BY <2>2, <3>1, <3>2, SiftUpLoop
    <3>4. k \in 1 .. n /\ Put(r, k, r[h]) \in Array(n)
      BY <3>1, <3>2, PutType, EntryType
    <3>5. Permuted(SiftUp(r, k, x, ld), Put(Put(r, k, r[h]), h, x), n)
      BY <1>2, <3>2, <3>3, <3>4
    <3>6. Permuted(Put(Put(r, k, r[h]), h, x), Put(r, k, x), n)
      BY <3>2, <3>4, PermutedMove
    <3>7. QED
      BY <3>5, <3>6, PermutedTwice
  <2>3. QED
    BY <2>1, <2>2
<1> HIDE DEF S
<1>3. i \in S
  BY <1>1, <1>2, Induct
<1>4. QED
  BY <1>3 DEF S

LEMMA SiftDownEntries ==
    ASSUME NEW n \in Nat, NEW x \in Object, NEW ld, NEW q \in Array(n), NEW i \in 1 .. n
    PROVE  Permuted(SiftDown(q, i, x, ld), Put(q, i, x), n)
<1> DEFINE S == {b \in Nat: \A r \in Array(n): \A k \in 1 .. n:
                     k > n - b => Permuted(SiftDown(r, k, x, ld), Put(r, k, x), n)}
<1>1. 0 \in S
  OBVIOUS
<1>2. ASSUME NEW b \in Nat, b \in S PROVE b + 1 \in S
  <2> SUFFICES ASSUME NEW r \in Array(n), NEW k \in 1 .. n, k > n - (b + 1)
               PROVE  Permuted(SiftDown(r, k, x, ld), Put(r, k, x), n)
    OBVIOUS
  <2>0. PICK c: c = Child(r, ld, n, k)
    OBVIOUS
  <2>1. CASE 2*k > n \/ ld[x] =< ld[r[c]]
    BY <2>0, <2>1, SiftDownStop, PermutedSame
  <2>2. CASE 2*k =< n /\ ~(ld[x] =< ld[r[c]])
    <3>1. c \in 1 .. n /\ c > n - b /\ c # k
      BY <2>0, <2>2, ChildPlace
    <3>2. SiftDown(r, k, x, ld) = SiftDown(Put(r, k, r[c]), c, x, ld)
      BY <2>0, <2>2, SiftDownLoop
    <3>3. Put(r, k, r[c]) \in Array(n)
      BY <3>1, PutType, EntryType
    <3>4. Permuted(SiftDown(r, k, x, ld), Put(Put(r, k, r[c]), c, x), n)
      BY <1>2, <3>1, <3>2, <3>3
    <3>5. Permuted(Put(Put(r, k, r[c]), c, x), Put(r, k, x), n)
      BY <3>1, PermutedMove
    <3>6. QED
      BY <3>4, <3>5, PermutedTwice
  <2>3. QED
    BY <2>1, <2>2
<1> HIDE DEF S
<1>3. n \in S
  BY <1>1, <1>2, Induct
<1>4. QED
  BY <1>3 DEF S

-----------------------------------------------------------------------------
(* The order: no entry has less load than the one above it. *)
Ordered(q, n, ld) == \A j \in 2 .. n: ld[q[j \div 2]] =< ld[q[j]]

(* The same but for the entry at k, the hole; the ones below it are no less    *)
(* than the one above it.                                                      *)
OrderedBut(q, n, ld, k) ==
    \A j \in 2 .. n:
        /\ j # k /\ j \div 2 # k => ld[q[j \div 2]] =< ld[q[j]]
        /\ k >= 2 /\ j \div 2 = k => ld[q[k \div 2]] =< ld[q[j]]

(* x is no more than the entries below the place k. *)
Beneath(q, n, ld, k, x) == \A j \in 2 .. n: j \div 2 = k => ld[x] =< ld[q[j]]

LEMMA OrderedAnyway ==
    ASSUME NEW n \in Nat, NEW ld \in [Object -> Int], NEW q \in Array(n), NEW k \in 1 .. n,
           Ordered(q, n, ld)
    PROVE  OrderedBut(q, n, ld, k)
<1> SUFFICES ASSUME NEW j \in 2 .. n, k >= 2, j \div 2 = k
             PROVE  ld[q[k \div 2]] =< ld[q[j]]
  BY DEF Ordered, OrderedBut
<1>1. ld[q[k]] =< ld[q[j]]
  BY DEF Ordered
<1>2. k \in 2 .. n
  OBVIOUS
<1>3. ld[q[k \div 2]] =< ld[q[k]]
  BY <1>2 DEF Ordered
<1>4. k \div 2 \in 1 .. n
  BY <1>2, Half
<1>5. q[k] \in Object /\ q[j] \in Object /\ q[k \div 2] \in Object
  BY <1>2, <1>4, EntryType
<1>6. ld[q[k]] \in Int /\ ld[q[j]] \in Int /\ ld[q[k \div 2]] \in Int
  BY <1>5
<1>7. QED
  BY <1>1, <1>3, <1>6

(* An entry that is neither more than what is above the hole nor less than what*)
(* is beneath fills it.                                                        *)
LEMMA Fills ==
    ASSUME NEW n \in Nat, NEW ld \in [Object -> Int], NEW q \in Array(n), NEW k \in 1 .. n,
           NEW x \in Object, OrderedBut(q, n, ld, k), Beneath(q, n, ld, k, x),
           k >= 2 => ld[q[k \div 2]] =< ld[x]
    PROVE  Ordered(Put(q, k, x), n, ld)
<1> SUFFICES ASSUME NEW j \in 2 .. n
             PROVE  ld[Put(q, k, x)[j \div 2]] =< ld[Put(q, k, x)[j]]
  BY DEF Ordered
<1>1. j \div 2 \in 1 .. n /\ j \in 1 .. n /\ j \div 2 # j
  BY Half
<1>2. /\ Put(q, k, x)[j] = IF j = k THEN x ELSE q[j]
      /\ Put(q, k, x)[j \div 2] = IF j \div 2 = k THEN x ELSE q[j \div 2]
  BY <1>1, PutAt
<1>3. QED
  BY <1>1, <1>2 DEF OrderedBut, Beneath

(* The entry above comes down into the hole. *)
LEMMA HoleUp ==
    ASSUME NEW n \in Nat, NEW ld \in [Object -> Int], NEW q \in Array(n), NEW k \in 2 .. n,
           NEW x \in Object, OrderedBut(q, n, ld, k), Beneath(q, n, ld, k, x),
           NEW h, h = k \div 2, ~(ld[x] >= ld[q[h]]), NEW r, r = Put(q, k, q[h])
    PROVE  OrderedBut(r, n, ld, h) /\ Beneath(r, n, ld, h, x)
<1>0. h \in 1 .. n /\ h < k /\ k \in 1 .. n
  BY Half
<1>1. \A j \in 1 .. n: r[j] = IF j = k THEN q[h] ELSE q[j]
  BY <1>0, PutAt
<1>2. \A j \in 1 .. n: ld[q[j]] \in Int
  BY EntryType
<1>3. ld[x] \in Int /\ ld[x] < ld[q[h]]
  BY <1>0, <1>2
<1>4. ASSUME NEW j \in 2 .. n
      PROVE  j \in 1 .. n /\ j \div 2 \in 1 .. n /\ j \div 2 < j
  BY Half
<1>5. ASSUME NEW j \in 2 .. n, j # h, j \div 2 # h
      PROVE  ld[r[j \div 2]] =< ld[r[j]]
  <2>1. CASE j \div 2 = k
    BY <1>0, <1>1, <1>4, <2>1 DEF OrderedBut
  <2>2. CASE j \div 2 # k
    BY <1>0, <1>1, <1>4, <1>5, <2>2 DEF OrderedBut
  <2>3. QED
    BY <2>1, <2>2
<1>6. ASSUME NEW j \in 2 .. n, j \div 2 = h
      PROVE  ld[q[h]] =< ld[r[j]]
  <2>1. CASE j = k
    BY <1>0, <1>1, <1>2, <2>1
  <2>2. CASE j # k
    BY <1>0, <1>1, <1>4, <1>6, <2>2 DEF OrderedBut
  <2>3. QED
    BY <2>1, <2>2
<1>7. ASSUME NEW j \in 2 .. n, h >= 2, j \div 2 = h
      PROVE  ld[r[h \div 2]] =< ld[r[j]]
  <2>1. h \in 2 .. n
    BY <1>0, <1>7
  <2>2. h \div 2 \in 1 .. n /\ h \div 2 < h
    BY <1>4, <2>1
  <2>3. r[h \div 2] = q[h \div 2]
    BY <1>0, <1>1, <2>2
  <2>4. ld[q[h \div 2]] =< ld[q[h]]
    BY <1>0, <2>1, <2>2 DEF OrderedBut
  <2>5. ld[q[h]] =< ld[r[j]]
    BY <1>6, <1>7
  <2>6. r[j] = q[j] \/ r[j] = q[h]
    BY <1>1, <1>4
  <2>7. ld[r[j]] \in Int
    BY <1>0, <1>2, <1>4, <2>6
  <2>8. QED
    BY <1>0, <1>2, <2>2, <2>3, <2>4, <2>5, <2>7
<1>8. Beneath(r, n, ld, h, x)
  <2> SUFFICES ASSUME NEW j \in 2 .. n, j \div 2 = h PROVE ld[x] =< ld[r[j]]
    BY DEF Beneath
  <2>1. ld[q[h]] =< ld[r[j]]
    BY <1>6
  <2>2. r[j] = q[j] \/ r[j] = q[h]
    BY <1>1, <1>4
  <2>3. QED
    BY <1>0, <1>2, <1>3, <1>4, <2>1, <2>2
<1>9. QED
  BY <1>5, <1>7, <1>8 DEF OrderedBut

(* The lesser entry beneath goes up into the hole. *)
LEMMA HoleDown ==
    ASSUME NEW n \in Nat, NEW ld \in [Object -> Int], NEW q \in Array(n), NEW k \in 1 .. n,
           2*k =< n, OrderedBut(q, n, ld, k),
           NEW c, c = Child(q, ld, n, k), NEW r, r = Put(q, k, q[c])
    PROVE  OrderedBut(r, n, ld, c) /\ r[c \div 2] = q[c]
<1>0. c \in 2 .. n /\ c \in 1 .. n /\ k < c /\ c \div 2 = k
  BY ChildPlace
<1>1. \A j \in 1 .. n: r[j] = IF j = k THEN q[c] ELSE q[j]
  BY PutAt
<1>2. \A j \in 1 .. n: ld[q[j]] \in Int
  BY EntryType
<1>3. ASSUME NEW j \in 2 .. n
      PROVE  j \in 1 .. n /\ j \div 2 \in 1 .. n /\ j \div 2 < j
  BY Half
<1>4. ASSUME NEW j \in 2 .. n, j \div 2 = k PROVE ld[q[c]] =< ld[q[j]]
  <2>1. j = 2*k \/ j = 2*k + 1
    BY <1>4, Half
  <2>2. ld[q[j]] \in Int /\ ld[q[2*k]] \in Int /\ ld[q[c]] \in Int
    BY <1>0, <1>2
  <2>3. CASE j = 2*k
    BY <2>2, <2>3 DEF Child
  <2>4. CASE j = 2*k + 1
    BY <2>2, <2>4 DEF Child
  <2>5. QED
    BY <2>1, <2>3, <2>4
<1>5. ASSUME NEW j \in 2 .. n, j # c, j \div 2 # c
      PROVE  ld[r[j \div 2]] =< ld[r[j]]
  <2>1. CASE j = k
    <3>1. ld[q[k \div 2]] =< ld[q[c]]
      BY <1>0, <2>1 DEF OrderedBut
    <3>2. QED
      BY <1>1, <1>3, <2>1, <3>1
  <2>2. CASE j # k /\ j \div 2 = k
    BY <1>1, <1>3, <1>4, <2>2
  <2>3. CASE j # k /\ j \div 2 # k
    BY <1>1, <1>3, <2>3 DEF OrderedBut
  <2>4. QED
    BY <2>1, <2>2, <2>3
<1>6. ASSUME NEW j \in 2 .. n, j \div 2 = c
      PROVE  ld[r[c \div 2]] =< ld[r[j]]
  BY <1>0, <1>1, <1>3, <1>6 DEF OrderedBut
<1>7. r[c \div 2] = q[c]
  BY <1>0, <1>1
<1>8. QED
  BY <1>5, <1>6, <1>7 DEF OrderedBut

LEMMA SiftUpOrder ==
    ASSUME NEW n \in Nat, NEW ld \in [Object -> Int], NEW x \in Object,
           NEW q \in Array(n), NEW i \in 1 .. n,
           OrderedBut(q, n, ld, i), Beneath(q, n, ld, i, x)
    PROVE  Ordered(SiftUp(q, i, x, ld), n, ld)
<1> DEFINE S == {b \in Nat: \A r \in Array(n): \A k \in 1 .. b:
                     k =< n /\ OrderedBut(r, n, ld, k) /\ Beneath(r, n, ld, k, x)
                        => Ordered(SiftUp(r, k, x, ld), n, ld)}
<1>1. 0 \in S
  OBVIOUS
<1>2. ASSUME NEW b \in Nat, b \in S PROVE b + 1 \in S
  <2> SUFFICES ASSUME NEW r \in Array(n), NEW k \in 1 .. b + 1, k =< n,
                      OrderedBut(r, n, ld, k), Beneath(r, n, ld, k, x)
               PROVE  Ordered(SiftUp(r, k, x, ld), n, ld)
    OBVIOUS
  <2>0. k \in 1 .. n
    OBVIOUS
  <2>1. CASE k = 1 \/ ld[x] >= ld[r[k \div 2]]
    <3>1. SiftUp(r, k, x, ld) = Put(r, k, x)
      BY <2>1, SiftUpStop
    <3>2. k >= 2 => k \div 2 \in 1 .. n
      BY Half
    <3>3. k >= 2 => ld[r[k \div 2]] \in Int /\ ld[x] \in Int
      BY <3>2, EntryType
    <3>4. k >= 2 => ld[r[k \div 2]] =< ld[x]
      BY <2>1, <3>3
    <3>5. QED
      BY <2>0, <3>1, <3>4, Fills
  <2>2. CASE k # 1 /\ ~(ld[x] >= ld[r[k \div 2]])
    <3>1. k \in 2 .. n
      BY <2>2
    <3>2. PICK h: h = k \div 2 /\ h \in 1 .. n /\ h \in 1 .. b
      BY <3>1, Half
    <3>3. PICK s: s = Put(r, k, r[h])
      OBVIOUS
    <3>4. SiftUp(r, k, x, ld) = SiftUp(s, h, x, ld)
      BY <2>2, <3>1, <3>2, <3>3, SiftUpLoop
    <3>5. s \in Array(n)
      BY <2>0, <3>2, <3>3, PutType, EntryType
    <3>6. OrderedBut(s, n, ld, h) /\ Beneath(s, n, ld, h, x)
      BY <2>2, <3>1, <3>2, <3>3, HoleUp
    <3>7. QED
      BY <1>2, <3>2, <3>4, <3>5, <3>6
  <2>3. QED
    BY <2>1, <2>2
<1> HIDE DEF S
<1>3. i \in S
  BY <1>1, <1>2, Induct
<1>4. QED
  BY <1>3 DEF S

(* Where SiftDown stops at once, the entry is beneath nothing lesser. *)
LEMMA StopsBeneath ==
    ASSUME NEW n \in Nat, NEW ld \in [Object -> Int], NEW q \in Array(n), NEW k \in 1 .. n,
           NEW x \in Object, NEW c, c = Child(q, ld, n, k), 2*k > n \/ ld[x] =< ld[q[c]]
    PROVE  Beneath(q, n, ld, k, x)
<1> SUFFICES ASSUME NEW j \in 2 .. n, j \div 2 = k PROVE ld[x] =< ld[q[j]]
  BY DEF Beneath
<1>1. (j = 2*k \/ j = 2*k + 1) /\ 2*k =< n /\ j \in 1 .. n /\ 2*k \in 1 .. n
  BY Half
<1>2. c \in 1 .. n
  BY <1>1, ChildPlace
<1>3. ld[q[j]] \in Int /\ ld[q[2*k]] \in Int /\ ld[q[c]] \in Int /\ ld[x] \in Int
  BY <1>1, <1>2, EntryType
<1>4. ld[x] =< ld[q[c]]
  BY <1>1
<1>5. CASE j = 2*k
  BY <1>3, <1>4, <1>5 DEF Child
<1>6. CASE j = 2*k + 1
  BY <1>3, <1>4, <1>6 DEF Child
<1>7. QED
  BY <1>1, <1>5, <1>6

LEMMA SiftDownOrder ==
    ASSUME NEW n \in Nat, NEW ld \in [Object -> Int], NEW x \in Object,
           NEW q \in Array(n), NEW i \in 1 .. n,
           OrderedBut(q, n, ld, i), i >= 2 => ld[q[i \div 2]] =< ld[x]
    PROVE  Ordered(SiftDown(q, i, x, ld), n, ld)
<1> DEFINE S == {b \in Nat: \A r \in Array(n): \A k \in 1 .. n:
                     /\ k > n - b /\ OrderedBut(r, n, ld, k)
                     /\ k >= 2 => ld[r[k \div 2]] =< ld[x]
                     => Ordered(SiftDown(r, k, x, ld), n, ld)}
<1>1. 0 \in S
  OBVIOUS
<1>2. ASSUME NEW b \in Nat, b \in S PROVE b + 1 \in S
  <2> SUFFICES ASSUME NEW r \in Array(n), NEW k \in 1 .. n, k > n - (b + 1),
                      OrderedBut(r, n, ld, k), k >= 2 => ld[r[k \div 2]] =< ld[x]
               PROVE  Ordered(SiftDown(r, k, x, ld), n, ld)
    OBVIOUS
  <2>0. PICK c: c = Child(r, ld, n, k)
    OBVIOUS
  <2>1. CASE 2*k > n \/ ld[x] =< ld[r[c]]
    <3>1. SiftDown(r, k, x, ld) = Put(r, k, x)
      BY <2>0, <2>1, SiftDownStop
    <3>2. Beneath(r, n, ld, k, x)
      BY <2>0, <2>1, StopsBeneath
    <3>3. QED
      BY <3>1, <3>2, Fills
  <2>2. CASE 2*k =< n /\ ~(ld[x] =< ld[r[c]])
    <3>1. c \in 1 .. n /\ c > n - b
      BY <2>0, <2>2, ChildPlace
    <3>2. PICK s: s = Put(r, k, r[c])
      OBVIOUS
    <3>3. SiftDown(r, k, x, ld) = SiftDown(s, c, x, ld)
      BY <2>0, <2>2, <3>2, SiftDownLoop
    <3>4. s \in Array(n)
      BY <3>1, <3>2, PutType, EntryType
    <3>5. OrderedBut(s, n, ld, c) /\ s[c \div 2] = r[c]
      BY <2>0, <2>2, <3>2, HoleDown
    <3>6. ld[s[c \div 2]] =< ld[x]
      BY <2>2, <3>1, <3>5, EntryType
    <3>7. QED
      BY <1>2, <3>1, <3>3, <3>4, <3>5, <3>6
  <2>3. QED
    BY <2>1, <2>2
<1> HIDE DEF S
<1>3. n \in S
  BY <1>1, <1>2, Induct
<1>4. QED
  BY <1>3 DEF S

(* The head of an ordered array has the least load. *)
LEMMA LeastAtHead ==
    ASSUME NEW n \in Nat, NEW ld \in [Object -> Int], NEW q \in Array(n),
           Ordered(q, n, ld), NEW i \in 1 .. n
    PROVE  ld[q[1]] =< ld[q[i]]
<1> DEFINE S == {b \in Nat: \A k \in 1 .. b: k =< n => ld[q[1]] =< ld[q[k]]}
<1>0. \A j \in 1 .. n: ld[q[j]] \in Int
  BY EntryType
<1>1. 0 \in S
  OBVIOUS
<1>2. ASSUME NEW b \in Nat, b \in S PROVE b + 1 \in S
  <2> SUFFICES ASSUME NEW k \in 1 .. b + 1, k =< n PROVE ld[q[1]] =< ld[q[k]]
    OBVIOUS
  <2>1. CASE k = 1
    BY <1>0, <2>1
  <2>2. CASE k # 1
    <3>1. k \in 2 .. n
      BY <2>2
    <3>2. k \div 2 \in 1 .. b /\ k \div 2 \in 1 .. n
      BY <3>1, Half
    <3>3. ld[q[1]] =< ld[q[k \div 2]]
      BY <1>2, <3>2
    <3>4. ld[q[k \div 2]] =< ld[q[k]]
      BY <3>1 DEF Ordered
    <3>5. QED
      BY <1>0, <3>1, <3>2, <3>3, <3>4
  <2>3. QED
    BY <2>1, <2>2
<1> HIDE DEF S
<1>3. i \in S
  BY <1>1, <1>2, Induct
<1>4. QED
  BY <1>3 DEF S

-----------------------------------------------------------------------------
(* What offer and remove make of a queue: its entries, the nodes they are of,  *)
(* and its order.                                                              *)
EntriesOf(q) == {q[i] : i \in 1 .. Len(q)}

(* Each node has at most one entry. *)
Single(q) == \A i, j \in 1 .. Len(q): i # j => q[i][1] # q[j][1]

InOrder(q, ld) == Ordered(q, Len(q), ld)

LEMMA SeqIsArray ==
    ASSUME NEW q \in Seq(Object)
    PROVE  Len(q) \in Nat /\ q \in Array(Len(q))
BY DEF Array

LEMMA PermutedEntries ==
    ASSUME NEW n \in Nat, NEW q \in Array(n), NEW r \in Array(n), Permuted(r, q, n)
    PROVE  EntriesOf(r) = EntriesOf(q) /\ (Single(q) => Single(r))
<1>1. Len(q) = n /\ Len(r) = n
  BY ArrayLen
<1>2. PICK p: Shuffle(p, n) /\ \A j \in 1 .. n: r[j] = q[p[j]]
  BY DEF Permuted
<1>3. EntriesOf(r) \subseteq EntriesOf(q)
  BY <1>1, <1>2 DEF EntriesOf, Shuffle
<1>4. ASSUME NEW j \in 1 .. n PROVE q[j] \in EntriesOf(r)
  <2>1. PICK i \in 1 .. n: p[i] = j
    BY <1>2 DEF Shuffle
  <2>2. QED
    BY <1>1, <1>2, <2>1 DEF EntriesOf
<1>5. EntriesOf(q) \subseteq EntriesOf(r)
  BY <1>1, <1>4 DEF EntriesOf
<1>6. ASSUME Single(q) PROVE Single(r)
  <2> SUFFICES ASSUME NEW i \in 1 .. n, NEW j \in 1 .. n, i # j PROVE r[i][1] # r[j][1]
    BY <1>1 DEF Single
  <2>1. p[i] \in 1 .. n /\ p[j] \in 1 .. n /\ p[i] # p[j]
    BY <1>2 DEF Shuffle
  <2>2. q[p[i]][1] # q[p[j]][1]
    BY <1>1, <1>6, <2>1 DEF Single
  <2>3. QED
    BY <1>2, <2>2
<1>7. QED
  BY <1>3, <1>5, <1>6

(* PriorityQueue.offer *)
LEMMA AddedIs ==
    ASSUME NEW q \in Seq(Object), NEW x \in Object, NEW ld
    PROVE  /\ Added(q, x, ld) \in Seq(Object)
           /\ EntriesOf(Added(q, x, ld)) = EntriesOf(q) \cup {x}
           /\ Single(q) /\ (\A y \in EntriesOf(q): y[1] # x[1]) => Single(Added(q, x, ld))
           /\ ld \in [Object -> Int] /\ InOrder(q, ld) => InOrder(Added(q, x, ld), ld)
<1> DEFINE m == Len(q)
           n == Len(q) + 1
           a == Append(q, x)
           r == SiftUp(a, n, x, ld)
<1>1. m \in Nat /\ n \in Nat /\ n = m + 1 /\ n \in 1 .. n /\ Len(a) = n
      /\ (\A j \in 1 .. m: a[j] = q[j]) /\ a[n] = x /\ q \in Array(m)
  BY SeqIsArray
<1>2. a \in Array(n)
  <2>1. a \in Seq(Object)
    OBVIOUS
  <2> HIDE DEF a
  <2>2. QED
    BY <1>1, <2>1, SeqIsArray
<1>3. Put(a, n, x) = a
  BY <1>1, <1>2 DEF Put, Array
<1>4. r = Added(q, x, ld)
  BY DEF Added
<1> HIDE DEF m, n, a, r
<1>5. r \in Array(n) /\ Len(r) = n /\ r \in Seq(Object)
  <2>1. r \in Array(n)
    BY <1>1, <1>2, SiftUpType DEF r
  <2>2. QED
    BY <1>1, <2>1, ArrayLen
<1>6. Permuted(r, a, n)
  BY <1>1, <1>2, <1>3, SiftUpEntries DEF r
<1>7. EntriesOf(r) = EntriesOf(a) /\ (Single(a) => Single(r))
  BY <1>1, <1>2, <1>5, <1>6, PermutedEntries
<1>8. EntriesOf(a) = EntriesOf(q) \cup {x}
  <2>1. EntriesOf(a) \subseteq EntriesOf(q) \cup {x}
    BY <1>1 DEF EntriesOf, m
  <2>2. \A j \in 1 .. m: q[j] \in EntriesOf(a)
    BY <1>1 DEF EntriesOf
  <2>3. x \in EntriesOf(a)
    BY <1>1 DEF EntriesOf
  <2>4. QED
    BY <2>1, <2>2, <2>3 DEF EntriesOf, m
<1>9. ASSUME Single(q), \A y \in EntriesOf(q): y[1] # x[1] PROVE Single(a)
  <2>1. \A j \in 1 .. m: q[j][1] # x[1]
    BY <1>9 DEF EntriesOf, m
  <2>2. SUFFICES ASSUME NEW i \in 1 .. n, NEW j \in 1 .. n, i # j PROVE a[i][1] # a[j][1]
    BY <1>1 DEF Single
  <2>3. (i = n \/ i \in 1 .. m) /\ (j = n \/ j \in 1 .. m)
    BY <1>1
  <2>4. QED
    BY <1>1, <1>9, <2>1, <2>2, <2>3 DEF Single, m
<1>10. ASSUME ld \in [Object -> Int], InOrder(q, ld) PROVE InOrder(r, ld)
  <2>1. OrderedBut(a, n, ld, n)
    <3> SUFFICES ASSUME NEW j \in 2 .. n
                 PROVE  /\ j # n /\ j \div 2 # n => ld[a[j \div 2]] =< ld[a[j]]
                        /\ n >= 2 /\ j \div 2 = n => ld[a[n \div 2]] =< ld[a[j]]
      BY DEF OrderedBut
    <3>1. j \div 2 < j /\ j \div 2 >= 1 /\ j \div 2 \in Nat
      BY <1>1, Half
    <3>2. j # n => j \in 2 .. m /\ j \in 1 .. m /\ j \div 2 \in 1 .. m
      BY <1>1, <3>1
    <3>3. j \div 2 # n
      BY <1>1, <3>1
    <3>4. QED
      BY <1>1, <1>10, <3>2, <3>3 DEF InOrder, Ordered, m
  <2>2. Beneath(a, n, ld, n, x)
    BY <1>1, Half DEF Beneath
  <2>3. Ordered(r, n, ld)
    BY <1>1, <1>2, <1>10, <2>1, <2>2, SiftUpOrder DEF r
  <2>4. QED
    BY <1>5, <2>3 DEF InOrder
<1>11. QED
  BY <1>4, <1>5, <1>7, <1>8, <1>9, <1>10

(* PriorityQueue.removeAt: the last entry fills the place. *)
LEMMA RemovedAtIs ==
    ASSUME NEW q \in Seq(Object), NEW i \in 1 .. Len(q), NEW ld
    PROVE  /\ RemovedAt(q, i, ld) \in Seq(Object)
           /\ EntriesOf(RemovedAt(q, i, ld)) = {q[j] : j \in (1 .. Len(q)) \ {i}}
           /\ Single(q) => Single(RemovedAt(q, i, ld))
           /\ ld \in [Object -> Int] /\ OrderedBut(q, Len(q), ld, i)
                 => InOrder(RemovedAt(q, i, ld), ld)
<1> DEFINE m == Len(q)
           n == Len(q) - 1
           x == q[Len(q)]
           a == SubSeq(q, 1, Len(q) - 1)
           d == SiftDown(a, i, x, ld)
           r == RemovedAt(q, i, ld)
<1>0. Len(q) \in Nat /\ Len(q) >= 1 /\ q \in Array(Len(q)) /\ x = q[m]
  BY SeqIsArray
<1>01. Len(a) = n /\ a \in Seq(Object) /\ \A j \in 1 .. n: a[j] = q[j]
  <2>1. a = [j \in 1 .. n |-> q[j]]
    BY <1>0
  <2>2. n \in Nat
    BY <1>0
  <2>3. a \in Array(n)
    <3>1. ASSUME NEW j \in 1 .. n PROVE q[j] \in Object
      BY <1>0, EntryType
    <3> HIDE DEF n, a
    <3>2. QED
      BY <2>1, <3>1 DEF Array
  <2> HIDE DEF n, a
  <2>4. QED
    BY <2>1, <2>2, <2>3, ArrayLen
<1> HIDE DEF a, x
<1>1. m \in Nat /\ n \in Nat /\ m = n + 1 /\ i \in 1 .. m /\ Len(a) = n /\ a \in Seq(Object)
      /\ (\A j \in 1 .. n: a[j] = q[j]) /\ x = q[m] /\ m \in 1 .. m /\ q \in Array(m)
  BY <1>0, <1>01
<1>2. a \in Array(n) /\ x \in Object
  BY <1>1, SeqIsArray, EntryType
<1>3. r = IF i = m THEN a ELSE IF d[i] = x THEN SiftUp(d, i, x, ld) ELSE d
  BY DEF RemovedAt, a, x
<1> HIDE DEF m, n, d, r
<1>4. i # m => i \in 1 .. n
  BY <1>1
<1> DEFINE b == Put(a, i, x)
<1>5. ASSUME i # m PROVE /\ b \in Array(n) /\ Len(b) = n
                         /\ \A j \in 1 .. n: b[j] = IF j = i THEN x ELSE a[j]
  <2>1. b \in Array(n)
    BY <1>1, <1>2, <1>4, <1>5, PutType
  <2>2. Len(b) = n
    BY <1>1, <2>1, ArrayLen
  <2>3. \A j \in 1 .. n: b[j] = IF j = i THEN x ELSE a[j]
    BY <1>1, <1>2, <1>4, <1>5, PutAt
  <2>4. QED
    BY <2>1, <2>2, <2>3
<1> HIDE DEF b
<1>6. ASSUME i # m PROVE r \in Array(n) /\ Permuted(r, b, n)
  <2>1. d \in Array(n) /\ Permuted(d, b, n)
    BY <1>1, <1>2, <1>4, <1>6, SiftDownType, SiftDownEntries DEF d, b
  <2>2. CASE d[i] # x
    BY <1>3, <1>6, <2>1, <2>2
  <2>3. CASE d[i] = x
    <3>1. r = SiftUp(d, i, x, ld)
      BY <1>3, <1>6, <2>3
    <3>2. r \in Array(n) /\ Permuted(r, Put(d, i, x), n)
      BY <1>1, <1>2, <1>4, <1>6, <2>1, <3>1, SiftUpType, SiftUpEntries
    <3>3. Put(d, i, x) = d
      BY <1>4, <1>6, <2>1, <2>3 DEF Put, Array
    <3>4. QED
      BY <1>1, <2>1, <3>2, <3>3, PermutedTwice
  <2>4. QED
    BY <2>2, <2>3
<1>7. r \in Array(n) /\ r \in Seq(Object) /\ Len(r) = n
  <2>1. r \in Array(n)
    BY <1>2, <1>3, <1>6
  <2>2. QED
    BY <1>1, <2>1, ArrayLen
<1>8. EntriesOf(r) = {q[j] : j \in (1 .. m) \ {i}} /\ (Single(q) => Single(r))
  <2>1. CASE i = m
    <3>1. r = a
      BY <1>3, <2>1
    <3>2. (1 .. m) \ {i} = 1 .. n
      BY <1>1, <2>1
    <3>3. EntriesOf(r) = {q[j] : j \in 1 .. n}
      BY <1>1, <3>1 DEF EntriesOf
    <3>4. Single(q) => Single(r)
      BY <1>1, <3>1 DEF Single, m
    <3>5. QED
      BY <3>2, <3>3, <3>4
  <2>2. CASE i # m
    <3>1. EntriesOf(r) = EntriesOf(b) /\ (Single(b) => Single(r))
      BY <1>1, <1>5, <1>6, <2>2, PermutedEntries
    <3>2. EntriesOf(b) \subseteq {q[j] : j \in (1 .. m) \ {i}}
      <4>1. ASSUME NEW j \in 1 .. n PROVE b[j] \in {q[k] : k \in (1 .. m) \ {i}}
        <5>1. j \in 1 .. m /\ m # i
          BY <1>1, <2>2
        <5>2. QED
          BY <1>1, <1>5, <2>2, <5>1
      <4>2. QED
        BY <1>5, <2>2, <4>1 DEF EntriesOf
    <3>3. {q[j] : j \in (1 .. m) \ {i}} \subseteq EntriesOf(b)
      <4>1. ASSUME NEW j \in (1 .. m) \ {i} PROVE q[j] \in {b[k] : k \in 1 .. n}
        <5>1. CASE j = m
          BY <1>1, <1>4, <1>5, <2>2, <5>1
        <5>2. CASE j # m
          <6>1. j \in 1 .. n
            BY <1>1, <4>1, <5>2
          <6>2. b[j] = q[j]
            BY <1>1, <1>5, <2>2, <4>1, <6>1
          <6>3. QED
            BY <6>1, <6>2
        <5>3. QED
          BY <5>1, <5>2
      <4>2. QED
        BY <1>5, <2>2, <4>1 DEF EntriesOf
    <3>4. ASSUME Single(q) PROVE Single(b)
      <4>1. SUFFICES ASSUME NEW j \in 1 .. n, NEW k \in 1 .. n, j # k
                     PROVE  b[j][1] # b[k][1]
        BY <1>5, <2>2 DEF Single
      <4>2. /\ b[j] = q[IF j = i THEN m ELSE j]
            /\ b[k] = q[IF k = i THEN m ELSE k]
        BY <1>1, <1>5, <2>2
      <4>3. /\ (IF j = i THEN m ELSE j) \in 1 .. m /\ (IF k = i THEN m ELSE k) \in 1 .. m
            /\ (IF j = i THEN m ELSE j) # (IF k = i THEN m ELSE k)
        BY <1>1, <4>1
      <4>4. QED
        BY <3>4, <4>2, <4>3 DEF Single, m
    <3>5. QED
      BY <3>1, <3>2, <3>3, <3>4
  <2>3. QED
    BY <2>1, <2>2
<1>9. ASSUME ld \in [Object -> Int], OrderedBut(q, m, ld, i) PROVE Ordered(r, n, ld)
  <2>0. \A j \in 2 .. n: j \in 2 .. m /\ j \in 1 .. n /\ j \div 2 \in 1 .. n
    BY <1>1, Half
  <2>1. CASE i = m
    <3>1. \A j \in 2 .. n: j # i /\ j \div 2 # i
      BY <1>1, <2>0, <2>1
    <3>2. QED
      BY <1>1, <1>3, <1>9, <2>0, <2>1, <3>1 DEF OrderedBut, Ordered
  <2>2. CASE i # m
    <3>1. OrderedBut(a, n, ld, i)
      <4>1. i >= 2 => i \div 2 \in 1 .. n
        BY <1>1, <1>4, <2>2, Half
      <4>2. QED
        BY <1>1, <1>9, <2>0, <4>1 DEF OrderedBut
    <3>2. PICK c: c = Child(a, ld, n, i)
      OBVIOUS
    <3>3. CASE 2*i > n \/ ld[x] =< ld[a[c]]
      <4>1. d = b
        BY <1>1, <1>2, <1>4, <2>2, <3>2, <3>3, SiftDownStop DEF d, b
      <4>2. Beneath(a, n, ld, i, x)
        BY <1>1, <1>2, <1>4, <1>9, <2>2, <3>2, <3>3, StopsBeneath
      <4>3. r = SiftUp(b, i, x, ld)
        BY <1>3, <1>4, <1>5, <2>2, <4>1
      <4>4. \A j \in 2 .. n: j \div 2 # j
        BY Half, <1>1
      <4>5. i >= 2 => i \div 2 # i /\ i \div 2 \in 1 .. n
        BY <1>1, <1>4, <2>2, Half
      <4>6. OrderedBut(b, n, ld, i) /\ Beneath(b, n, ld, i, x)
        BY <1>5, <2>0, <2>2, <3>1, <4>2, <4>4, <4>5 DEF OrderedBut, Beneath
      <4>7. QED
        BY <1>1, <1>2, <1>4, <1>5, <1>9, <2>2, <4>3, <4>6, SiftUpOrder
    <3>4. CASE 2*i =< n /\ ~(ld[x] =< ld[a[c]])
      <4>0. i \in 1 .. n
        BY <1>4, <2>2
      <4>1. c \in 1 .. n /\ i < c
        BY <1>1, <3>2, <3>4, <4>0, ChildPlace
      <4>2. PICK s: s = Put(a, i, a[c])
        OBVIOUS
      <4>3. d = SiftDown(s, c, x, ld)
        BY <1>1, <1>2, <3>2, <3>4, <4>0, <4>2, SiftDownLoop DEF d
      <4>4. s \in Array(n) /\ a[c] \in Object
        BY <1>1, <1>2, <4>0, <4>1, <4>2, PutType, EntryType
      <4>5. OrderedBut(s, n, ld, c) /\ s[c \div 2] = a[c]
        <5>1. n \in Nat /\ ld \in [Object -> Int] /\ 2*i =< n
          BY <1>1, <1>9, <3>4
        <5>2. QED
          BY <1>2, <3>1, <3>2, <4>0, <4>2, <5>1, HoleDown
      <4>6. ld[s[c \div 2]] =< ld[x]
        BY <1>2, <1>9, <3>4, <4>4, <4>5
      <4>7. Ordered(d, n, ld)
        BY <1>1, <1>2, <1>9, <4>1, <4>3, <4>4, <4>5, <4>6, SiftDownOrder
      <4>8. d = Put(SiftDown(a, c, x, ld), i, a[c])
        BY <1>1, <1>2, <3>2, <3>4, <4>0, SiftDownMove DEF d
      <4>9. d[i] = a[c]
        BY <1>1, <1>2, <4>0, <4>1, <4>8, SiftDownType, PutAt
      <4>10. d[i] # x
        BY <1>2, <1>9, <3>4, <4>4, <4>9
      <4>11. QED
        BY <1>3, <2>2, <4>7, <4>10
    <3>5. QED
      BY <1>1, <1>4, <2>2, <3>3, <3>4
  <2>3. QED
    BY <2>1, <2>2
<1>10. QED
  BY <1>7, <1>8, <1>9 DEF InOrder, r, m

(* PriorityQueue.remove with ConnectNodeLoad.equals: of the first entry of the *)
(* node, if there is one.                                                      *)
LEMMA RemovedIs ==
    ASSUME NEW q \in Seq(Object), NEW k, NEW ld
    PROVE  /\ Removed(q, k, ld) \in Seq(Object)
           /\ Single(q) => /\ Single(Removed(q, k, ld))
                           /\ EntriesOf(Removed(q, k, ld)) = {y \in EntriesOf(q): y[1] # k}
           /\ ld \in [Object -> Int] /\ InOrder(q, ld) => InOrder(Removed(q, k, ld), ld)
           /\ ld \in [Object -> Int] /\ Single(q) =>
                 \A i \in 1 .. Len(q): q[i][1] = k /\ OrderedBut(q, Len(q), ld, i)
                     => InOrder(Removed(q, k, ld), ld)
<1> DEFINE at == {i \in 1 .. Len(q): q[i][1] = k}
           f == CHOOSE i \in at: \A j \in at: i =< j
<1>1. CASE at = {}
  <2>1. Removed(q, k, ld) = q
    BY <1>1 DEF Removed
  <2>2. \A i \in 1 .. Len(q): q[i][1] # k
    BY <1>1
  <2>3. EntriesOf(q) = {y \in EntriesOf(q): y[1] # k}
    BY <2>2 DEF EntriesOf
  <2>4. QED
    BY <2>1, <2>2, <2>3
<1>2. CASE at # {}
  <2>1. Removed(q, k, ld) = RemovedAt(q, f, ld)
    BY <1>2 DEF Removed
  <2>2. f \in at
    <3>1. at \in SUBSET Nat
      OBVIOUS
    <3> HIDE DEF at
    <3>2. PICK i \in at: \A j \in at: i =< j
      BY <1>2, <3>1, LeastPlace
    <3>3. QED
      BY <3>2
  <2> HIDE DEF f
  <2>3. f \in 1 .. Len(q) /\ q[f][1] = k /\ Len(q) \in Nat /\ q \in Array(Len(q))
    BY <2>2, SeqIsArray
  <2>4. ASSUME Single(q)
        PROVE  {q[j] : j \in (1 .. Len(q)) \ {f}} = {y \in EntriesOf(q): y[1] # k}
    BY <2>3, <2>4 DEF EntriesOf, Single
  <2>5. ASSUME ld \in [Object -> Int], InOrder(q, ld)
        PROVE  OrderedBut(q, Len(q), ld, f)
    BY <2>3, <2>5, OrderedAnyway DEF InOrder
  <2>6. ASSUME Single(q), NEW i \in 1 .. Len(q), q[i][1] = k
        PROVE  i = f
    BY <2>3, <2>6 DEF Single
  <2>7. QED
    BY <2>1, <2>3, <2>4, <2>5, <2>6, RemovedAtIs
<1>3. QED
  BY <1>1, <1>2
=============================================================================
