----------------------------- MODULE Induction -----------------------------
(***************************************************************************)
(* Induction over the natural numbers for sets, and what follows for       *)
(* places in a sequence.                                                   *)
(***************************************************************************)
EXTENDS Integers, FiniteSets, FiniteSetTheorems, TLAPS

(* Induction over the natural numbers, from the pigeonhole principle: if n     *)
(* were not in S, k |-> k - 1 would map the numbers up to n outside S one to   *)
(* one to those below n.                                                       *)
LEMMA Induct ==
    ASSUME NEW S, 0 \in S, \A k \in Nat: k \in S => k + 1 \in S,
           NEW n \in Nat
    PROVE  n \in S
<1> SUFFICES ASSUME n \notin S PROVE FALSE
  OBVIOUS
<1> DEFINE Out == {k \in 0 .. n: k \notin S}
           Rest == Out \ {n}
           f == [k \in Out |-> k - 1]
<1>1. IsFiniteSet(Out) /\ n \in Out
  <2>1. IsFiniteSet(0 .. n)
    BY FS_Interval
  <2>2. QED
    BY <2>1, FS_Subset
<1>2. IsFiniteSet(Rest) /\ Cardinality(Rest) < Cardinality(Out)
  <2>1. IsFiniteSet(Rest) /\ Cardinality(Rest) = Cardinality(Out) - 1
    BY <1>1, FS_RemoveElement
  <2>2. Cardinality(Out) \in Nat
    BY <1>1, FS_CardinalityType
  <2>3. QED
    BY <2>1, <2>2
<1>3. f \in [Out -> Rest]
  <2>1. ASSUME NEW k \in Out PROVE k - 1 \in Rest
    <3>1. k # 0
      OBVIOUS
    <3>2. k - 1 \in Nat /\ k - 1 + 1 = k
      BY <3>1
    <3>3. k - 1 \notin S
      BY <3>2
    <3>4. QED
      BY <3>2, <3>3
  <2>2. QED
    BY <2>1
<1> HIDE DEF Out, Rest, f
<1>4. PICK x, y \in Out: x # y /\ f[x] = f[y]
  BY <1>1, <1>2, <1>3, FS_PigeonHole
<1>5. QED
  BY <1>4 DEF f, Out

(* A set of places has a first one. *)
LEMMA LeastPlace ==
    ASSUME NEW P \in SUBSET Nat, P # {}
    PROVE  \E i \in P: \A j \in P: i =< j
<1> SUFFICES ASSUME \A i \in P: \E j \in P: j < i PROVE FALSE
  OBVIOUS
<1> DEFINE S == {b \in Nat: \A i \in P: i >= b}
<1>1. 0 \in S
  OBVIOUS
<1>2. \A b \in Nat: b \in S => b + 1 \in S
  OBVIOUS
<1> HIDE DEF S
<1>3. PICK i \in P: TRUE
  OBVIOUS
<1>4. i + 1 \in S
  BY <1>1, <1>2, Induct
<1>5. QED
  BY <1>4 DEF S
=============================================================================
