------------------------------ MODULE MaximumFacts ------------------------------
(***************************************************************************)
(* The least and the largest of a set of numbers, for proofs about row     *)
(* ids and tokens.                                                         *)
(***************************************************************************)
EXTENDS Integers, FiniteSetsExt, TLAPS, WellFoundedInduction, FiniteSetTheorems

\* Some numbers have a least one.
LEMMA LeastFacts ==
  ASSUME NEW T, T \subseteq Nat, T # {}
  PROVE  \E u \in T : \A y \in T : u <= y
<1>1. PICK u \in T : \A y \in T : ~ (<<y, u>> \in OpToRel(<, Nat))
  BY NatLessThanWellFounded, WFMin, Zenon
<1>2. ASSUME NEW y \in T PROVE u <= y
  <2>1. y \in Nat /\ u \in Nat
    OBVIOUS
  <2>2. <<y, u>> \in Nat \X Nat /\ <<y, u>>[1] = y /\ <<y, u>>[2] = u
    BY <2>1
  <2>3. y < u => <<y, u>> \in OpToRel(<, Nat)
    BY <2>2, Zenon DEF OpToRel
  <2>4. ~ (y < u)
    BY <1>1, <2>3, Zenon
  <2> QED BY <2>1, <2>4
<1> QED BY <1>2

\* A bounded set of naturals has a maximum.
LEMMA MaxFacts ==
  ASSUME NEW S, S \subseteq Nat, S # {}, NEW b \in Nat, \A x \in S : x <= b
  PROVE  Max(S) \in S /\ \A x \in S : x <= Max(S)
<1> DEFINE T == {u \in Nat : \A x \in S : x <= u}
<1>1. T \subseteq Nat /\ T # {}
  OBVIOUS
<1>2. PICK u \in T : \A y \in T : u <= y
  <2> HIDE DEF T
  <2> QED BY <1>1, LeastFacts
<1>3. u \in S
  <2>1. SUFFICES ASSUME u \notin S PROVE FALSE
    OBVIOUS
  <2>2. \A x \in S : x < u
    BY <2>1
  <2>3. u \in Nat /\ u # 0
    <3>1. PICK x \in S : x \in Nat /\ x < u
      BY <2>2
    <3> QED BY <3>1
  <2>4. u - 1 \in Nat /\ \A x \in S : x <= u - 1
    BY <2>2, <2>3
  <2>5. u - 1 \in T
    BY <2>4
  <2> QED BY <1>2, <2>3, <2>5
<1> QED BY <1>3 DEF Max

\* A finite set of naturals is bounded.
LEMMA FiniteBounded ==
  ASSUME NEW S, S \subseteq Nat, IsFiniteSet(S)
  PROVE  \E b \in Nat : \A x \in S : x <= b
<1>0. PICK n \in Nat : \E f : f \in [1..n -> S] /\ \A x \in S : \E i \in 1..n : f[i] = x
  <2>1. Cardinality(S) \in Nat /\ ExistsBijection(1..Cardinality(S), S)
    BY FS_CardinalityType
  <2>2. PICK f : f \in Bijection(1..Cardinality(S), S)
    BY <2>1 DEF ExistsBijection
  <2> QED BY <2>1, <2>2 DEF Bijection, Surjection, Injection
<1>1. PICK f : f \in [1..n -> S] /\ \A x \in S : \E i \in 1..n : f[i] = x
  BY <1>0
<1>2. \A i \in 1..n : f[i] \in Nat
  BY <1>1
<1> DEFINE Bounded(k) == \E b \in Nat : \A i \in 1..k : f[i] <= b
           T == {k \in 0..n : ~ Bounded(k)}
<1>3. T = {}
  <2>1. SUFFICES ASSUME T # {} PROVE FALSE
    OBVIOUS
  <2>2. T \subseteq Nat
    OBVIOUS
  <2>3. PICK k \in T : \A j \in T : k <= j
    <3> HIDE DEF T
    <3> QED BY <2>1, <2>2, LeastFacts
  <2>4. k \in 0..n /\ k # 0
    <3>1. \A i \in 1..0 : f[i] <= 0
      OBVIOUS
    <3>2. Bounded(0)
      BY <3>1
    <3> QED BY <3>2
  <2>5. k - 1 \notin T
    <3>1. k \in Nat /\ ~ (k <= k - 1)
      BY <2>4
    <3> HIDE DEF T
    <3> QED BY <2>3, <3>1
  <2>6. Bounded(k - 1)
    BY <2>4, <2>5
  <2>7. PICK b \in Nat : \A i \in 1..(k - 1) : f[i] <= b
    BY <2>6
  <2>8. f[k] \in Nat
    BY <1>2, <2>4
  <2>9. PICK c \in Nat : b <= c /\ f[k] <= c
    <3>1. CASE b <= f[k]
      BY <2>8, <3>1
    <3>2. CASE ~ (b <= f[k])
      BY <2>8, <3>2
    <3> QED BY <3>1, <3>2
  <2>10. \A i \in 1..k : f[i] <= c
    <3> TAKE i \in 1..k
    <3>1. f[i] \in Nat
      BY <1>2, <2>4
    <3>2. i = k \/ i \in 1..(k - 1)
      BY <2>4
    <3> QED BY <2>7, <2>9, <3>1, <3>2
  <2>11. Bounded(k)
    BY <2>10
  <2> QED BY <2>3, <2>11
<1>4. Bounded(n)
  <2>1. n \in 0..n
    OBVIOUS
  <2> QED BY <1>3, <2>1
<1> QED BY <1>1, <1>4
================================================================================
