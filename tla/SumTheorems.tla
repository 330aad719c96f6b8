----------------------------- MODULE SumTheorems ----------------------------
(***************************************************************************)
(* Sums over a range of numbers and counts of the numbers that satisfy a   *)
(* condition, as the proofs about Performance need them.                   *)
(*                                                                         *)
(* A sum is stated by its partial sums, which a proof can name and change. *)
(***************************************************************************)
EXTENDS Integers, FiniteSetTheorems, TLAPS

(* A set of numbers has a least one: how the proofs do an induction.       *)
LEMMA LeastNumber ==
  ASSUME NEW S \in SUBSET Nat, S # {}
  PROVE  \E i \in S : \A j \in S : i <= j
<1> DEFINE Less == {ss \in Nat \X Nat : ss[1] < ss[2]}
<1>1. IsWellFoundedOn(Less, Nat)
  BY NatLessThanWellFounded, Zenon DEF OpToRel
<1>2. PICK i \in S : \A j \in S : <<j, i>> \notin Less
  <2> HIDE DEF Less
  <2>1. \E i \in S : \A j \in S : ~(<<j, i>> \in Less)
    BY <1>1, WFMin, Zenon
  <2> QED BY <2>1
<1>3. ASSUME NEW j \in S PROVE i <= j
  <2>1. i \in Nat /\ j \in Nat /\ <<j, i>> \in Nat \X Nat
    OBVIOUS
  <2>2. ~(<<j, i>>[1] < <<j, i>>[2])
    BY <1>2, <2>1
  <2> QED BY <2>1, <2>2
<1> QED BY <1>3

(* f[1] + ... + f[n] = total.                                              *)
IsSum(f, n, total) ==
  \E s \in [0 .. n -> Int] :
    /\ s[0] = 0 /\ s[n] = total
    /\ \A i \in 1 .. n : s[i] = s[i - 1] + f[i]

(* The sum of zeros is zero, and of nothing else.                          *)
LEMMA SumOfZeros ==
  ASSUME NEW n \in Nat, NEW f, \A i \in 1 .. n : f[i] = 0, NEW total
  PROVE  IsSum(f, n, total) <=> total = 0
<1>1. ASSUME IsSum(f, n, total) PROVE total = 0
  <2>1. PICK s \in [0 .. n -> Int] :
          /\ s[0] = 0 /\ s[n] = total
          /\ \A i \in 1 .. n : s[i] = s[i - 1] + f[i]
    BY <1>1 DEF IsSum
  <2> DEFINE Wrong == {i \in 0 .. n : s[i] # 0}
  <2>2. SUFFICES ASSUME Wrong # {} PROVE FALSE
    BY <2>1
  <2>3. PICK i \in Wrong : \A j \in Wrong : i <= j
    <3>1. Wrong \subseteq Nat
      OBVIOUS
    <3> HIDE DEF Wrong
    <3> QED BY <2>2, <3>1, LeastNumber
  <2>4. i # 0 /\ i \in 1 .. n /\ i - 1 \in 0 .. n /\ i - 1 < i
    BY <2>1, <2>3
  <2>5. s[i - 1] = 0
    BY <2>3, <2>4
  <2> QED BY <2>1, <2>3, <2>4, <2>5
<1>2. ASSUME total = 0 PROVE IsSum(f, n, total)
  <2> DEFINE s == [i \in 0 .. n |-> 0]
  <2>1. s \in [0 .. n -> Int] /\ s[0] = 0 /\ s[n] = total
    BY <1>2
  <2>2. \A i \in 1 .. n : s[i] = s[i - 1] + f[i]
    OBVIOUS
  <2> HIDE DEF s
  <2> QED BY <2>1, <2>2 DEF IsSum
<1> QED BY <1>1, <1>2

(* When one summand changes, the sum changes as much.                      *)
LEMMA SumChange ==
  ASSUME NEW n \in Nat, NEW f, NEW g, NEW total, IsSum(f, n, total),
         NEW k \in 1 .. n, NEW d \in Int,
         \A i \in 1 .. n : f[i] \in Int,
         g[k] = f[k] + d, \A i \in (1 .. n) \ {k} : g[i] = f[i]
  PROVE  IsSum(g, n, total + d)
<1>1. PICK s \in [0 .. n -> Int] :
        /\ s[0] = 0 /\ s[n] = total
        /\ \A i \in 1 .. n : s[i] = s[i - 1] + f[i]
  BY DEF IsSum
<1> DEFINE r == [i \in 0 .. n |-> IF i < k THEN s[i] ELSE s[i] + d]
<1>2. r \in [0 .. n -> Int] /\ r[0] = 0 /\ r[n] = total + d
  BY <1>1
<1>3. ASSUME NEW i \in 1 .. n PROVE r[i] = r[i - 1] + g[i]
  <2>1. i \in 0 .. n /\ i - 1 \in 0 .. n /\ s[i] \in Int /\ s[i - 1] \in Int /\ s[i] = s[i - 1] + f[i]
    BY <1>1
  <2>2. CASE i < k
    BY <2>1, <2>2
  <2>3. CASE i = k
    BY <2>1, <2>3
  <2>4. CASE i > k
    <3>1. r[i] = s[i] + d /\ r[i - 1] = s[i - 1] + d /\ g[i] = f[i]
      BY <2>1, <2>4
    <3> QED BY <2>1, <3>1
  <2> QED BY <2>2, <2>3, <2>4
<1> HIDE DEF r
<1> QED BY <1>2, <1>3 DEF IsSum

(* A sum depends on its summands alone.                                    *)
LEMMA SumSame ==
  ASSUME NEW n \in Nat, NEW f, NEW g, NEW total, \A i \in 1 .. n : g[i] = f[i]
  PROVE  IsSum(f, n, total) <=> IsSum(g, n, total)
BY DEF IsSum

(* The numbers of elements of two sets that have none in common add up.    *)
LEMMA CardinalityOfTwo ==
  ASSUME NEW S, NEW T, IsFiniteSet(S), IsFiniteSet(T), S \cap T = {}
  PROVE  /\ IsFiniteSet(S \cup T)
         /\ Cardinality(S \cup T) = Cardinality(S) + Cardinality(T)
<1>1. /\ IsFiniteSet(S \cup T)
      /\ Cardinality(S \cup T) = Cardinality(S) + Cardinality(T) - Cardinality(S \cap T)
  BY FS_Union
<1>2. Cardinality(S \cap T) = 0 /\ Cardinality(S) \in Nat /\ Cardinality(T) \in Nat
  BY FS_EmptySet, FS_CardinalityType
<1> QED BY <1>1, <1>2
=============================================================================
