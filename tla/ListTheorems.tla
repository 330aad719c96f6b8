---------------------------- MODULE ListTheorems ----------------------------
(***************************************************************************)
(* Lemmas about lists without repetition, as std::list<unique_ptr<Page>>   *)
(* is: what erasing, inserting and appending an element leave in place;    *)
(* and about lists put together.                                           *)
(***************************************************************************)
EXTENDS Integers, Sequences, SequencesExt, SequenceTheorems, SumTheorems, TLAPS

(* No element is in the list twice.                                        *)
Distinct(s) == \A j, k \in 1..Len(s) : s[j] = s[k] => j = k

(* Membership in a list by position.                                       *)
LEMMA PlacesOfSeq ==
  ASSUME NEW S, NEW s \in Seq(S)
  PROVE  /\ \A k \in 1..Len(s) : s[k] \in Range(s)
         /\ \A x \in Range(s) : \E k \in 1..Len(s) : s[k] = x
         /\ Range(s) \subseteq S
<1>1. DOMAIN s = 1..Len(s)
  BY LenProperties
<1>2. \A k \in 1..Len(s) : s[k] \in S
  BY ElementOfSeq
<1>3. \A k \in 1..Len(s) : s[k] \in Range(s)
  BY <1>1 DEF Range
<1>4. ASSUME NEW x \in Range(s) PROVE \E k \in 1..Len(s) : s[k] = x
  BY <1>1 DEF Range
<1>5. Range(s) \subseteq S
  BY <1>2, <1>4
<1> QED BY <1>3, <1>4, <1>5

(* Any cut of a list is a list, and is empty when the cut is.              *)
LEMMA CutOfSeq ==
  ASSUME NEW S, NEW s \in Seq(S), NEW m \in Nat \ {0}, NEW n \in Int, n <= Len(s)
  PROVE  /\ SubSeq(s, m, n) \in Seq(S)
         /\ Len(SubSeq(s, m, n)) = IF m <= n THEN n - m + 1 ELSE 0
         /\ \A k \in 1 .. n - m + 1 : SubSeq(s, m, n)[k] = s[m + k - 1]
<1>1. Len(s) \in Nat
  BY LenProperties
<1>2. \A k \in m..n : s[k] \in S
  BY <1>1, ElementOfSeq
<1> QED BY <1>2, SubSeqProperties

(* The n elements behind the first m.                                      *)
LEMMA PieceOfSeq ==
  ASSUME NEW S, NEW s \in Seq(S), NEW m \in Nat, NEW n \in Nat, m + n <= Len(s)
  PROVE  SubSeq(s, m + 1, m + n) \in Seq(S) /\ Len(SubSeq(s, m + 1, m + n)) = n
<1>1. m + 1 \in Nat \ {0} /\ m + n \in Int /\ (m + n) - (m + 1) + 1 = n
  OBVIOUS
<1>2. m + 1 <= m + n <=> n # 0
  OBVIOUS
<1> QED BY <1>1, <1>2, CutOfSeq

(* A list in two: the first m elements, and the others.                    *)
LEMMA HalvesOfSeq ==
  ASSUME NEW S, NEW s \in Seq(S), NEW m \in Nat, m <= Len(s)
  PROVE  /\ SubSeq(s, 1, m) \in Seq(S) /\ Len(SubSeq(s, 1, m)) = m
         /\ SubSeq(s, m + 1, Len(s)) \in Seq(S)
         /\ Len(SubSeq(s, m + 1, Len(s))) = Len(s) - m
<1> DEFINE n == Len(s)
<1>1. n \in Nat /\ m <= n
  BY LenProperties
<1>2. SubSeq(s, 1, m) \in Seq(S) /\ Len(SubSeq(s, 1, m)) = m
  BY <1>1, CutOfSeq
<1>3. SubSeq(s, m + 1, n) \in Seq(S) /\ Len(SubSeq(s, m + 1, n)) = n - m
  <2>1. m + 1 \in Nat \ {0}
    OBVIOUS
  <2>2. SubSeq(s, m + 1, n) \in Seq(S)
        /\ Len(SubSeq(s, m + 1, n)) = IF m + 1 <= n THEN n - (m + 1) + 1 ELSE 0
    BY <2>1, <1>1, CutOfSeq
  <2>3. (IF m + 1 <= n THEN n - (m + 1) + 1 ELSE 0) = n - m
    <3> HIDE DEF n
    <3> QED BY <1>1
  <2> QED BY <2>2, <2>3
<1> QED BY <1>2, <1>3

(* Other elements in the place of n of them behind the first m.            *)
Edited(s, m, n, t) == SubSeq(s, 1, m) \o t \o SubSeq(s, m + n + 1, Len(s))

(* An edited list is a list, as long as before less the n elements and     *)
(* longer by the new ones.                                                 *)
LEMMA EditedList ==
  ASSUME NEW S, NEW s \in Seq(S), NEW t \in Seq(S),
         NEW m \in Nat, NEW n \in Nat, m + n <= Len(s)
  PROVE  /\ Edited(s, m, n, t) \in Seq(S)
         /\ Len(Edited(s, m, n, t)) + n = Len(s) + Len(t)
         /\ Len(Edited(s, m, n, t)) \in Nat
<1> DEFINE a == SubSeq(s, 1, m)
           b == SubSeq(s, m + n + 1, Len(s))
           c == a \o t
<1>1. a \in Seq(S) /\ Len(a) = m
  <2>1. m <= Len(s)
    BY LenProperties
  <2> QED BY <2>1, HalvesOfSeq
<1>2. b \in Seq(S) /\ Len(b) = Len(s) - (m + n)
  <2>1. m + n \in Nat
    OBVIOUS
  <2> QED BY <2>1, HalvesOfSeq
<1> HIDE DEF a, b
<1>3. c \in Seq(S) /\ Len(c) = m + Len(t)
  BY <1>1, ConcatProperties
<1> HIDE DEF c
<1>4. c \o b \in Seq(S) /\ Len(c \o b) = Len(c) + Len(b)
  <2>1. c \in Seq(S) /\ b \in Seq(S)
    BY <1>2, <1>3
  <2> QED BY <2>1, ConcatProperties
<1>5. Len(c \o b) + n = Len(s) + Len(t) /\ Len(c \o b) \in Nat
  <2>1. Len(s) \in Nat /\ Len(t) \in Nat
    BY LenProperties
  <2>2. Len(c \o b) = m + Len(t) + (Len(s) - (m + n))
    BY <1>2, <1>3, <1>4
  <2> QED BY <2>1, <2>2
<1> QED BY <1>4, <1>5 DEF Edited, a, b, c

(* As many in their place, or new ones in the place of none.               *)
LEMMA ReplacedList ==
  ASSUME NEW S, NEW s \in Seq(S), NEW t \in Seq(S),
         NEW m \in Nat, NEW n \in Nat, m + n <= Len(s), Len(t) = n
  PROVE  Edited(s, m, n, t) \in Seq(S) /\ Len(Edited(s, m, n, t)) = Len(s)
<1>1. Len(s) \in Nat /\ Len(t) \in Nat
  BY LenProperties
<1>2. /\ Edited(s, m, n, t) \in Seq(S)
      /\ Len(Edited(s, m, n, t)) + n = Len(s) + Len(t)
      /\ Len(Edited(s, m, n, t)) \in Nat
  BY EditedList
<1> QED BY <1>1, <1>2

(* Erasing an inner element of a list leaves its ends and the others.      *)
LEMMA RemoveInner ==
  ASSUME NEW S, NEW s \in Seq(S), NEW i \in 2 .. Len(s) - 1, Distinct(s)
  PROVE  /\ RemoveAt(s, i) \in Seq(S)
         /\ Len(RemoveAt(s, i)) = Len(s) - 1
         /\ Distinct(RemoveAt(s, i))
         /\ RemoveAt(s, i)[1] = s[1]
         /\ RemoveAt(s, i)[Len(s) - 1] = s[Len(s)]
         /\ Range(RemoveAt(s, i)) = Range(s) \ {s[i]}
<1> DEFINE a == SubSeq(s, 1, i - 1)
           b == SubSeq(s, i + 1, Len(s))
           r == RemoveAt(s, i)
           n == Len(s)
<1>0. n \in Nat /\ i \in 2 .. n - 1
  BY LenProperties
<1>1. a \in Seq(S) /\ Len(a) = i - 1 /\ \A k \in 1 .. i - 1 : a[k] = s[k]
  BY <1>0, CutOfSeq
<1>2. b \in Seq(S) /\ Len(b) = n - i /\ \A k \in 1 .. n - i : b[k] = s[i + k]
  <2>1. b \in Seq(S) /\ Len(b) = n - i /\ \A k \in 1 .. n - i : b[k] = s[i + 1 + k - 1]
    BY <1>0, CutOfSeq
  <2>2. ASSUME NEW k \in 1 .. n - i PROVE i + 1 + k - 1 = i + k
    BY <1>0
  <2> QED BY <2>1, <2>2
<1>3. r \in Seq(S) /\ Len(r) = n - 1
      /\ \A k \in 1 .. n - 1 : r[k] = IF k <= i - 1 THEN a[k] ELSE b[k - (i - 1)]
  <2>1. r = a \o b
    BY DEF RemoveAt
  <2>2. Len(a) + Len(b) = n - 1
    BY <1>0, <1>1, <1>2
  <2>3. /\ a \o b \in Seq(S)
        /\ Len(a \o b) = Len(a) + Len(b)
        /\ \A k \in 1 .. Len(a) + Len(b) :
             (a \o b)[k] = IF k <= Len(a) THEN a[k] ELSE b[k - Len(a)]
    <3> HIDE DEF a, b
    <3> QED BY <1>1, <1>2, ConcatProperties
  <2> HIDE DEF a, b, r
  <2>4. Len(a) = i - 1
    BY <1>1
  <2> QED BY <2>1, <2>2, <2>3, <2>4
<1> HIDE DEF a, b, r
<1>4. \A k \in 1 .. i - 1 : r[k] = s[k]
  BY <1>0, <1>1, <1>3, SMTT(20)
<1>5. \A k \in i .. n - 1 : r[k] = s[k + 1]
  <2> SUFFICES ASSUME NEW k \in i .. n - 1 PROVE r[k] = s[k + 1]
    OBVIOUS
  <2>1. r[k] = b[k - (i - 1)]
    BY <1>0, <1>3
  <2>2. k - (i - 1) \in 1 .. n - i /\ i + (k - (i - 1)) = k + 1
    BY <1>0
  <2> QED BY <2>1, <2>2, <1>2
<1>6. \A j, k \in 1 .. n : s[j] = s[k] => j = k
  BY DEF Distinct
<1> HIDE DEF n
<1>7. Distinct(r)
  <2> SUFFICES ASSUME NEW j \in 1 .. n - 1, NEW k \in 1 .. n - 1, r[j] = r[k] PROVE j = k
    BY <1>3 DEF Distinct
  <2> DEFINE at(x) == IF x <= i - 1 THEN x ELSE x + 1
  <2>1. r[j] = s[at(j)] /\ r[k] = s[at(k)]
    BY <1>0, <1>4, <1>5
  <2>2. at(j) \in 1 .. n /\ at(k) \in 1 .. n
    BY <1>0
  <2>3. at(j) = at(k)
    BY <2>1, <2>2, <1>6
  <2> QED BY <2>3, <1>0
<1>8. r[1] = s[1] /\ r[n - 1] = s[n]
  <2>1. 1 \in 1 .. i - 1 /\ n - 1 \in i .. n - 1 /\ (n - 1) + 1 = n
    BY <1>0
  <2> QED BY <2>1, <1>4, <1>5
<1>9. Range(r) = Range(s) \ {s[i]}
  <2>0. i \in 1 .. n /\ DOMAIN s = 1 .. n /\ DOMAIN r = 1 .. n - 1
    BY <1>0, <1>3, LenProperties DEF n
  <2>1. ASSUME NEW x \in Range(r) PROVE x \in Range(s) \ {s[i]}
    <3>1. PICK k \in 1 .. n - 1 : r[k] = x
      BY <2>0 DEF Range
    <3>2. CASE k <= i - 1
      <4>1. k \in 1 .. n /\ x = s[k] /\ k # i
        BY <3>1, <3>2, <1>0, <1>4
      <4> QED BY <4>1, <2>0, <1>6 DEF Range
    <3>3. CASE k >= i
      <4>1. k + 1 \in 1 .. n /\ x = s[k + 1] /\ k + 1 # i
        BY <3>1, <3>3, <1>0, <1>5
      <4> QED BY <4>1, <2>0, <1>6 DEF Range
    <3> QED BY <3>2, <3>3, <1>0
  <2>2. ASSUME NEW x \in Range(s) \ {s[i]} PROVE x \in Range(r)
    <3>1. PICK k \in 1 .. n : s[k] = x /\ k # i
      BY <2>0 DEF Range
    <3>2. CASE k <= i - 1
      BY <3>1, <3>2, <2>0, <1>0, <1>4 DEF Range
    <3>3. CASE k > i
      <4>1. k - 1 \in i .. n - 1 /\ k - 1 \in 1 .. n - 1 /\ (k - 1) + 1 = k
        BY <3>1, <3>3, <1>0
      <4>2. r[k - 1] = x
        BY <4>1, <3>1, <1>5
      <4> QED BY <4>1, <4>2, <2>0 DEF Range
    <3> QED BY <3>1, <3>2, <3>3, <1>0
  <2> QED BY <2>1, <2>2
<1> QED BY <1>3, <1>7, <1>8, <1>9 DEF r, n

(* Inserting a new element behind another leaves the ends and the others.  *)
LEMMA InsertInner ==
  ASSUME NEW S, NEW s \in Seq(S), NEW i \in 2 .. Len(s), NEW e \in S,
         Distinct(s), e \notin Range(s)
  PROVE  /\ InsertAt(s, i, e) \in Seq(S)
         /\ Len(InsertAt(s, i, e)) = Len(s) + 1
         /\ Distinct(InsertAt(s, i, e))
         /\ InsertAt(s, i, e)[1] = s[1]
         /\ InsertAt(s, i, e)[Len(s) + 1] = s[Len(s)]
         /\ Range(InsertAt(s, i, e)) = Range(s) \cup {e}
<1> DEFINE a == SubSeq(s, 1, i - 1)
           b == SubSeq(s, i, Len(s))
           c == a \o <<e>>
           r == InsertAt(s, i, e)
           n == Len(s)
<1>0. n \in Nat /\ i \in 2 .. n
  BY LenProperties
<1>1. a \in Seq(S) /\ Len(a) = i - 1 /\ \A k \in 1 .. i - 1 : a[k] = s[k]
  BY <1>0, CutOfSeq
<1>2. b \in Seq(S) /\ Len(b) = n - i + 1 /\ \A k \in 1 .. n - i + 1 : b[k] = s[i + k - 1]
  BY <1>0, CutOfSeq
<1>3. c \in Seq(S) /\ Len(c) = i /\ c[i] = e /\ \A k \in 1 .. i - 1 : c[k] = s[k]
  <2>1. c = Append(a, e)
    <3> HIDE DEF a
    <3> QED BY <1>1, AppendIsConcat
  <2>2. /\ Append(a, e) \in Seq(S)
        /\ Len(Append(a, e)) = Len(a) + 1
        /\ \A k \in 1 .. Len(a) : Append(a, e)[k] = a[k]
        /\ Append(a, e)[Len(a) + 1] = e
    <3> HIDE DEF a
    <3> QED BY <1>1, AppendProperties
  <2> HIDE DEF a, c
  <2>3. Len(a) + 1 = i
    BY <1>0, <1>1
  <2> QED BY <2>1, <2>2, <2>3, <1>1
<1>4. r \in Seq(S) /\ Len(r) = n + 1
      /\ \A k \in 1 .. n + 1 : r[k] = IF k <= i THEN c[k] ELSE b[k - i]
  <2>1. r = c \o b
    BY DEF InsertAt
  <2>2. Len(c) + Len(b) = n + 1
    <3> HIDE DEF b, c
    <3> QED BY <1>0, <1>2, <1>3
  <2>3. /\ c \o b \in Seq(S)
        /\ Len(c \o b) = Len(c) + Len(b)
        /\ \A k \in 1 .. Len(c) + Len(b) :
             (c \o b)[k] = IF k <= Len(c) THEN c[k] ELSE b[k - Len(c)]
    <3> HIDE DEF b, c
    <3> QED BY <1>2, <1>3, ConcatProperties
  <2> HIDE DEF b, c, r
  <2>4. Len(c) = i
    BY <1>3
  <2> QED BY <2>1, <2>2, <2>3, <2>4
<1> HIDE DEF a, b, c, r
<1>5. \A k \in 1 .. i - 1 : r[k] = s[k]
  BY <1>0, <1>3, <1>4
<1>6. r[i] = e
  BY <1>0, <1>3, <1>4
<1>7. \A k \in i .. n : r[k + 1] = s[k]
  <2> SUFFICES ASSUME NEW k \in i .. n PROVE r[k + 1] = s[k]
    OBVIOUS
  <2>1. r[k + 1] = b[(k + 1) - i]
    BY <1>0, <1>4
  <2>2. (k + 1) - i \in 1 .. n - i + 1 /\ i + ((k + 1) - i) - 1 = k
    BY <1>0
  <2> QED BY <2>1, <2>2, <1>2
<1>8. \A j, k \in 1 .. n : s[j] = s[k] => j = k
  BY DEF Distinct
<1>9. \A k \in 1 .. n : s[k] \in Range(s) /\ s[k] # e
  BY PlacesOfSeq
<1> HIDE DEF n
<1>10. Distinct(r)
  <2> SUFFICES ASSUME NEW j \in 1 .. n + 1, NEW k \in 1 .. n + 1, r[j] = r[k] PROVE j = k
    BY <1>4 DEF Distinct
  <2> DEFINE at(x) == IF x <= i - 1 THEN x ELSE x - 1
  <2>1. ASSUME NEW x \in 1 .. n + 1, x # i PROVE at(x) \in 1 .. n /\ r[x] = s[at(x)]
    <3>1. CASE x <= i - 1
      BY <3>1, <1>0, <1>5
    <3>2. CASE x > i
      <4>1. x - 1 \in i .. n /\ (x - 1) + 1 = x
        BY <3>2, <1>0
      <4> QED BY <3>2, <4>1, <1>0, <1>7
    <3> QED BY <2>1, <3>1, <3>2, <1>0
  <2>2. CASE j = i /\ k # i
    BY <2>1, <2>2, <1>6, <1>9
  <2>3. CASE j # i /\ k = i
    BY <2>1, <2>3, <1>6, <1>9
  <2>4. CASE j # i /\ k # i
    <3>1. at(j) = at(k)
      <4> HIDE DEF at
      <4> QED BY <2>1, <2>4, <1>8
    <3> QED BY <3>1, <2>4, <1>0
  <2> QED BY <2>2, <2>3, <2>4
<1>11. r[1] = s[1] /\ r[n + 1] = s[n]
  <2>1. 1 \in 1 .. i - 1 /\ n \in i .. n
    BY <1>0
  <2> QED BY <2>1, <1>5, <1>7
<1>12. Range(r) = Range(s) \cup {e}
  <2>0. DOMAIN s = 1 .. n /\ DOMAIN r = 1 .. n + 1
    BY <1>0, <1>4, LenProperties DEF n
  <2>1. ASSUME NEW x \in Range(r) PROVE x \in Range(s) \cup {e}
    <3>1. PICK k \in 1 .. n + 1 : r[k] = x
      BY <2>0 DEF Range
    <3>2. CASE k <= i - 1
      <4>1. k \in 1 .. n /\ x = s[k]
        BY <3>1, <3>2, <1>0, <1>5
      <4> QED BY <4>1, <1>9
    <3>3. CASE k > i
      <4>1. k - 1 \in i .. n /\ k - 1 \in 1 .. n /\ (k - 1) + 1 = k
        BY <3>3, <1>0
      <4> QED BY <4>1, <3>1, <1>7, <1>9
    <3> QED BY <3>1, <3>2, <3>3, <1>0, <1>6
  <2>2. ASSUME NEW x \in Range(s) PROVE x \in Range(r)
    <3>1. PICK k \in 1 .. n : s[k] = x
      BY <2>0 DEF Range
    <3>2. CASE k <= i - 1
      BY <3>1, <3>2, <2>0, <1>0, <1>5 DEF Range
    <3>3. CASE k >= i
      <4>1. k + 1 \in 1 .. n + 1 /\ r[k + 1] = x
        BY <3>1, <3>3, <1>0, <1>7
      <4> QED BY <4>1, <2>0 DEF Range
    <3> QED BY <3>1, <3>2, <3>3, <1>0
  <2>3. e \in Range(r)
    BY <2>0, <1>0, <1>6 DEF Range
  <2> QED BY <2>1, <2>2, <2>3
<1> QED BY <1>4, <1>10, <1>11, <1>12 DEF r, n

(* A new element goes behind the last.                                     *)
LEMMA AppendOuter ==
  ASSUME NEW S, NEW s \in Seq(S), NEW e \in S, Distinct(s), e \notin Range(s)
  PROVE  /\ Append(s, e) \in Seq(S)
         /\ Len(Append(s, e)) = Len(s) + 1
         /\ Distinct(Append(s, e))
         /\ Len(s) > 0 => Append(s, e)[1] = s[1]
         /\ Append(s, e)[Len(s) + 1] = e
         /\ Range(Append(s, e)) = Range(s) \cup {e}
<1> DEFINE r == Append(s, e)
           n == Len(s)
<1>1. /\ r \in Seq(S) /\ Len(r) = n + 1 /\ r[n + 1] = e
      /\ \A k \in 1 .. n : r[k] = s[k]
  BY AppendProperties
<1>2. n \in Nat /\ DOMAIN s = 1 .. n
  BY LenProperties
<1>3. \A k \in 1 .. n : s[k] \in Range(s) /\ s[k] # e
  BY PlacesOfSeq
<1>4. \A j, k \in 1 .. n : s[j] = s[k] => j = k
  BY DEF Distinct
<1> HIDE DEF r, n
<1>5. DOMAIN r = 1 .. n + 1
  BY <1>1, LenProperties
<1>6. Distinct(r)
  BY <1>1, <1>2, <1>3, <1>4 DEF Distinct
<1>7. Range(r) = Range(s) \cup {e}
  BY <1>1, <1>2, <1>5 DEF Range
<1>8. n > 0 => r[1] = s[1]
  BY <1>1, <1>2
<1> QED BY <1>1, <1>6, <1>7, <1>8 DEF r, n

-----------------------------------------------------------------------------
(* FlattenSeq.                                                             *)

(* f[i] is the first i elements of s put together.                         *)
Joins(f, s, n) ==
  \A i \in 1 .. n : f[i] = IF i = 1 THEN s[i] ELSE f[i - 1] \o s[i]

(* Every list of lists can be put together step by step.                   *)
LEMMA JoinsExist ==
  ASSUME NEW T, \A x, y \in T : x \o y \in T,
         NEW n \in Nat, n > 0, NEW s, \A i \in 1 .. n : s[i] \in T
  PROVE  \E f \in [1 .. n -> T] : Joins(f, s, n)
<1> DEFINE Bad == {m \in 1 .. n : ~\E f \in [1 .. m -> T] : Joins(f, s, m)}
<1>1. SUFFICES ASSUME Bad # {} PROVE FALSE
  <2>1. n \in 1 .. n
    OBVIOUS
  <2> QED BY <1>1, <2>1
<1>2. PICK m \in Bad : \A j \in Bad : m <= j
  <2>1. Bad \subseteq Nat
    OBVIOUS
  <2> HIDE DEF Bad
  <2> QED BY <1>1, <2>1, LeastNumber
<1>3. m \in 1 .. n /\ m \in Nat
  OBVIOUS
<1>4. CASE m = 1
  <2>1. PICK f : f = [i \in 1 .. 1 |-> s[1]]
    OBVIOUS
  <2>2. f \in [1 .. 1 -> T] /\ f[1] = s[1] /\ \A i \in 1 .. 1 : i = 1
    BY <1>3, <1>4, <2>1
  <2>3. Joins(f, s, 1)
    BY <2>2 DEF Joins
  <2> QED BY <1>4, <2>2, <2>3
<1>5. CASE m # 1
  <2>1. m - 1 \in 1 .. n /\ m - 1 < m /\ m > 1
    <3> HIDE DEF Bad
    <3> QED BY <1>3, <1>5
  <2>2. PICK f \in [1 .. m - 1 -> T] : Joins(f, s, m - 1)
    <3>1. m - 1 \notin Bad
      <4> HIDE DEF Bad
      <4> QED BY <1>2, <1>3, <2>1
    <3> QED BY <2>1, <3>1
  <2> HIDE DEF Bad
  <2>3. PICK last : last = f[m - 1] \o s[m]
    OBVIOUS
  <2>4. PICK g : g = [i \in 1 .. m |-> IF i = m THEN last ELSE f[i]]
    OBVIOUS
  <2>5. last \in T /\ m - 1 \in 1 .. m - 1
    BY <1>3, <2>1, <2>3
  <2>6. g \in [1 .. m -> T]
    BY <1>3, <2>1, <2>4, <2>5
  <2>7. g[m] = last /\ \A i \in 1 .. m - 1 : g[i] = f[i]
    BY <1>3, <2>1, <2>4
  <2>8. ASSUME NEW i \in 1 .. m PROVE g[i] = IF i = 1 THEN s[i] ELSE g[i - 1] \o s[i]
    <3>1. CASE i = m
      <4>1. g[m - 1] = f[m - 1] /\ g[m] = f[m - 1] \o s[m]
        BY <2>3, <2>5, <2>7
      <4>2. m # 1
        BY <2>1
      <4>3. g[m] = IF m = 1 THEN s[m] ELSE g[m - 1] \o s[m]
        BY <4>1, <4>2
      <4> QED BY <3>1, <4>3
    <3>2. CASE i # m
      <4>1. i \in 1 .. m - 1 /\ (i # 1 => i - 1 \in 1 .. m - 1)
        BY <1>3, <3>2
      <4> QED BY <2>2, <2>7, <4>1 DEF Joins
    <3> QED BY <3>1, <3>2
  <2>9. Joins(g, s, m)
    BY <2>8 DEF Joins
  <2> QED BY <1>3, <2>6, <2>9 DEF Bad
<1> QED BY <1>4, <1>5

(* There is one way to do it.                                              *)
LEMMA JoinsUnique ==
  ASSUME NEW n \in Nat, NEW s, NEW f, NEW g, Joins(f, s, n), Joins(g, s, n)
  PROVE  \A i \in 1 .. n : f[i] = g[i]
<1> DEFINE Wrong == {i \in 1 .. n : g[i] # f[i]}
<1>1. SUFFICES ASSUME Wrong # {} PROVE FALSE
  OBVIOUS
<1>2. PICK m \in Wrong : \A j \in Wrong : m <= j
  <2>1. Wrong \subseteq Nat
    OBVIOUS
  <2> HIDE DEF Wrong
  <2> QED BY <1>1, <2>1, LeastNumber
<1>3. m \in Nat /\ m \in 1 .. n /\ g[m] # f[m]
  OBVIOUS
<1>4. CASE m = 1
  BY <1>3, <1>4 DEF Joins
<1>5. CASE m # 1
  <2>1. m - 1 \in 1 .. n /\ m - 1 < m
    <3> HIDE DEF Wrong
    <3> QED BY <1>3, <1>5
  <2>2. g[m - 1] = f[m - 1]
    BY <1>2, <1>3, <2>1
  <2> HIDE DEF Wrong
  <2> QED BY <1>3, <1>5, <2>1, <2>2 DEF Joins
<1> QED BY <1>4, <1>5

(* FlattenSeq does it.                                                     *)
LEMMA FlattenJoins ==
  ASSUME NEW A, NEW s \in Seq(Seq(A)), Len(s) > 0
  PROVE  \E f \in [1 .. Len(s) -> Seq(A)] : Joins(f, s, Len(s)) /\ FlattenSeq(s) = f[Len(s)]
<1> DEFINE F(g) == [i \in 1 .. Len(s) |-> IF i = 1 THEN s[i] ELSE g[i - 1] \o s[i]]
           h == CHOOSE g : g = F(g)
<1>1. Len(s) \in Nat /\ \A i \in 1 .. Len(s) : s[i] \in Seq(A)
  <2> DEFINE T == Seq(A)
  <2>1. s \in Seq(T)
    OBVIOUS
  <2> HIDE DEF T
  <2>2. Len(s) \in Nat /\ \A i \in 1 .. Len(s) : s[i] \in T
    BY <2>1, LenProperties, ElementOfSeq
  <2> QED BY <2>2 DEF T
<1>2. PICK f \in [1 .. Len(s) -> Seq(A)] : Joins(f, s, Len(s))
  <2> DEFINE T == Seq(A)
  <2>1. \A x, y \in T : x \o y \in T
    BY ConcatProperties
  <2>2. \A i \in 1 .. Len(s) : s[i] \in T
    BY <1>1
  <2> HIDE DEF T
  <2>3. \E f \in [1 .. Len(s) -> T] : Joins(f, s, Len(s))
    BY <1>1, <2>1, <2>2, JoinsExist
  <2> QED BY <2>3 DEF T
<1>3. f = F(f)
  BY <1>2, ZenonT(40) DEF Joins
<1>4. h = F(h)
  BY <1>3, ZenonT(40)
<1>5. FlattenSeq(s) = h[Len(s)]
  BY DEF FlattenSeq
<1> HIDE DEF h
<1>6. Joins(h, s, Len(s))
  BY <1>4 DEF Joins
<1>7. h[Len(s)] = f[Len(s)]
  BY <1>1, <1>2, <1>6, JoinsUnique
<1> QED BY <1>2, <1>5, <1>7

(* Lists put together are a list.                                          *)
LEMMA FlattenType ==
  ASSUME NEW A, NEW s \in Seq(Seq(A))
  PROVE  FlattenSeq(s) \in Seq(A)
<1>1. CASE Len(s) = 0
  <2>1. s = <<>>
    <3> DEFINE T == Seq(A)
    <3>1. s \in Seq(T)
      OBVIOUS
    <3> HIDE DEF T
    <3> QED BY <1>1, <3>1, EmptySeq
  <2> QED BY <1>1, <2>1 DEF FlattenSeq
<1>2. CASE Len(s) # 0
  <2>1. Len(s) \in Nat
    <3> DEFINE T == Seq(A)
    <3>1. s \in Seq(T)
      OBVIOUS
    <3> HIDE DEF T
    <3> QED BY <3>1, LenProperties
  <2>2. Len(s) > 0
    BY <1>2, <2>1
  <2>3. PICK f \in [1 .. Len(s) -> Seq(A)] : FlattenSeq(s) = f[Len(s)]
    BY <2>2, FlattenJoins
  <2> DEFINE T == Seq(A)
  <2>4. PICK n \in Nat : n = Len(s) /\ n > 0
    BY <2>1, <2>2
  <2>5. f \in [1 .. n -> T] /\ n \in 1 .. n
    BY <2>4
  <2>6. f[n] \in T
    <3> HIDE DEF T
    <3> QED BY <2>5
  <2> QED BY <2>3, <2>4, <2>6
<1> QED BY <1>1, <1>2

-----------------------------------------------------------------------------
(* The elements of a list after an insertion and a removal.                *)

(* An insertion moves the elements from its place on by one.               *)
LEMMA InsertedList ==
  ASSUME NEW S, NEW s \in Seq(S), NEW e \in S, NEW i \in 1 .. Len(s) + 1
  PROVE  /\ InsertAt(s, i, e) \in Seq(S)
         /\ Len(InsertAt(s, i, e)) = Len(s) + 1
         /\ \A k \in 1 .. Len(s) + 1 :
              InsertAt(s, i, e)[k] = IF k < i THEN s[k] ELSE IF k = i THEN e ELSE s[k - 1]
<1> DEFINE a == SubSeq(s, 1, i - 1)
           b == SubSeq(s, i, Len(s))
           c == a \o <<e>>
<1>1. PICK n \in Nat : n = Len(s)
  BY LenProperties
<1>2. i \in Nat /\ i > 0 /\ i <= n + 1 /\ i - 1 \in Nat /\ i - 1 <= n
  BY <1>1
<1>3. a \in Seq(S) /\ Len(a) = i - 1 /\ \A k \in 1 .. i - 1 : a[k] = s[k]
  <2>1. /\ a \in Seq(S) /\ Len(a) = (IF 1 <= i - 1 THEN (i - 1) - 1 + 1 ELSE 0)
        /\ \A k \in 1 .. (i - 1) - 1 + 1 : a[k] = s[1 + k - 1]
    BY <1>1, <1>2, CutOfSeq
  <2> HIDE DEF a
  <2> QED BY <1>2, <2>1
<1>4. b \in Seq(S) /\ Len(b) = n + 1 - i /\ \A k \in 1 .. n + 1 - i : b[k] = s[i + k - 1]
  <2>1. /\ b \in Seq(S) /\ Len(b) = (IF i <= n THEN n - i + 1 ELSE 0)
        /\ \A k \in 1 .. n - i + 1 : b[k] = s[i + k - 1]
    BY <1>1, <1>2, CutOfSeq
  <2> HIDE DEF b
  <2> QED BY <1>2, <2>1
<1>5. c \in Seq(S) /\ Len(c) = i /\ c[i] = e /\ \A k \in 1 .. i - 1 : c[k] = s[k]
  <2> HIDE DEF a
  <2>1. <<e>> \in Seq(S) /\ Len(<<e>>) = 1 /\ <<e>>[1] = e
    OBVIOUS
  <2>2. /\ c \in Seq(S) /\ Len(c) = Len(a) + 1
        /\ \A k \in 1 .. Len(a) + 1 : c[k] = IF k <= Len(a) THEN a[k] ELSE <<e>>[k - Len(a)]
    BY <1>3, <2>1, ConcatProperties
  <2> HIDE DEF c
  <2> QED BY <1>2, <1>3, <2>1, <2>2
<1> HIDE DEF a, b, c
<1>6. /\ c \o b \in Seq(S) /\ Len(c \o b) = Len(c) + Len(b)
      /\ \A k \in 1 .. Len(c) + Len(b) : (c \o b)[k] = IF k <= Len(c) THEN c[k] ELSE b[k - Len(c)]
  BY <1>4, <1>5, ConcatProperties
<1>7. Len(c) + Len(b) = n + 1
  BY <1>2, <1>4, <1>5
<1>8. ASSUME NEW k \in 1 .. n + 1
      PROVE  (c \o b)[k] = IF k < i THEN s[k] ELSE IF k = i THEN e ELSE s[k - 1]
  <2>1. CASE k <= i
    <3>1. (c \o b)[k] = c[k]
      BY <1>5, <1>6, <1>7, <2>1
    <3>2. k = i \/ k \in 1 .. i - 1
      BY <1>2, <2>1
    <3>3. k \in 1 .. i - 1 => k < i
      BY <1>2
    <3> QED BY <1>2, <1>5, <3>1, <3>2, <3>3
  <2>2. CASE ~(k <= i)
    <3>1. (c \o b)[k] = b[k - i]
      BY <1>5, <1>6, <1>7, <2>2
    <3>2. k - i \in 1 .. n + 1 - i /\ i + (k - i) - 1 = k - 1 /\ ~(k < i) /\ k # i
      BY <1>2, <2>2
    <3>3. b[k - i] = s[k - 1]
      BY <1>4, <3>2
    <3> QED BY <3>1, <3>2, <3>3
  <2> QED BY <2>1, <2>2
<1> QED BY <1>1, <1>6, <1>7, <1>8 DEF InsertAt, a, b, c

Inserted(t, s, i, e) ==
  /\ Len(t) = Len(s) + 1
  /\ \A k \in 1 .. Len(s) + 1 : t[k] = IF k < i THEN s[k] ELSE IF k = i THEN e ELSE s[k - 1]

LEMMA ListInserted ==
  ASSUME NEW S, NEW s \in Seq(S), NEW e \in S, NEW i \in 1 .. Len(s) + 1
  PROVE  Inserted(InsertAt(s, i, e), s, i, e)
BY InsertedList DEF Inserted

(* It puts one element more in the list.                                   *)
LEMMA InsertDistinct ==
  ASSUME NEW S, NEW s \in Seq(S), NEW e \in S, NEW i \in 1 .. Len(s) + 1,
         Distinct(s), e \notin Range(s)
  PROVE  Distinct(InsertAt(s, i, e)) /\ Range(InsertAt(s, i, e)) = Range(s) \cup {e}
<1>1. PICK n \in Nat : n = Len(s)
  BY LenProperties
<1>2. PICK r \in Seq(S) : r = InsertAt(s, i, e)
  BY InsertedList
<1>3. /\ Len(r) = n + 1 /\ DOMAIN r = 1 .. n + 1 /\ DOMAIN s = 1 .. n
      /\ \A k \in 1 .. n + 1 : r[k] = IF k < i THEN s[k] ELSE IF k = i THEN e ELSE s[k - 1]
  <2>1. /\ Len(InsertAt(s, i, e)) = Len(s) + 1
        /\ \A k \in 1 .. Len(s) + 1 :
             InsertAt(s, i, e)[k] = IF k < i THEN s[k] ELSE IF k = i THEN e ELSE s[k - 1]
    BY InsertedList
  <2>2. DOMAIN r = 1 .. Len(r) /\ DOMAIN s = 1 .. Len(s)
    BY LenProperties
  <2> QED BY <1>1, <1>2, <2>1, <2>2
<1>4. i \in 1 .. n + 1 /\ \A k \in 1 .. n : s[k] # e
  BY <1>1, <1>3 DEF Range
<1>5. \A j, k \in 1 .. n : s[j] = s[k] => j = k
  BY <1>1 DEF Distinct
<1>6. Distinct(r)
  <2>1. SUFFICES ASSUME NEW j \in 1 .. n + 1, NEW k \in 1 .. n + 1, r[j] = r[k] PROVE j = k
    BY <1>3 DEF Distinct
  <2>2. CASE j = i \/ k = i
    BY <1>3, <1>4, <2>1, <2>2
  <2>3. CASE j # i /\ k # i
    <3> DEFINE Old(x) == IF x < i THEN x ELSE x - 1
    <3>1. Old(j) \in 1 .. n /\ Old(k) \in 1 .. n
      BY <1>4, <2>3
    <3>2. r[j] = s[Old(j)] /\ r[k] = s[Old(k)]
      BY <1>3, <1>4, <2>3
    <3>3. Old(j) = Old(k)
      <4> HIDE DEF Old
      <4> QED BY <1>5, <2>1, <3>1, <3>2
    <3> QED BY <1>4, <2>3, <3>3
  <2> QED BY <2>2, <2>3
<1>7. Range(r) = Range(s) \cup {e}
  <2>1. Range(r) = {r[k] : k \in 1 .. n + 1} /\ Range(s) = {s[k] : k \in 1 .. n}
    BY <1>3 DEF Range
  <2>2. ASSUME NEW k \in 1 .. n + 1 PROVE r[k] \in {s[j] : j \in 1 .. n} \cup {e}
    <3>1. CASE k < i
      BY <1>3, <1>4, <3>1
    <3>2. CASE k = i
      BY <1>3, <3>2
    <3>3. CASE k > i
      <4>1. k - 1 \in 1 .. n /\ r[k] = s[k - 1]
        BY <1>3, <1>4, <3>3
      <4> QED BY <4>1
    <3>4. k < i \/ k = i \/ k > i
      BY <1>4
    <3> QED BY <3>1, <3>2, <3>3, <3>4
  <2>3. ASSUME NEW k \in 1 .. n PROVE s[k] \in {r[j] : j \in 1 .. n + 1}
    <3>1. CASE k < i
      BY <1>3, <1>4, <3>1
    <3>2. CASE k >= i
      <4>1. k + 1 \in 1 .. n + 1 /\ ~(k + 1 < i) /\ k + 1 # i /\ (k + 1) - 1 = k
        BY <1>4, <3>2
      <4>2. r[k + 1] = s[k]
        BY <1>3, <4>1
      <4> QED BY <4>1, <4>2
    <3> QED BY <1>4, <3>1, <3>2
  <2>4. e \in {r[j] : j \in 1 .. n + 1}
    BY <1>3, <1>4
  <2> QED BY <2>1, <2>2, <2>3, <2>4
<1> QED BY <1>2, <1>6, <1>7

(* A removal moves the elements behind it.                                 *)
LEMMA RemovedList ==
  ASSUME NEW S, NEW s \in Seq(S), NEW i \in 1 .. Len(s)
  PROVE  /\ RemoveAt(s, i) \in Seq(S)
         /\ Len(RemoveAt(s, i)) = Len(s) - 1
         /\ \A k \in 1 .. Len(s) - 1 : RemoveAt(s, i)[k] = IF k < i THEN s[k] ELSE s[k + 1]
<1> DEFINE a == SubSeq(s, 1, i - 1)
           b == SubSeq(s, i + 1, Len(s))
<1>1. PICK n \in Nat : n = Len(s)
  BY LenProperties
<1>2. i \in Nat /\ i > 0 /\ i <= n /\ i - 1 \in Nat /\ i - 1 <= n
  BY <1>1
<1>3. a \in Seq(S) /\ Len(a) = i - 1 /\ \A k \in 1 .. i - 1 : a[k] = s[k]
  <2>1. /\ a \in Seq(S) /\ Len(a) = (IF 1 <= i - 1 THEN (i - 1) - 1 + 1 ELSE 0)
        /\ \A k \in 1 .. (i - 1) - 1 + 1 : a[k] = s[1 + k - 1]
    BY <1>1, <1>2, CutOfSeq
  <2> HIDE DEF a
  <2> QED BY <1>2, <2>1
<1>4. b \in Seq(S) /\ Len(b) = n - i /\ \A k \in 1 .. n - i : b[k] = s[i + k]
  <2>1. /\ b \in Seq(S) /\ Len(b) = (IF i + 1 <= n THEN n - (i + 1) + 1 ELSE 0)
        /\ \A k \in 1 .. n - (i + 1) + 1 : b[k] = s[(i + 1) + k - 1]
    BY <1>1, <1>2, CutOfSeq
  <2> HIDE DEF b
  <2>2. Len(b) = n - i /\ n - (i + 1) + 1 = n - i
    BY <1>2, <2>1
  <2>3. ASSUME NEW k \in 1 .. n - i PROVE b[k] = s[i + k]
    <3>1. (i + 1) + k - 1 = i + k
      BY <1>2
    <3> QED BY <2>1, <2>2, <3>1
  <2> QED BY <2>1, <2>2, <2>3
<1> HIDE DEF a, b
<1>5. /\ a \o b \in Seq(S) /\ Len(a \o b) = Len(a) + Len(b)
      /\ \A k \in 1 .. Len(a) + Len(b) : (a \o b)[k] = IF k <= Len(a) THEN a[k] ELSE b[k - Len(a)]
  BY <1>3, <1>4, ConcatProperties
<1>6. Len(a) + Len(b) = n - 1
  BY <1>2, <1>3, <1>4
<1>7. ASSUME NEW k \in 1 .. n - 1
      PROVE  (a \o b)[k] = IF k < i THEN s[k] ELSE s[k + 1]
  <2>1. CASE k < i
    <3>1. k \in 1 .. i - 1 /\ k <= i - 1
      BY <1>2, <2>1
    <3> QED BY <1>3, <1>5, <1>6, <2>1, <3>1
  <2>2. CASE ~(k < i)
    <3>1. (a \o b)[k] = b[k - (i - 1)]
      BY <1>2, <1>3, <1>5, <1>6, <2>2
    <3>2. k - (i - 1) \in 1 .. n - i /\ i + (k - (i - 1)) = k + 1
      BY <1>2, <2>2
    <3> QED BY <1>4, <2>2, <3>1, <3>2
  <2> QED BY <2>1, <2>2
<1> QED BY <1>1, <1>5, <1>6, <1>7 DEF RemoveAt, a, b

-----------------------------------------------------------------------------
(* Weights along a list.                                                   *)

(* u[k] is the weight w of the first k elements of s together.             *)
Ends(u, s, w) ==
  /\ u \in [0 .. Len(s) -> Nat] /\ u[0] = 0
  /\ \A k \in 1 .. Len(s) : u[k] = u[k - 1] + w[s[k]]

(* Every list has such a function,                                         *)
LEMMA EndsExist ==
  ASSUME NEW S, NEW s \in Seq(S), NEW w \in [S -> Nat]
  PROVE  \E u : Ends(u, s, w)
<1> DEFINE n == Len(s)
           Part(v, m) == /\ v \in [0 .. m -> Nat] /\ v[0] = 0
                         /\ \A k \in 1 .. m : v[k] = v[k - 1] + w[s[k]]
           Bad == {m \in 0 .. n : ~\E v : Part(v, m)}
<1>1. n \in Nat /\ \A k \in 1 .. n : w[s[k]] \in Nat
  BY LenProperties, ElementOfSeq
<1>2. Bad = {} => \E u : Ends(u, s, w)
  <2>1. n \in 0 .. n
    BY <1>1
  <2>2. ASSUME Bad = {} PROVE \E v : Part(v, n)
    BY <2>1, <2>2
  <2>3. \A v : Part(v, n) => Ends(v, s, w)
    BY DEF Ends
  <2> HIDE DEF Part, Bad
  <2> QED BY <2>2, <2>3
<1> HIDE DEF n
<1>3. SUFFICES ASSUME Bad # {} PROVE FALSE
  BY <1>2
<1>4. PICK m \in Bad : \A j \in Bad : m <= j
  <2>1. Bad \subseteq Nat
    BY <1>1
  <2> HIDE DEF Bad
  <2> QED BY <1>3, <2>1, LeastNumber
<1>5. m \in Nat /\ m <= n /\ ~\E v : Part(v, m)
  BY <1>1
<1>6. m # 0
  <2>1. PICK v : v = [k \in 0 .. 0 |-> 0]
    OBVIOUS
  <2>2. Part(v, 0)
    BY <2>1
  <2> HIDE DEF Part
  <2> QED BY <1>5, <2>2
<1>7. PICK v : Part(v, m - 1)
  <2>1. m - 1 \in 0 .. n /\ m - 1 < m
    BY <1>1, <1>5, <1>6
  <2>2. m - 1 \notin Bad
    <3> HIDE DEF Bad
    <3> QED BY <1>4, <1>5, <2>1
  <2>3. \E v : Part(v, m - 1)
    <3> HIDE DEF Part
    <3> QED BY <2>1, <2>2, Zenon
  <2> HIDE DEF Part
  <2> QED BY <2>3
<1>8. PICK x : x = v[m - 1] + w[s[m]]
  OBVIOUS
<1>9. PICK r : r = [k \in 0 .. m |-> IF k = m THEN x ELSE v[k]]
  OBVIOUS
<1>10. x \in Nat /\ m - 1 \in 0 .. m - 1
  <2> HIDE DEF Bad
  <2>1. m \in 1 .. n /\ m - 1 \in 0 .. m - 1
    BY <1>1, <1>5, <1>6
  <2>2. v[m - 1] \in Nat /\ w[s[m]] \in Nat
    BY <1>1, <1>7, <2>1
  <2> HIDE DEF Part
  <2> QED BY <1>8, <2>1, <2>2
<1>11. Part(r, m)
  <2>1. r \in [0 .. m -> Nat] /\ r[0] = 0 /\ r[m] = x /\ \A k \in 0 .. m - 1 : r[k] = v[k]
    BY <1>5, <1>6, <1>7, <1>9, <1>10
  <2>2. ASSUME NEW k \in 1 .. m PROVE r[k] = r[k - 1] + w[s[k]]
    <3>1. k - 1 \in 0 .. m - 1 /\ (k = m \/ k \in 1 .. m - 1)
      BY <1>5
    <3>2. CASE k = m
      BY <1>8, <2>1, <3>1, <3>2
    <3>3. CASE k \in 1 .. m - 1
      <4>1. k \in 0 .. m - 1 /\ v[k] = v[k - 1] + w[s[k]]
        BY <1>7, <3>3
      <4> QED BY <2>1, <3>1, <4>1
    <3> QED BY <3>1, <3>2, <3>3
  <2> QED BY <2>1, <2>2
<1> HIDE DEF Part
<1> QED BY <1>5, <1>11

(* and no other.                                                           *)
Steps(u, d, n) == \A k \in 1 .. n : u[k] = u[k - 1] + d[k]

LEMMA EndsUnique ==
  ASSUME NEW n \in Nat, NEW u, NEW v, NEW d,
         u[0] = v[0], Steps(u, d, n), Steps(v, d, n)
  PROVE  \A k \in 0 .. n : u[k] = v[k]
<1> DEFINE Wrong == {k \in 0 .. n : u[k] # v[k]}
<1>1. SUFFICES ASSUME Wrong # {} PROVE FALSE
  OBVIOUS
<1>2. PICK m \in Wrong : \A j \in Wrong : m <= j
  <2>1. Wrong \subseteq Nat
    OBVIOUS
  <2> HIDE DEF Wrong
  <2> QED BY <1>1, <2>1, LeastNumber
<1>3. m \in 0 .. n /\ u[m] # v[m]
  OBVIOUS
<1>4. m \in 1 .. n /\ m - 1 \in 0 .. n /\ m - 1 < m
  <2> HIDE DEF Wrong
  <2> QED BY <1>3
<1>5. u[m - 1] = v[m - 1]
  BY <1>2, <1>4
<1> HIDE DEF Wrong
<1> QED BY <1>3, <1>4, <1>5 DEF Steps

(* It does not fall.                                                       *)
LEMMA EndsGrow ==
  ASSUME NEW S, NEW s \in Seq(S), NEW w \in [S -> Nat], NEW u, Ends(u, s, w),
         NEW j \in 0 .. Len(s), NEW k \in 0 .. Len(s), j <= k
  PROVE  u[j] <= u[k]
<1> DEFINE n == Len(s)
           Wrong == {i \in j .. n : u[i] < u[j]}
<1>1. n \in Nat /\ \A i \in 1 .. n : w[s[i]] \in Nat
  BY LenProperties, ElementOfSeq
<1>2. u \in [0 .. n -> Nat] /\ \A i \in 1 .. n : u[i] = u[i - 1] + w[s[i]]
  BY DEF Ends
<1>3. j \in 0 .. n /\ k \in j .. n /\ j \in Nat
  BY <1>1
<1> HIDE DEF n
<1>4. SUFFICES ASSUME Wrong # {} PROVE FALSE
  <2>1. u[j] \in Nat /\ u[k] \in Nat
    BY <1>1, <1>2, <1>3
  <2>2. u[k] < u[j] => k \in Wrong
    BY <1>3
  <2> HIDE DEF Wrong
  <2> QED BY <1>4, <2>1, <2>2
<1>5. PICK m \in Wrong : \A i \in Wrong : m <= i
  <2>1. Wrong \subseteq Nat
    BY <1>3
  <2> HIDE DEF Wrong
  <2> QED BY <1>4, <2>1, LeastNumber
<1>6. m \in j .. n /\ u[m] < u[j]
  OBVIOUS
<1>7. m # j
  BY <1>2, <1>3, <1>6
<1>8. m \in 1 .. n /\ m - 1 \in j .. n /\ m - 1 \in 0 .. n /\ m - 1 < m
  <2> HIDE DEF Wrong
  <2> QED BY <1>1, <1>3, <1>6, <1>7
<1>9. ~(u[m - 1] < u[j])
  BY <1>5, <1>8
<1> HIDE DEF Wrong
<1>10. u[m] = u[m - 1] + w[s[m]] /\ w[s[m]] \in Nat
  BY <1>1, <1>2, <1>8
<1>11. u[m] \in Nat /\ u[m - 1] \in Nat /\ u[j] \in Nat
  <2>1. m \in 0 .. n
    BY <1>1, <1>8
  <2> QED BY <1>2, <1>3, <1>8, <2>1
<1> QED BY <1>6, <1>9, <1>10, <1>11

(* The element at k weighs d more, and so do the ends from k on.           *)
Heavier(u, k, d) == [j \in DOMAIN u |-> IF j < k THEN u[j] ELSE u[j] + d]

Reweighed(S, w, e, d, ww) == ww[e] = w[e] + d /\ \A x \in S \ {e} : ww[x] = w[x]

Shifted(u, v, n, k, d) ==
  /\ \A j \in 0 .. n : j < k => v[j] = u[j]
  /\ \A j \in 0 .. n : j >= k => v[j] = u[j] + d

LEMMA EndsHeavier ==
  ASSUME NEW S, NEW s \in Seq(S), NEW w \in [S -> Nat], NEW u, Ends(u, s, w),
         Distinct(s), NEW k \in 1 .. Len(s), NEW d \in Int, NEW ww \in [S -> Nat],
         Reweighed(S, w, s[k], d, ww)
  PROVE  Ends(Heavier(u, k, d), s, ww) /\ Shifted(u, Heavier(u, k, d), Len(s), k, d)
<1> DEFINE n == Len(s)
           v == Heavier(u, k, d)
<1>0. ww[s[k]] = w[s[k]] + d /\ \A x \in S \ {s[k]} : ww[x] = w[x]
  BY DEF Reweighed
<1>1. n \in Nat /\ \A j \in 1 .. n : s[j] \in S
  BY LenProperties, ElementOfSeq
<1>2. /\ u \in [0 .. n -> Nat] /\ u[0] = 0
      /\ \A j \in 1 .. n : u[j] = u[j - 1] + w[s[j]]
  BY DEF Ends
<1>4. k \in Nat /\ k >= 1 /\ k <= n /\ k \in 0 .. n /\ k - 1 \in 0 .. n
  BY <1>1
<1>3. ASSUME NEW j \in 0 .. n, j >= k PROVE u[k] <= u[j]
  BY <1>3, <1>4, EndsGrow
<1>5. \A j \in 1 .. n : s[j] = s[k] => j = k
  BY <1>4 DEF Distinct
<1> HIDE DEF n
<1>6. /\ \A j \in 0 .. n : j < k => v[j] = u[j]
      /\ \A j \in 0 .. n : j >= k => v[j] = u[j] + d
  BY <1>2, <1>4 DEF Heavier
<1>7. v = [j \in 0 .. n |-> v[j]]
  BY <1>2 DEF Heavier
<1>8. u[k] + d \in Nat
  <2>1. u[k] = u[k - 1] + w[s[k]] /\ u[k - 1] \in Nat /\ w[s[k]] \in Nat /\ ww[s[k]] \in Nat
    BY <1>1, <1>2, <1>4
  <2> QED BY <1>0, <2>1
<1> HIDE DEF v
<1>9. ASSUME NEW j \in 0 .. n PROVE v[j] \in Nat
  <2>1. u[j] \in Nat /\ u[k] \in Nat /\ j \in Nat
    <3>1. u[j] \in Nat /\ u[k] \in Nat
      BY <1>2, <1>4
    <3> QED BY <1>1, <3>1
  <2>2. CASE j < k
    BY <1>6, <2>1, <2>2
  <2>3. CASE j >= k
    <3>1. v[j] = u[j] + d /\ u[k] <= u[j]
      BY <1>3, <1>6, <2>3
    <3>2. PICK a \in Nat, b \in Nat : a = u[j] /\ b = u[k]
      BY <2>1
    <3>3. b <= a /\ b + d \in Nat /\ d \in Int
      BY <1>8, <3>1, <3>2
    <3>4. a + d \in Nat
      BY <3>3
    <3> QED BY <3>1, <3>2, <3>4
  <2>4. j < k \/ j >= k
    BY <1>4, <2>1
  <2> QED BY <2>2, <2>3, <2>4
<1>10. ASSUME NEW j \in 1 .. n PROVE v[j] = v[j - 1] + ww[s[j]]
  <2>1. /\ j \in 0 .. n /\ j - 1 \in 0 .. n /\ u[j] = u[j - 1] + w[s[j]]
        /\ u[j] \in Nat /\ u[j - 1] \in Nat /\ w[s[j]] \in Nat /\ s[j] \in S
    <3>1. j \in 0 .. n /\ j - 1 \in 0 .. n
      BY <1>1
    <3>2. u[j] \in Nat /\ u[j - 1] \in Nat
      BY <1>2, <3>1
    <3> QED BY <1>1, <1>2, <3>1, <3>2
  <2>2. CASE j = k
    <3>1. j >= k /\ j - 1 < k
      BY <1>4, <2>2
    <3>2. v[j] = u[j] + d /\ v[j - 1] = u[j - 1] /\ ww[s[j]] = w[s[j]] + d
      <4>1. ww[s[j]] = w[s[j]] + d
        BY <1>0, <2>2
      <4> QED BY <1>6, <2>1, <3>1, <4>1
    <3>3. PICK a, b : a = u[j - 1] /\ b = w[s[j]]
      OBVIOUS
    <3>4. /\ a \in Nat /\ b \in Nat /\ v[j] = a + b + d
          /\ v[j - 1] = a /\ ww[s[j]] = b + d
      BY <2>1, <3>2, <3>3
    <3> QED BY <3>4
  <2>3. CASE j < k
    <3>1. j < k /\ j - 1 < k /\ ww[s[j]] = w[s[j]]
      <4>1. j # k /\ j < k /\ j - 1 < k
        BY <1>4, <2>1, <2>3
      <4>2. s[j] \in S \ {s[k]}
        BY <1>5, <2>1, <4>1
      <4> QED BY <1>0, <4>1, <4>2
    <3>2. v[j] = u[j] /\ v[j - 1] = u[j - 1]
      BY <1>6, <2>1, <3>1
    <3> QED BY <2>1, <3>1, <3>2
  <2>4. CASE j > k
    <3>1. j >= k /\ j - 1 >= k /\ j # k
      BY <1>4, <2>1, <2>4
    <3>3. ww[s[j]] = w[s[j]]
      BY <1>0, <1>5, <2>1, <3>1
    <3>2. v[j] = u[j] + d /\ v[j - 1] = u[j - 1] + d
      BY <1>6, <2>1, <3>1
    <3>4. PICK a \in Nat, b \in Nat : a = u[j - 1] /\ b = w[s[j]]
      BY <2>1
    <3>5. a + b + d = a + d + b
      OBVIOUS
    <3> QED BY <2>1, <3>2, <3>3, <3>4, <3>5
  <2> QED BY <1>4, <2>2, <2>3, <2>4
<1>11. v[0] = 0
  <2>1. 0 \in 0 .. n /\ 0 < k
    BY <1>1, <1>4
  <2> QED BY <1>2, <1>6, <2>1
<1>12. v \in [0 .. n -> Nat]
  BY <1>7, <1>9
<1>13. Ends(v, s, ww)
  BY <1>10, <1>11, <1>12 DEF Ends, n
<1>14. Shifted(u, v, n, k, d)
  BY <1>6 DEF Shifted
<1> QED BY <1>13, <1>14 DEF n, v

(* The element at k weighs a, and a new one that weighs b is behind it, m  *)
(* more together.                                                          *)
Parted(s, w, k, e, a, b, m, ww) ==
  /\ a + b = w[s[k]] + m /\ ww[s[k]] = a /\ ww[e] = b
  /\ \A j \in 1 .. Len(s) : j # k => ww[s[j]] = w[s[j]]

Widened(u, k, a, m) ==
  [j \in 0 .. Cardinality(DOMAIN u) |->
     IF j < k THEN u[j] ELSE IF j = k THEN u[k - 1] + a ELSE u[j - 1] + m]

Stretched(u, v, n, k, a, m) ==
  /\ \A j \in 0 .. n : j < k => v[j] = u[j]
  /\ v[k] = u[k - 1] + a
  /\ \A j \in 1 .. n + 1 : j > k => v[j] = u[j - 1] + m

LEMMA EndsWidened ==
  ASSUME NEW S, NEW s \in Seq(S), NEW w \in [S -> Nat], NEW u, Ends(u, s, w),
         Distinct(s), NEW k \in 1 .. Len(s), NEW e \in S, e \notin Range(s),
         NEW a \in Nat, NEW b \in Nat, NEW m \in Nat, NEW ww,
         Parted(s, w, k, e, a, b, m, ww)
  PROVE  /\ Ends(Widened(u, k, a, m), InsertAt(s, k + 1, e), ww)
         /\ Stretched(u, Widened(u, k, a, m), Len(s), k, a, m)
<1> DEFINE n == Len(s)
           r == InsertAt(s, k + 1, e)
           v == Widened(u, k, a, m)
<1>1. n \in Nat /\ k \in Nat /\ k >= 1 /\ k <= n
  BY LenProperties
<1>2. /\ u \in [0 .. n -> Nat] /\ u[0] = 0
      /\ \A j \in 1 .. n : u[j] = u[j - 1] + w[s[j]]
  BY DEF Ends
<1>3. Len(r) = n + 1 /\ \A j \in 1 .. n + 1 :
        r[j] = IF j < k + 1 THEN s[j] ELSE IF j = k + 1 THEN e ELSE s[j - 1]
  <2>1. k + 1 \in 1 .. Len(s) + 1
    BY <1>1
  <2>2. PICK i \in 1 .. Len(s) + 1 : i = k + 1
    BY <2>1
  <2>3. Len(InsertAt(s, i, e)) = Len(s) + 1 /\ \A j \in 1 .. Len(s) + 1 :
           InsertAt(s, i, e)[j] = IF j < i THEN s[j] ELSE IF j = i THEN e ELSE s[j - 1]
    BY InsertedList
  <2> QED BY <2>2, <2>3
<1>4. /\ a + b = w[s[k]] + m /\ ww[s[k]] = a /\ ww[e] = b
      /\ \A j \in 1 .. n : j # k => ww[s[j]] = w[s[j]]
  BY DEF Parted
<1>5. \A j \in 1 .. n : w[s[j]] \in Nat
  BY ElementOfSeq
<1> HIDE DEF n, r
<1>6. DOMAIN v = 0 .. n + 1
  <2>1. DOMAIN u = 0 .. n
    BY <1>2
  <2>2. PICK z : z = 0
    OBVIOUS
  <2>3. Cardinality(z .. n) = IF z > n THEN 0 ELSE n - z + 1
    BY <1>1, <2>2, FS_Interval
  <2>4. Cardinality(0 .. n) = n + 1
    BY <1>1, <2>2, <2>3
  <2> QED BY <2>1, <2>4 DEF Widened
<1>7. v = [j \in 0 .. n + 1 |-> v[j]]
  BY <1>6 DEF Widened
<1>8. \A j \in 0 .. n + 1 :
        v[j] = IF j < k THEN u[j] ELSE IF j = k THEN u[k - 1] + a ELSE u[j - 1] + m
  <2>1. DOMAIN v = 0 .. Cardinality(DOMAIN u)
    BY DEF Widened
  <2> QED BY <1>6, <2>1 DEF Widened
<1> HIDE DEF v
<1>9. /\ \A j \in 0 .. n : j < k => v[j] = u[j]
      /\ v[k] = u[k - 1] + a
      /\ \A j \in 1 .. n + 1 : j > k => v[j] = u[j - 1] + m
  <2>1. ASSUME NEW j \in 0 .. n, j < k PROVE v[j] = u[j]
    <3>1. j \in 0 .. n + 1
      BY <1>1
    <3> QED BY <1>8, <2>1, <3>1
  <2>2. v[k] = u[k - 1] + a
    <3>1. k \in 0 .. n + 1 /\ ~(k < k)
      BY <1>1
    <3> QED BY <1>8, <3>1
  <2>3. ASSUME NEW j \in 1 .. n + 1, j > k PROVE v[j] = u[j - 1] + m
    <3>1. j \in 0 .. n + 1 /\ ~(j < k) /\ j # k
      BY <1>1, <2>3
    <3> QED BY <1>8, <3>1
  <2> QED BY <2>1, <2>2, <2>3
<1>10. ASSUME NEW j \in 0 .. n + 1 PROVE v[j] \in Nat
  <2>1. CASE j < k
    <3>1. j \in 0 .. n
      BY <1>1, <2>1
    <3>2. v[j] = u[j]
      BY <1>9, <2>1, <3>1
    <3> QED BY <1>2, <3>1, <3>2
  <2>2. CASE j = k
    <3>1. k - 1 \in 0 .. n
      BY <1>1
    <3>2. u[k - 1] \in Nat
      BY <1>2, <3>1
    <3>3. u[k - 1] + a \in Nat
      BY <3>2
    <3> QED BY <1>9, <2>2, <3>3
  <2>3. CASE j > k
    <3>1. j - 1 \in 0 .. n /\ j \in 1 .. n + 1
      BY <1>1, <2>3
    <3>2. u[j - 1] \in Nat
      BY <1>2, <3>1
    <3>3. v[j] = u[j - 1] + m
      BY <1>9, <2>3, <3>1
    <3> QED BY <3>2, <3>3
  <2> QED BY <1>1, <2>1, <2>2, <2>3
<1>11. ASSUME NEW j \in 1 .. n + 1 PROVE v[j] = v[j - 1] + ww[r[j]]
  <2>1. CASE j < k
    <3>1. j \in 1 .. n /\ j \in 0 .. n /\ j - 1 \in 0 .. n /\ j - 1 < k /\ j # k /\ j < k + 1
      BY <1>1, <2>1
    <3>2. r[j] = s[j] /\ v[j] = u[j] /\ v[j - 1] = u[j - 1]
      BY <1>3, <1>9, <2>1, <3>1
    <3>3. ww[s[j]] = w[s[j]]
      BY <1>4, <3>1
    <3>4. u[j] = u[j - 1] + w[s[j]]
      BY <1>2, <3>1
    <3> QED BY <3>2, <3>3, <3>4
  <2>2. CASE j = k
    <3>1. k - 1 \in 0 .. n /\ k - 1 < k /\ k < k + 1
      BY <1>1
    <3>2. r[j] = s[k] /\ v[j] = u[k - 1] + a /\ v[j - 1] = u[k - 1]
      BY <1>3, <1>9, <2>2, <3>1
    <3> QED BY <1>4, <3>2
  <2>3. CASE j = k + 1
    <3>1. j > k /\ j - 1 = k /\ ~(j < k + 1)
      BY <1>1, <2>3
    <3>2. r[j] = e /\ v[j] = u[k] + m /\ v[j - 1] = u[k - 1] + a
      BY <1>3, <1>9, <2>3, <3>1
    <3>3. k \in 1 .. n /\ k - 1 \in 0 .. n
      BY <1>1
    <3>4. u[k] = u[k - 1] + w[s[k]] /\ u[k - 1] \in Nat /\ w[s[k]] \in Nat
      BY <1>2, <1>5, <3>3
    <3>5. ww[r[j]] = b
      BY <1>4, <3>2
    <3>6. u[k] + m = u[k - 1] + a + b
      <4>1. \A x, y \in Nat : a + b = y + m => x + y + m = x + a + b
        OBVIOUS
      <4>2. a + b = w[s[k]] + m
        BY <1>4
      <4>3. u[k - 1] + w[s[k]] + m = u[k - 1] + a + b
        BY <3>4, <4>1, <4>2
      <4> QED BY <3>4, <4>3
    <3> QED BY <3>2, <3>4, <3>5, <3>6
  <2>4. CASE j > k + 1
    <3>1. PICK i \in 1 .. n : i = j - 1
      BY <1>1, <2>4
    <3>2. i # k /\ i - 1 \in 0 .. n /\ i > k /\ i \in 1 .. n + 1 /\ j > k /\ i \in Nat
          /\ ~(j < k + 1) /\ j # k + 1
      <4>1. j \in Nat /\ k \in Nat /\ j > k + 1 /\ k >= 1 /\ i <= n /\ n \in Nat
        BY <1>1, <2>4
      <4> QED BY <3>1, <4>1
    <3>3. r[j] = s[i] /\ v[j] = u[i] + m /\ v[i] = u[i - 1] + m
      BY <1>3, <1>9, <3>1, <3>2
    <3>4. ww[s[i]] = w[s[i]] /\ w[s[i]] \in Nat
      BY <1>4, <1>5, <3>2
    <3>5. u[i] = u[i - 1] + w[s[i]] /\ u[i - 1] \in Nat
      BY <1>2, <3>2
    <3>6. ww[r[j]] = w[s[i]] /\ v[j - 1] = v[i]
      BY <3>1, <3>3, <3>4
    <3>7. u[i] + m = u[i - 1] + m + w[s[i]]
      <4>1. PICK x \in Nat, y \in Nat : x = u[i - 1] /\ y = w[s[i]]
        BY <3>4, <3>5
      <4>2. x + y + m = x + m + y
        OBVIOUS
      <4> QED BY <3>5, <4>1, <4>2
    <3> QED BY <3>3, <3>6, <3>7
  <2> QED BY <1>1, <2>1, <2>2, <2>3, <2>4
<1>12. v[0] = 0
  <2>1. 0 \in 0 .. n /\ 0 < k
    BY <1>1
  <2> QED BY <1>2, <1>9, <2>1
<1>13. v \in [0 .. n + 1 -> Nat]
  BY <1>7, <1>10
<1>14. Ends(v, r, ww)
  BY <1>3, <1>11, <1>12, <1>13 DEF Ends
<1>15. Stretched(u, v, n, k, a, m)
  BY <1>9 DEF Stretched
<1> QED BY <1>14, <1>15 DEF r, v, n

(* Without the element at k.                                               *)
Narrowed(u, k, d) ==
  [j \in 0 .. Cardinality(DOMAIN u) - 2 |-> IF j < k THEN u[j] ELSE u[j + 1] - d]

Closed(u, v, n, k, d) ==
  /\ \A j \in 0 .. n - 1 : j < k => v[j] = u[j]
  /\ \A j \in 0 .. n - 1 : j >= k => v[j] = u[j + 1] - d

LEMMA EndsNarrowed ==
  ASSUME NEW S, NEW s \in Seq(S), NEW w \in [S -> Nat], NEW u, Ends(u, s, w),
         NEW k \in 1 .. Len(s), NEW ww,
         \A j \in 1 .. Len(s) : j # k => ww[s[j]] = w[s[j]]
  PROVE  /\ Ends(Narrowed(u, k, w[s[k]]), RemoveAt(s, k), ww)
         /\ Closed(u, Narrowed(u, k, w[s[k]]), Len(s), k, w[s[k]])
<1> DEFINE n == Len(s)
           r == RemoveAt(s, k)
           d == w[s[k]]
           v == Narrowed(u, k, d)
<1>1. n \in Nat /\ k \in Nat /\ k >= 1 /\ k <= n
  BY LenProperties
<1>2. /\ u \in [0 .. n -> Nat] /\ u[0] = 0
      /\ \A j \in 1 .. n : u[j] = u[j - 1] + w[s[j]]
  BY DEF Ends
<1>3. Len(r) = n - 1 /\ \A j \in 1 .. n - 1 : r[j] = IF j < k THEN s[j] ELSE s[j + 1]
  BY RemovedList
<1>4. \A j \in 1 .. n : j # k => ww[s[j]] = w[s[j]]
  OBVIOUS
<1>5. \A j \in 1 .. n : w[s[j]] \in Nat
  BY ElementOfSeq
<1>6. ASSUME NEW j \in 0 .. n, j >= k PROVE u[k] <= u[j]
  <2>1. k \in 0 .. Len(s)
    BY <1>1
  <2> QED BY <1>6, <2>1, EndsGrow
<1>7. d \in Nat /\ u[k] = u[k - 1] + d /\ u[k - 1] \in Nat /\ u[k] \in Nat
  <2>1. k \in 1 .. n /\ k \in 0 .. n /\ k - 1 \in 0 .. n
    BY <1>1
  <2>2. d \in Nat /\ u[k] = u[k - 1] + d
    BY <1>2, <1>5, <2>1
  <2>3. u[k - 1] \in Nat /\ u[k] \in Nat
    BY <1>2, <2>1
  <2> QED BY <2>2, <2>3
<1> HIDE DEF n, r, d
<1>8. DOMAIN v = 0 .. n - 1
  <2>1. DOMAIN u = 0 .. n
    BY <1>2
  <2>2. PICK z : z = 0
    OBVIOUS
  <2>3. Cardinality(z .. n) = IF z > n THEN 0 ELSE n - z + 1
    BY <1>1, <2>2, FS_Interval
  <2>4. Cardinality(0 .. n) = n + 1
    BY <1>1, <2>2, <2>3
  <2>6. Cardinality(DOMAIN u) - 2 = n - 1
    BY <1>1, <2>1, <2>4
  <2>7. DOMAIN v = 0 .. Cardinality(DOMAIN u) - 2
    BY DEF Narrowed
  <2> QED BY <2>6, <2>7
<1>9. v = [j \in 0 .. n - 1 |-> v[j]]
  BY <1>8 DEF Narrowed
<1>10. \A j \in 0 .. n - 1 : v[j] = IF j < k THEN u[j] ELSE u[j + 1] - d
  <2>1. DOMAIN v = 0 .. Cardinality(DOMAIN u) - 2
    BY DEF Narrowed
  <2> QED BY <1>8, <2>1 DEF Narrowed
<1> HIDE DEF v
<1>11. /\ \A j \in 0 .. n - 1 : j < k => v[j] = u[j]
       /\ \A j \in 0 .. n - 1 : j >= k => v[j] = u[j + 1] - d
  <2>1. ASSUME NEW j \in 0 .. n - 1, j < k PROVE v[j] = u[j]
    BY <1>10, <2>1
  <2>2. ASSUME NEW j \in 0 .. n - 1, j >= k PROVE v[j] = u[j + 1] - d
    <3>1. ~(j < k)
      BY <1>1, <2>2
    <3> QED BY <1>10, <3>1
  <2> QED BY <2>1, <2>2
<1>12. ASSUME NEW j \in 0 .. n - 1 PROVE v[j] \in Nat
  <2>1. CASE j < k
    <3>1. j \in 0 .. n
      BY <1>1
    <3> QED BY <1>2, <1>11, <2>1, <3>1
  <2>2. CASE j >= k
    <3>1. PICK i \in 0 .. n : i = j + 1
      BY <1>1
    <3>2. i >= k /\ u[i] \in Nat
      BY <1>1, <1>2, <2>2, <3>1
    <3>3. u[k] <= u[i]
      BY <1>6, <3>2
    <3>4. u[i] - d \in Nat
      <4>1. PICK a \in Nat, b \in Nat, c \in Nat : a = u[k - 1] /\ b = u[k] /\ c = u[i]
        BY <1>7, <3>2
      <4>2. d \in Nat /\ b = a + d /\ b <= c
        BY <1>7, <3>3, <4>1
      <4>3. c - d \in Nat
        BY <4>2
      <4> QED BY <4>1, <4>3
    <3>5. v[j] = u[i] - d
      BY <1>11, <2>2, <3>1
    <3> QED BY <3>4, <3>5
  <2> QED BY <1>1, <2>1, <2>2
<1>13. ASSUME NEW j \in 1 .. n - 1 PROVE v[j] = v[j - 1] + ww[r[j]]
  <2>1. CASE j < k
    <3>1. j \in 1 .. n /\ j \in 0 .. n - 1 /\ j - 1 \in 0 .. n - 1 /\ j - 1 < k /\ j # k
      BY <1>1, <2>1
    <3>2. r[j] = s[j] /\ v[j] = u[j] /\ v[j - 1] = u[j - 1]
      BY <1>3, <1>11, <2>1, <3>1
    <3>3. ww[s[j]] = w[s[j]]
      BY <1>4, <3>1
    <3>4. u[j] = u[j - 1] + w[s[j]]
      BY <1>2, <3>1
    <3> QED BY <3>2, <3>3, <3>4
  <2>2. CASE j >= k
    <3>1. PICK i \in 1 .. n : i = j + 1
      BY <1>1
    <3>2. i # k /\ ~(j < k) /\ j \in 0 .. n - 1 /\ j - 1 \in 0 .. n - 1 /\ i - 1 = j
      BY <1>1, <2>2, <3>1
    <3>3. r[j] = s[i] /\ v[j] = u[i] - d
      BY <1>3, <1>11, <2>2, <3>1, <3>2
    <3>4. u[i] = u[j] + w[s[i]] /\ ww[s[i]] = w[s[i]] /\ w[s[i]] \in Nat /\ u[j] \in Nat
      <4>1. j \in 0 .. n
        BY <1>1
      <4> QED BY <1>2, <1>4, <1>5, <3>2, <4>1
    <3>5. v[j - 1] = u[j] - d
      <4>1. CASE j = k
        <5>1. j - 1 < k
          BY <1>1, <4>1
        <5>2. v[j - 1] = u[k - 1]
          BY <1>11, <3>2, <4>1, <5>1
        <5>3. u[k - 1] = u[k] - d
          BY <1>7
        <5> QED BY <4>1, <5>2, <5>3
      <4>2. CASE j # k
        <5>1. PICK h \in 0 .. n - 1 : h = j - 1
          BY <3>2
        <5>2. h >= k /\ h + 1 = j
          BY <1>1, <2>2, <4>2, <5>1
        <5>3. v[h] = u[h + 1] - d
          BY <1>11, <5>2
        <5> QED BY <5>1, <5>2, <5>3
      <4> QED BY <4>1, <4>2
    <3>6. u[i] - d = u[j] - d + ww[s[i]]
      BY <1>7, <3>4
    <3> QED BY <3>3, <3>5, <3>6
  <2> QED BY <1>1, <2>1, <2>2
<1>14. v[0] = 0
  <2>1. 0 \in 0 .. n - 1 /\ 0 < k
    BY <1>1
  <2> QED BY <1>2, <1>11, <2>1
<1>15. v \in [0 .. n - 1 -> Nat]
  BY <1>9, <1>12
<1>16. Ends(v, r, ww)
  BY <1>3, <1>13, <1>14, <1>15 DEF Ends
<1>17. Closed(u, v, n, k, d)
  BY <1>11 DEF Closed
<1> QED BY <1>16, <1>17 DEF r, v, n, d

(* With an element behind it that weighs nothing.                          *)
Lengthened(u, s) ==
  [j \in 0 .. Len(s) + 1 |-> IF j <= Len(s) THEN u[j] ELSE u[Len(s)]]

LEMMA EndsLengthened ==
  ASSUME NEW S, NEW s \in Seq(S), NEW w \in [S -> Nat], NEW u, Ends(u, s, w),
         NEW e \in S, w[e] = 0
  PROVE  /\ Ends(Lengthened(u, s), Append(s, e), w)
         /\ \A j \in 0 .. Len(s) : Lengthened(u, s)[j] = u[j]
         /\ Lengthened(u, s)[Len(s) + 1] = u[Len(s)]
<1> DEFINE n == Len(s)
           r == Append(s, e)
           v == Lengthened(u, s)
<1>1. n \in Nat
  BY LenProperties
<1>2. /\ u \in [0 .. n -> Nat] /\ u[0] = 0
      /\ \A j \in 1 .. n : u[j] = u[j - 1] + w[s[j]]
  BY DEF Ends
<1>3. Len(r) = n + 1 /\ r[n + 1] = e /\ \A j \in 1 .. n : r[j] = s[j]
  BY AppendProperties
<1> HIDE DEF n, r
<1>4. v \in [0 .. n + 1 -> Nat] /\ v[n + 1] = u[n] /\ \A j \in 0 .. n : v[j] = u[j]
  <2>1. v = [j \in 0 .. n + 1 |-> IF j <= n THEN u[j] ELSE u[n]]
    BY DEF Lengthened, n
  <2> HIDE DEF v
  <2>2. n \in 0 .. n /\ n + 1 \in 0 .. n + 1 /\ ~(n + 1 <= n)
    BY <1>1
  <2>3. ASSUME NEW j \in 0 .. n + 1
        PROVE  (IF j <= n THEN u[j] ELSE u[n]) \in Nat
    <3>1. j <= n => j \in 0 .. n
      BY <1>1
    <3> QED BY <1>2, <2>2, <3>1
  <2>4. v \in [0 .. n + 1 -> Nat]
    BY <2>1, <2>3
  <2>5. \A j \in 0 .. n : j <= n /\ j \in 0 .. n + 1
    BY <1>1
  <2> QED BY <2>1, <2>2, <2>4, <2>5
<1> HIDE DEF v
<1>5. ASSUME NEW j \in 1 .. n + 1 PROVE v[j] = v[j - 1] + w[r[j]]
  <2>1. CASE j = n + 1
    <3>1. j - 1 = n /\ n \in 0 .. n
      BY <1>1, <2>1
    <3>2. v[j] = u[n] /\ v[j - 1] = u[n] /\ w[r[j]] = 0 /\ u[n] \in Nat
      BY <1>2, <1>3, <1>4, <2>1, <3>1
    <3> QED BY <3>2
  <2>2. CASE j # n + 1
    <3>1. j \in 1 .. n /\ j \in 0 .. n /\ j - 1 \in 0 .. n
      BY <1>1, <2>2
    <3> QED BY <1>2, <1>3, <1>4, <3>1
  <2> QED BY <2>1, <2>2
<1>6. v[0] = 0
  <2>1. 0 \in 0 .. n
    BY <1>1
  <2> QED BY <1>2, <1>4, <2>1
<1>7. Ends(v, r, w)
  BY <1>3, <1>4, <1>5, <1>6 DEF Ends
<1> QED BY <1>4, <1>7 DEF r, v, n
=============================================================================
