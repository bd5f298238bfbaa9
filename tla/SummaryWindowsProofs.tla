------------------------ MODULE SummaryWindowsProofs ------------------------
(***************************************************************************)
(* Proofs about QuantileSketch and SummaryWindows, for every size of the    *)
(* buffer, every set of quantiles, every number and length of the windows,  *)
(* and for any observations at any times.                                   *)
(*                                                                          *)
(* The sketch is built by loops, and what a loop computes is proved by      *)
(* induction: on a set of numbers, which a least element outside it refutes *)
(* (WFMin), as the induction theorems of the library take an operator.      *)
(***************************************************************************)
EXTENDS SummaryWindows, SequenceTheorems, FiniteSetTheorems, TLAPS

-----------------------------------------------------------------------------
(* Induction and recursion on numbers.                                      *)

LEMMA Least ==
  ASSUME NEW T, T \subseteq Nat, T # {}
  PROVE  \E m \in T : \A k \in T : m <= k
<1> DEFINE R == OpToRel(<, Nat)
<1>1. IsWellFoundedOn(R, Nat)
  BY NatLessThanWellFounded
<1>2. \A x, y \in Nat : y < x => <<y, x>> \in R
  BY DEF OpToRel
<1> HIDE DEF R
<1>3. PICK m \in T : \A k \in T : <<k, m>> \notin R
  BY <1>1, WFMin
<1>4. \A k \in T : ~(k < m)
  BY <1>2, <1>3
<1> QED
  BY <1>4

LEMMA Induction ==
  ASSUME NEW S, S \subseteq Nat, 0 \in S, \A n \in S : n + 1 \in S
  PROVE  S = Nat
<1> DEFINE T == Nat \ S
<1>1. SUFFICES ASSUME T # {} PROVE FALSE
  OBVIOUS
<1>2. PICK m \in T : \A k \in T : m <= k
  <2> HIDE DEF T
  <2>1. T \subseteq Nat
    BY DEF T
  <2> QED
    BY <1>1, <2>1, Least
<1> QED
  BY <1>2

\* The same up to a bound.
LEMMA InductionUpTo ==
  ASSUME NEW S, NEW k \in Nat, 0 \in S, \A n \in 1..k : n - 1 \in S => n \in S
  PROVE  \A n \in 0..k : n \in S
<1> DEFINE D == {n \in Nat : n <= k => n \in S}
<1>1. 0 \in D
  OBVIOUS
<1>2. ASSUME NEW n \in D PROVE n + 1 \in D
  <2>1. n \in Nat /\ n + 1 \in Nat /\ (n + 1 <= k => n \in S /\ n + 1 \in 1..k /\ (n + 1) - 1 = n)
    OBVIOUS
  <2> QED
    BY <2>1
<1>3. D = Nat
  <2> HIDE DEF D
  <2>1. D \subseteq Nat
    BY DEF D
  <2> QED
    BY <1>1, <1>2, <2>1, Induction
<1> QED
  BY <1>3

\* f is what k passes of a loop make of z.
Runs(f, z, step, k) == f[0] = z /\ \A n \in 1..k : f[n] = step[n][f[n - 1]]

\* Every loop has such a function.
LEMMA Recursion ==
  ASSUME NEW S, NEW z \in S, NEW k \in Nat, NEW step \in [1..k -> [S -> S]]
  PROVE  \E f \in [0..k -> S] : Runs(f, z, step, k)
<1> DEFINE Solves(f, m) == f[0] = z /\ \A n \in 1..m : f[n] = step[n][f[n - 1]]
           D == {m \in 0..k : \E f \in [0..m -> S] : Solves(f, m)}
<1>1. 0 \in D
  <2> DEFINE f == [n \in 0..0 |-> z]
  <2>1. f \in [0..0 -> S] /\ Solves(f, 0)
    OBVIOUS
  <2>2. \E h \in [0..0 -> S] : Solves(h, 0)
    BY <2>1, Zenon
  <2>3. 0 \in 0..k
    OBVIOUS
  <2> QED
    BY <2>2, <2>3, Zenon
<1>2. ASSUME NEW l \in 1..k, l - 1 \in D PROVE l \in D
  <2> DEFINE m == l - 1
  <2>1. PICK g \in [0..m -> S] : Solves(g, m)
    BY <1>2
  <2> DEFINE f == [n \in 0..l |-> IF n = l THEN step[l][g[m]] ELSE g[n]]
  <2>2. f \in [0..l -> S]
    OBVIOUS
  <2>3. f[0] = z
    <3>1. 0 \in 0..m /\ 0 # l
      OBVIOUS
    <3> QED
      BY <2>1, <3>1
  <2>3a. ASSUME NEW n \in 1..l PROVE f[n] = step[n][f[n - 1]]
    <3>1. n - 1 \in 0..m /\ n - 1 # l /\ f[n - 1] = g[n - 1]
      OBVIOUS
    <3>2. CASE n = l
      BY <3>1, <3>2
    <3>3. CASE n # l
      <4>1. n \in 1..m /\ f[n] = g[n]
        BY <3>3
      <4> QED
        BY <2>1, <3>1, <4>1
    <3> QED
      BY <3>2, <3>3
  <2>4. Solves(f, l)
    BY <2>3, <2>3a, Zenon
  <2>5. \E h \in [0..l -> S] : Solves(h, l)
    BY <2>2, <2>4, Zenon
  <2>6. l \in 0..k
    OBVIOUS
  <2> QED
    BY <2>5, <2>6, Zenon
<1>3. \A n \in 0..k : n \in D
  <2> HIDE DEF D
  <2> QED
    BY <1>1, <1>2, InductionUpTo
<1> QED
  BY <1>3 DEF Runs

-----------------------------------------------------------------------------
(* Types.                                                                   *)

Item   == [value : Int, g : Int, delta : Int]
Bucket == [items : Seq(Item), buffer : Seq(Int), count : Int]

LEMMA RanksDef ==
  ASSUME NEW s \in Seq(Item)
  PROVE  /\ Ranks(s) \in [0..Len(s) -> Int] /\ Ranks(s)[0] = 0
         /\ \A n \in 1..Len(s) : Ranks(s)[n] = Ranks(s)[n - 1] + s[n].g
<1> DEFINE k == Len(s)
           step == [n \in 1..k |-> [x \in Int |-> x + s[n].g]]
           Solves(f) == f = [n \in 0..k |-> IF n = 0 THEN 0 ELSE f[n - 1] + s[n].g]
<1>1. k \in Nat /\ \A n \in 1..k : s[n].g \in Int
  <2>1. \A n \in 1..Len(s) : s[n] \in Item
    BY ElementOfSeq
  <2> QED
    BY <2>1 DEF Item
<1>2. step \in [1..k -> [Int -> Int]]
  BY <1>1
<1>3. PICK f \in [0..k -> Int] : f[0] = 0 /\ \A n \in 1..k : f[n] = step[n][f[n - 1]]
  <2> DEFINE Z == Int
             zero == 0
  <2>1. k \in Nat /\ zero \in Z /\ step \in [1..k -> [Z -> Z]]
    BY <1>1, <1>2
  <2> HIDE DEF step, k, Z, zero
  <2>2. \E f \in [0..k -> Z] : Runs(f, zero, step, k)
    BY <2>1, Recursion
  <2> QED
    BY <2>2 DEF Z, zero, Runs
<1>4. Solves(f)
  <2>1. \A n \in 1..k : f[n] = f[n - 1] + s[n].g
    <3> SUFFICES ASSUME NEW n \in 1..k PROVE f[n] = f[n - 1] + s[n].g
      OBVIOUS
    <3>1. f[n - 1] \in Int
      BY <1>1
    <3> QED
      BY <1>3, <3>1
  <2>2. \A n \in 0..k : f[n] = IF n = 0 THEN 0 ELSE f[n - 1] + s[n].g
    <3> SUFFICES ASSUME NEW n \in 0..k PROVE f[n] = IF n = 0 THEN 0 ELSE f[n - 1] + s[n].g
      OBVIOUS
    <3>1. n = 0 \/ n \in 1..k
      BY <1>1
    <3> QED
      BY <1>3, <2>1, <3>1
  <2> QED
    BY <2>2
<1>5. Ranks(s) = CHOOSE h : Solves(h)
  BY DEF Ranks
<1> HIDE DEF Solves
<1>6. Solves(Ranks(s))
  BY <1>4, <1>5
<1> USE DEF Solves
<1> DEFINE r == Ranks(s)
           D == {n \in 0..k : r[n] \in Int}
<1>7. r = [n \in 0..k |-> IF n = 0 THEN 0 ELSE r[n - 1] + s[n].g]
  BY <1>6
<1> HIDE DEF r, Solves, step
<1>8. r[0] = 0 /\ \A n \in 1..k : r[n] = r[n - 1] + s[n].g
  BY <1>1, <1>7
<1>9. \A n \in 0..k : n \in D
  <2>1. 0 \in D
    BY <1>1, <1>8
  <2>2. ASSUME NEW n \in 1..k, n - 1 \in D PROVE n \in D
    <3>1. r[n] = r[n - 1] + s[n].g /\ r[n - 1] \in Int /\ s[n].g \in Int
      BY <1>1, <1>8, <2>2
    <3>2. r[n] \in Int
      BY <3>1
    <3> QED
      BY <1>1, <3>2
  <2> HIDE DEF D
  <2> QED
    BY <1>1, <2>1, <2>2, InductionUpTo
<1> QED
  BY <1>7, <1>8, <1>9 DEF r

-----------------------------------------------------------------------------
(* Inserting and removing an item, and the weights.                         *)

\* SubSeqProperties for a part of a sequence.
LEMMA PartOf ==
  ASSUME NEW S, NEW s \in Seq(S), NEW m \in Int, NEW n \in Int,
         1 <= m, m <= n + 1, n <= Len(s)
  PROVE  /\ SubSeq(s, m, n) \in Seq(S) /\ Len(SubSeq(s, m, n)) = n - m + 1
         /\ \A i \in 1..(n - m + 1) : SubSeq(s, m, n)[i] = s[m + i - 1]
<1>1. \A i \in m..n : s[i] \in S
  <2> SUFFICES ASSUME NEW i \in m..n PROVE s[i] \in S
    OBVIOUS
  <2>1. i \in 1..Len(s)
    OBVIOUS
  <2> QED
    BY <2>1, ElementOfSeq
<1> QED
  BY <1>1, SubSeqProperties

LEMMA InsertAtItems ==
  ASSUME NEW S, NEW s \in Seq(S), NEW k \in 1..(Len(s) + 1), NEW x \in S
  PROVE  LET t == InsertAt(s, k, x)
         IN /\ t \in Seq(S) /\ Len(t) = Len(s) + 1
            /\ \A i \in 1..(k - 1) : t[i] = s[i]
            /\ t[k] = x
            /\ \A i \in k..Len(s) : t[i + 1] = s[i]
<1> DEFINE a == SubSeq(s, 1, k - 1)
           b == SubSeq(s, k, Len(s))
           c == <<x>>
<1>1. Len(s) \in Nat /\ k \in Nat
  OBVIOUS
<1>2. /\ a \in Seq(S) /\ Len(a) = k - 1
      /\ \A i \in 1..(k - 1) : a[i] = s[i]
  <2>1. k - 1 \in Int /\ 1 <= (k - 1) + 1 /\ k - 1 <= Len(s)
    BY <1>1
  <2>2. /\ a \in Seq(S) /\ Len(a) = (k - 1) - 1 + 1
        /\ \A i \in 1..((k - 1) - 1 + 1) : a[i] = s[1 + i - 1]
    BY <2>1, PartOf
  <2> QED
    BY <1>1, <2>2
<1>3. /\ b \in Seq(S) /\ Len(b) = Len(s) - k + 1
      /\ \A i \in 1..(Len(s) - k + 1) : b[i] = s[k + i - 1]
  BY <1>1, PartOf
<1>4. c \in Seq(S) /\ Len(c) = 1 /\ c[1] = x
  OBVIOUS
<1>5. InsertAt(s, k, x) = a \o c \o b
  BY DEF InsertAt
<1> HIDE DEF a, b, c
<1> DEFINE ac == a \o c
<1>6. /\ ac \in Seq(S) /\ Len(ac) = k
      /\ \A i \in 1..k : ac[i] = IF i <= k - 1 THEN a[i] ELSE c[i - (k - 1)]
  <2>1. /\ ac \in Seq(S) /\ Len(ac) = Len(a) + Len(c)
        /\ \A i \in 1..(Len(a) + Len(c)) : ac[i] = IF i <= Len(a) THEN a[i] ELSE c[i - Len(a)]
    BY <1>2, <1>4, ConcatProperties
  <2>2. Len(a) + Len(c) = k
    BY <1>1, <1>2, <1>4
  <2> QED
    BY <1>2, <2>1, <2>2
<1> HIDE DEF ac
<1> DEFINE t == ac \o b
<1>7. /\ t \in Seq(S) /\ Len(t) = Len(s) + 1
      /\ \A i \in 1..(Len(s) + 1) : t[i] = IF i <= k THEN ac[i] ELSE b[i - k]
  <2>1. /\ t \in Seq(S) /\ Len(t) = Len(ac) + Len(b)
        /\ \A i \in 1..(Len(ac) + Len(b)) : t[i] = IF i <= Len(ac) THEN ac[i] ELSE b[i - Len(ac)]
    BY <1>3, <1>6, ConcatProperties
  <2>2. Len(ac) + Len(b) = Len(s) + 1
    BY <1>1, <1>3, <1>6
  <2> QED
    BY <1>6, <2>1, <2>2
<1> HIDE DEF t
<1>8. \A i \in 1..(k - 1) : t[i] = s[i]
  BY <1>1, <1>2, <1>6, <1>7
<1>9. t[k] = x
  BY <1>1, <1>4, <1>6, <1>7
<1>10. \A i \in k..Len(s) : t[i + 1] = s[i]
  <2> SUFFICES ASSUME NEW i \in k..Len(s) PROVE t[i + 1] = s[i]
    OBVIOUS
  <2>1. i + 1 \in 1..(Len(s) + 1) /\ ~(i + 1 <= k) /\ (i + 1) - k \in 1..(Len(s) - k + 1)
        /\ k + ((i + 1) - k) - 1 = i
    BY <1>1
  <2>2. t[i + 1] = b[(i + 1) - k]
    BY <1>7, <2>1
  <2> QED
    BY <1>3, <2>1, <2>2
<1> QED
  BY <1>5, <1>7, <1>8, <1>9, <1>10 DEF t, ac

LEMMA ItemAt ==
  ASSUME NEW s \in Seq(Item), NEW i \in 1..Len(s)
  PROVE  s[i] \in Item /\ s[i].g \in Int
<1>1. s[i] \in Item
  BY ElementOfSeq
<1> QED
  BY <1>1 DEF Item

\* The l items of t behind b weigh what those of s behind a do.
Alike(s, a, t, b, l) == \A i \in 1..l : t[b + i].g = s[a + i].g

\* Items of the same weights, one after the other, add the same to the ranks.
LEMMA SameWeights ==
  ASSUME NEW s \in Seq(Item), NEW t \in Seq(Item), NEW a \in Nat, NEW b \in Nat, NEW l \in Nat,
         a + l <= Len(s), b + l <= Len(t), Alike(s, a, t, b, l)
  PROVE  Ranks(t)[b + l] - Ranks(t)[b] = Ranks(s)[a + l] - Ranks(s)[a]
<1> DEFINE r == Ranks(s)
           q == Ranks(t)
           D == {i \in 0..l : q[b + i] - q[b] = r[a + i] - r[a]}
<1>1. /\ r \in [0..Len(s) -> Int] /\ \A n \in 1..Len(s) : r[n] = r[n - 1] + s[n].g
      /\ q \in [0..Len(t) -> Int] /\ \A n \in 1..Len(t) : q[n] = q[n - 1] + t[n].g
  BY RanksDef
<1> HIDE DEF r, q
<1>2. Len(s) \in Nat /\ Len(t) \in Nat
  OBVIOUS
<1>3. 0 \in D
  <2>1. a \in 0..Len(s) /\ b \in 0..Len(t)
    BY <1>2
  <2>2. r[a] \in Int /\ q[b] \in Int
    BY <1>1, <2>1
  <2> QED
    BY <2>2
<1>4. ASSUME NEW i \in 1..l, i - 1 \in D PROVE i \in D
  <2>1. /\ a + i \in 1..Len(s) /\ a + (i - 1) = (a + i) - 1 /\ (a + i) - 1 \in 0..Len(s)
        /\ b + i \in 1..Len(t) /\ b + (i - 1) = (b + i) - 1 /\ (b + i) - 1 \in 0..Len(t)
        /\ a \in 0..Len(s) /\ b \in 0..Len(t) /\ i \in 0..l
    BY <1>2
  <2>2. s[a + i].g \in Int
    BY <2>1, ItemAt
  <2>3. r[(a + i) - 1] \in Int /\ q[(b + i) - 1] \in Int /\ r[a] \in Int /\ q[b] \in Int
    BY <1>1, <2>1
  <2>4. /\ r[a + i] = r[(a + i) - 1] + s[a + i].g
        /\ q[b + i] = q[(b + i) - 1] + s[a + i].g
    BY <1>1, <2>1 DEF Alike
  <2>5. q[(b + i) - 1] - q[b] = r[(a + i) - 1] - r[a]
    BY <1>4, <2>1
  <2> DEFINE qi == q[b + i]
             qh == q[(b + i) - 1]
             qb == q[b]
             ri == r[a + i]
             rh == r[(a + i) - 1]
             ra == r[a]
             w  == s[a + i].g
  <2>6. qi - qb = ri - ra
    <3>1. /\ w \in Int /\ qh \in Int /\ qb \in Int /\ rh \in Int /\ ra \in Int
          /\ ri = rh + w /\ qi = qh + w /\ qh - qb = rh - ra
      BY <2>2, <2>3, <2>4, <2>5
    <3> HIDE DEF qi, qh, qb, ri, rh, ra, w
    <3> QED
      BY <3>1
  <2> QED
    BY <2>1, <2>6
<1>5. \A i \in 0..l : i \in D
  <2> HIDE DEF D
  <2> QED
    BY <1>3, <1>4, InductionUpTo
<1>6. l \in D
  BY <1>5
<1> QED
  BY <1>6 DEF r, q

LEMMA InsertWeight ==
  ASSUME NEW s \in Seq(Item), NEW k \in 1..(Len(s) + 1), NEW x \in Item
  PROVE  Weights(InsertAt(s, k, x)) = Weights(s) + x.g
<1> DEFINE t == InsertAt(s, k, x)
           n == Len(s)
           r == Ranks(s)
           q == Ranks(t)
<1>1. /\ t \in Seq(Item) /\ Len(t) = n + 1
      /\ \A i \in 1..(k - 1) : t[i] = s[i]
      /\ t[k] = x
      /\ \A i \in k..n : t[i + 1] = s[i]
  BY InsertAtItems
<1> HIDE DEF t
<1>2. n \in Nat /\ k \in Nat /\ k - 1 \in Nat /\ n - (k - 1) \in Nat /\ x.g \in Int
  BY DEF Item
<1>3. q[k - 1] = r[k - 1]
  <2>1. Ranks(t)[0 + (k - 1)] - Ranks(t)[0] = Ranks(s)[0 + (k - 1)] - Ranks(s)[0]
    <3>1. Alike(s, 0, t, 0, k - 1)
      BY <1>1, <1>2 DEF Alike
    <3>2. 0 + (k - 1) <= Len(s) /\ 0 + (k - 1) <= Len(t)
      BY <1>1, <1>2
    <3>3. t \in Seq(Item) /\ 0 \in Nat /\ k - 1 \in Nat
      BY <1>1, <1>2
    <3> QED
      BY <3>1, <3>2, <3>3, SameWeights, Zenon
  <2>2. Ranks(s)[0] = 0 /\ Ranks(t)[0] = 0 /\ 0 + (k - 1) = k - 1
    BY <1>1, <1>2, RanksDef
  <2>3. k - 1 \in 0..Len(s) /\ k - 1 \in 0..Len(t)
    BY <1>1, <1>2
  <2>4. Ranks(s)[k - 1] \in Int /\ Ranks(t)[k - 1] \in Int
    BY <1>1, <2>3, RanksDef
  <2> QED
    BY <2>1, <2>2, <2>4
<1>4. q[k] = q[k - 1] + x.g
  <2>1. k \in 1..Len(t)
    BY <1>1, <1>2
  <2> QED
    BY <1>1, <2>1, RanksDef
<1>5. q[n + 1] - q[k] = r[n] - r[k - 1]
  <2> DEFINE a == k - 1
             l == n - a
  <2>1. a \in Nat /\ l \in Nat /\ a + l = n /\ k + l = n + 1
    BY <1>2
  <2>2. Alike(s, a, t, k, l)
    <3> SUFFICES ASSUME NEW i \in 1..l PROVE t[k + i].g = s[a + i].g
      BY DEF Alike
    <3>1. a + i \in k..n /\ (a + i) + 1 = k + i
      BY <1>2
    <3> QED
      BY <1>1, <3>1
  <2> HIDE DEF a, l
  <2>3. Ranks(t)[k + l] - Ranks(t)[k] = Ranks(s)[a + l] - Ranks(s)[a]
    <3>1. t \in Seq(Item) /\ k \in Nat /\ a \in Nat /\ l \in Nat
          /\ a + l <= Len(s) /\ k + l <= Len(t)
      BY <1>1, <1>2, <2>1
    <3> QED
      BY <2>2, <3>1, SameWeights
  <2> QED
    BY <2>1, <2>3 DEF a
<1>6. q[n + 1] \in Int /\ q[k] \in Int /\ q[k - 1] \in Int /\ r[n] \in Int /\ r[k - 1] \in Int
  <2>1. n + 1 \in 0..Len(t) /\ k \in 0..Len(t) /\ k - 1 \in 0..Len(t) /\ n \in 0..Len(s)
        /\ k - 1 \in 0..Len(s)
    BY <1>1, <1>2
  <2> QED
    BY <1>1, <2>1, RanksDef
<1> DEFINE qn == q[n + 1]
           qk == q[k]
           qh == q[k - 1]
           rn == r[n]
           rh == r[k - 1]
           w  == x.g
<1>7. qn = rn + w
  <2>1. /\ qn \in Int /\ qk \in Int /\ qh \in Int /\ rn \in Int /\ rh \in Int /\ w \in Int
        /\ qh = rh /\ qk = qh + w /\ qn - qk = rn - rh
    BY <1>2, <1>3, <1>4, <1>5, <1>6
  <2> HIDE DEF qn, qk, qh, rn, rh, w
  <2> QED
    BY <2>1
<1> QED
  BY <1>1, <1>7 DEF Weights, t

\* A pair of items is merged: the first is erased and its weight given to the other.
LEMMA MergeItems ==
  ASSUME NEW s \in Seq(Item), NEW k \in 1..(Len(s) - 1), NEW w \in Int
  PROVE  LET t == RemoveAt([s EXCEPT ![k + 1].g = w], k)
         IN /\ t \in Seq(Item) /\ Len(t) = Len(s) - 1
            /\ \A i \in 1..(k - 1) : t[i] = s[i]
            /\ t[k].g = w /\ t[k].value = s[k + 1].value
            /\ \A i \in (k + 1)..(Len(s) - 1) : t[i] = s[i + 1]
<1> DEFINE n == Len(s)
           y == [s[k + 1] EXCEPT !.g = w]
           e == [s EXCEPT ![k + 1] = y]
           a == SubSeq(e, 1, k - 1)
           b == SubSeq(e, k + 1, n)
           t == a \o b
<1>1. n \in Nat /\ k \in Nat /\ k + 1 \in 1..n
  OBVIOUS
<1>2. y \in Item /\ y.g = w /\ y.value = s[k + 1].value
  <2>1. s[k + 1] \in Item
    BY <1>1, ElementOfSeq
  <2> QED
    BY <2>1 DEF Item
<1> HIDE DEF y
<1>3. /\ e \in Seq(Item) /\ Len(e) = n
      /\ \A j \in 1..n : e[j] = IF j = k + 1 THEN y ELSE s[j]
  BY <1>1, <1>2, ExceptSeq
<1>4. RemoveAt([s EXCEPT ![k + 1].g = w], k) = t
  BY <1>3 DEF RemoveAt, y
<1> HIDE DEF e
<1>5. /\ a \in Seq(Item) /\ Len(a) = k - 1
      /\ \A i \in 1..(k - 1) : a[i] = s[i]
  <2>1. k - 1 \in Int /\ 1 <= (k - 1) + 1 /\ k - 1 <= Len(e)
    BY <1>1, <1>3
  <2>2. /\ a \in Seq(Item) /\ Len(a) = (k - 1) - 1 + 1
        /\ \A i \in 1..((k - 1) - 1 + 1) : a[i] = e[1 + i - 1]
    BY <1>3, <2>1, PartOf
  <2> QED
    BY <1>1, <1>3, <2>2
<1>6. /\ b \in Seq(Item) /\ Len(b) = n - k
      /\ \A i \in 1..(n - k) : b[i] = e[k + i]
  <2>1. k + 1 \in Int /\ 1 <= k + 1 /\ k + 1 <= n + 1 /\ n <= Len(e)
    BY <1>1, <1>3
  <2>2. /\ b \in Seq(Item) /\ Len(b) = n - (k + 1) + 1
        /\ \A i \in 1..(n - (k + 1) + 1) : b[i] = e[(k + 1) + i - 1]
    <3> HIDE DEF n
    <3> QED
      BY <1>1, <1>3, <2>1, PartOf
  <2> QED
    BY <1>1, <2>2
<1> HIDE DEF a, b, n
<1>7. /\ t \in Seq(Item) /\ Len(t) = n - 1
      /\ \A i \in 1..(n - 1) : t[i] = IF i <= k - 1 THEN a[i] ELSE b[i - (k - 1)]
  <2>1. /\ t \in Seq(Item) /\ Len(t) = Len(a) + Len(b)
        /\ \A i \in 1..(Len(a) + Len(b)) : t[i] = IF i <= Len(a) THEN a[i] ELSE b[i - Len(a)]
    BY <1>5, <1>6, ConcatProperties
  <2>2. Len(a) + Len(b) = n - 1
    BY <1>1, <1>5, <1>6
  <2> QED
    BY <1>5, <2>1, <2>2
<1> HIDE DEF t
<1>8. \A i \in 1..(k - 1) : t[i] = s[i]
  BY <1>1, <1>5, <1>7
<1>9. \A i \in k..(n - 1) : t[i] = e[i + 1]
  <2> SUFFICES ASSUME NEW i \in k..(n - 1) PROVE t[i] = e[i + 1]
    OBVIOUS
  <2>1. i \in 1..(n - 1) /\ ~(i <= k - 1) /\ i - (k - 1) \in 1..(n - k) /\ k + (i - (k - 1)) = i + 1
    BY <1>1
  <2> QED
    BY <1>6, <1>7, <2>1
<1>10. t[k].g = w /\ t[k].value = s[k + 1].value
  BY <1>1, <1>2, <1>3, <1>9
<1>11. \A i \in (k + 1)..(n - 1) : t[i] = s[i + 1]
  <2> SUFFICES ASSUME NEW i \in (k + 1)..(n - 1) PROVE t[i] = s[i + 1]
    OBVIOUS
  <2>1. i \in k..(n - 1) /\ i + 1 \in 1..n /\ i + 1 # k + 1
    BY <1>1
  <2> QED
    BY <1>3, <1>9, <2>1
<1> QED
  BY <1>4, <1>7, <1>8, <1>10, <1>11 DEF n

LEMMA MergeWeight ==
  ASSUME NEW s \in Seq(Item), NEW k \in 1..(Len(s) - 1)
  PROVE  Weights(RemoveAt([s EXCEPT ![k + 1].g = s[k].g + s[k + 1].g], k)) = Weights(s)
<1> DEFINE w == s[k].g + s[k + 1].g
           t == RemoveAt([s EXCEPT ![k + 1].g = w], k)
           n == Len(s)
           r == Ranks(s)
           q == Ranks(t)
<1>1. n \in Nat /\ k \in Nat /\ k - 1 \in Nat /\ k \in 1..n /\ k + 1 \in 1..n
  OBVIOUS
<1>2. s[k].g \in Int /\ s[k + 1].g \in Int /\ w \in Int
  BY <1>1, ItemAt
<1>3. /\ t \in Seq(Item) /\ Len(t) = n - 1
      /\ \A i \in 1..(k - 1) : t[i] = s[i]
      /\ t[k].g = w
      /\ \A i \in (k + 1)..(n - 1) : t[i] = s[i + 1]
  <2> HIDE DEF w
  <2> QED
    BY <1>2, MergeItems
<1> HIDE DEF t
<1>4. q[k - 1] - q[0] = r[k - 1] - r[0]
  <2>1. Alike(s, 0, t, 0, k - 1)
    BY <1>1, <1>3 DEF Alike
  <2>2. 0 + (k - 1) <= Len(s) /\ 0 + (k - 1) <= Len(t)
    BY <1>1, <1>3
  <2>3. Ranks(t)[0 + (k - 1)] - Ranks(t)[0] = Ranks(s)[0 + (k - 1)] - Ranks(s)[0]
    <3>1. t \in Seq(Item) /\ 0 \in Nat /\ k - 1 \in Nat
      BY <1>1, <1>3
    <3> QED
      BY <2>1, <2>2, <3>1, SameWeights, Zenon
  <2> QED
    BY <1>1, <2>3
<1>5. q[k] = q[k - 1] + w /\ r[k] = r[k - 1] + s[k].g /\ r[k + 1] = r[k] + s[k + 1].g
  <2>1. k \in 1..Len(t) /\ k \in 1..Len(s) /\ k + 1 \in 1..Len(s) /\ (k + 1) - 1 = k
    BY <1>1, <1>3
  <2>2. \A i \in 1..Len(t) : q[i] = q[i - 1] + t[i].g
    BY <1>3, RanksDef
  <2>3. \A i \in 1..Len(s) : r[i] = r[i - 1] + s[i].g
    BY RanksDef
  <2> QED
    BY <1>3, <2>1, <2>2, <2>3
<1>6. q[n - 1] - q[k] = r[n] - r[k + 1]
  <2> DEFINE a == k + 1
             l == n - a
  <2>1. a \in Nat /\ l \in Nat /\ a + l = n /\ k + l = n - 1
    BY <1>1
  <2>2. Alike(s, a, t, k, l)
    <3> SUFFICES ASSUME NEW i \in 1..l PROVE t[k + i].g = s[a + i].g
      BY DEF Alike
    <3>1. k + i \in (k + 1)..(n - 1) /\ (k + i) + 1 = a + i
      BY <1>1
    <3> QED
      BY <1>3, <3>1
  <2> HIDE DEF a, l
  <2>3. Ranks(t)[k + l] - Ranks(t)[k] = Ranks(s)[a + l] - Ranks(s)[a]
    <3>1. t \in Seq(Item) /\ Len(s) = n /\ Len(t) = n - 1 /\ n \in Int /\ k \in Nat
          /\ a \in Nat /\ l \in Nat /\ a + l = n /\ k + l = n - 1
      BY <1>1, <1>3, <2>1
    <3>2. a + l <= Len(s) /\ k + l <= Len(t)
      <4> HIDE DEF n
      <4> QED
        BY <3>1
    <3> QED
      BY <2>2, <3>1, <3>2, SameWeights
  <2> QED
    BY <2>1, <2>3 DEF a
<1>7. /\ q[n - 1] \in Int /\ q[k] \in Int /\ q[k - 1] \in Int /\ q[0] = 0
      /\ r[n] \in Int /\ r[k - 1] \in Int /\ r[k] \in Int /\ r[k + 1] \in Int /\ r[0] = 0
  <2>1. /\ n - 1 \in 0..Len(t) /\ k \in 0..Len(t) /\ k - 1 \in 0..Len(t)
        /\ n \in 0..Len(s) /\ k - 1 \in 0..Len(s) /\ k \in 0..Len(s) /\ k + 1 \in 0..Len(s)
    BY <1>1, <1>3
  <2> QED
    BY <1>3, <2>1, RanksDef
<1> DEFINE qn == q[n - 1]
           qk == q[k]
           qh == q[k - 1]
           rn == r[n]
           rl == r[k + 1]
           rk == r[k]
           rh == r[k - 1]
           u  == s[k].g
           v  == s[k + 1].g
<1>8. qn = rn
  <2>1. /\ qn \in Int /\ qk \in Int /\ qh \in Int /\ rn \in Int /\ rl \in Int /\ rk \in Int
        /\ rh \in Int /\ u \in Int /\ v \in Int
        /\ qk = qh + (u + v) /\ rk = rh + u /\ rl = rk + v /\ qn - qk = rn - rl
    BY <1>2, <1>5, <1>6, <1>7
  <2>2. qh - 0 = rh - 0
    BY <1>4, <1>7
  <2> HIDE DEF qn, qk, qh, rn, rl, rk, rh, u, v
  <2> QED
    BY <2>1, <2>2
<1> QED
  BY <1>3, <1>8 DEF Weights, t

-----------------------------------------------------------------------------
(* The order of the items, and where their values come from.                *)

Ordered(s) == \A i, j \in 1..Len(s) : i < j => s[i].value <= s[j].value
ValuesIn(s, S) == \A i \in 1..Len(s) : s[i].value \in S

\* None of the first m items is larger than v, none of those from k on smaller.
Below(s, m, v) == \A i \in 1..m : s[i].value <= v
Above(s, k, v) == \A i \in k..Len(s) : v <= s[i].value

\* The same of plain numbers.
Up(values) == \A i, j \in 1..Len(values) : i < j => values[i] <= values[j]
Among(values, S) == \A i \in 1..Len(values) : values[i] \in S

LEMMA InsertOrdered ==
  ASSUME NEW s \in Seq(Item), NEW k \in 1..(Len(s) + 1), NEW x \in Item,
         Ordered(s), Below(s, k - 1, x.value), Above(s, k, x.value),
         NEW S, ValuesIn(s, S), x.value \in S
  PROVE  LET t == InsertAt(s, k, x)
         IN Ordered(t) /\ ValuesIn(t, S) /\ Below(t, k - 1, x.value)
<1> DEFINE t == InsertAt(s, k, x)
           n == Len(s)
           v == x.value
<1>1. /\ t \in Seq(Item) /\ Len(t) = n + 1
      /\ \A i \in 1..(k - 1) : t[i] = s[i]
      /\ t[k] = x
      /\ \A i \in k..n : t[i + 1] = s[i]
  BY InsertAtItems
<1>2. n \in Nat /\ k \in 1..(n + 1) /\ v \in Int
  BY DEF Item
<1>3. \A i \in 1..n : s[i].value \in Int
  <2>1. \A i \in 1..n : s[i] \in Item
    BY ElementOfSeq
  <2> QED
    BY <2>1 DEF Item
<1> DEFINE a == [i \in 1..n |-> s[i].value]
           b == [i \in 1..(n + 1) |-> t[i].value]
<1> HIDE DEF t
<1>4. /\ \A i \in 1..n : a[i] = s[i].value /\ a[i] \in Int
      /\ \A i \in 1..(n + 1) : b[i] = t[i].value
  BY <1>3
<1>5. /\ \A i \in 1..(k - 1) : b[i] = a[i] /\ a[i] <= v
      /\ b[k] = v
      /\ \A i \in (k + 1)..(n + 1) : b[i] = a[i - 1] /\ v <= a[i - 1]
  <2>1. ASSUME NEW i \in 1..(k - 1) PROVE b[i] = a[i] /\ a[i] <= v
    <3>1. i \in 1..n /\ i \in 1..(n + 1)
      BY <1>2
    <3> HIDE DEF a, b
    <3> QED
      BY <1>1, <1>4, <3>1 DEF Below
  <2>2. b[k] = v
    BY <1>1, <1>2
  <2>3. ASSUME NEW i \in (k + 1)..(n + 1) PROVE b[i] = a[i - 1] /\ v <= a[i - 1]
    <3>1. i - 1 \in k..n /\ i - 1 \in 1..n /\ (i - 1) + 1 = i /\ i \in 1..(n + 1)
      BY <1>2
    <3>2. t[(i - 1) + 1] = s[i - 1]
      BY <1>1, <3>1
    <3> HIDE DEF a, b
    <3> QED
      BY <1>4, <3>1, <3>2 DEF Above
  <2> QED
    BY <2>1, <2>2, <2>3
<1>6. \A i, j \in 1..n : i < j => a[i] <= a[j]
  BY DEF Ordered
<1>7. \A i \in 1..n : a[i] \in S
  BY DEF ValuesIn
<1> HIDE DEF a, b, n, v
<1>8. \A i \in 1..(n + 1) : b[i] \in S
  <2> SUFFICES ASSUME NEW i \in 1..(n + 1) PROVE b[i] \in S
    OBVIOUS
  <2>1. i \in 1..(k - 1) \/ i = k \/ i \in (k + 1)..(n + 1)
    BY <1>2
  <2>2. CASE i \in 1..(k - 1)
    BY <1>2, <1>5, <1>7, <2>2
  <2>3. CASE i = k
    BY <1>5, <2>3 DEF v
  <2>4. CASE i \in (k + 1)..(n + 1)
    <3>1. i - 1 \in 1..n
      BY <1>2, <2>4
    <3> QED
      BY <1>5, <1>7, <2>4, <3>1
  <2> QED
    BY <2>1, <2>2, <2>3, <2>4
<1>9. ASSUME NEW i \in 1..(n + 1), NEW j \in 1..(n + 1), i < j PROVE b[i] <= b[j]
  <2>1. ASSUME NEW l \in 1..(k - 1) PROVE l \in 1..n /\ b[l] \in Int /\ b[l] <= v
    <3>1. l \in 1..n
      BY <1>2
    <3>2. b[l] = a[l] /\ a[l] <= v /\ a[l] \in Int
      BY <1>4, <1>5, <3>1
    <3> QED
      BY <3>1, <3>2
  <2>2. \A l \in (k + 1)..(n + 1) : l - 1 \in 1..n /\ b[l] \in Int /\ v <= b[l]
    BY <1>2, <1>4, <1>5
  <2>3. CASE i \in 1..(k - 1) /\ j \in 1..(k - 1)
    BY <1>5, <1>6, <1>9, <2>1, <2>3
  <2>4. CASE i \in (k + 1)..(n + 1) /\ j \in (k + 1)..(n + 1)
    <3>1. b[i] = a[i - 1] /\ b[j] = a[j - 1] /\ i - 1 \in 1..n /\ j - 1 \in 1..n
          /\ i - 1 < j - 1
      BY <1>2, <1>5, <1>9, <2>2, <2>4
    <3>2. \A l, m \in 1..n : l < m => a[l] <= a[m]
      BY <1>6
    <3> QED
      BY <3>1, <3>2
  <2>5. CASE i \in 1..(k - 1) /\ j \in k..(n + 1)
    <3>1. b[i] \in Int /\ b[i] <= v
      BY <2>1, <2>5
    <3>2. b[j] \in Int /\ v <= b[j]
      <4>1. j = k \/ j \in (k + 1)..(n + 1)
        BY <1>2, <2>5
      <4> QED
        BY <1>2, <1>5, <2>2, <4>1
    <3> QED
      BY <1>2, <3>1, <3>2
  <2>6. CASE i = k /\ j \in (k + 1)..(n + 1)
    BY <1>5, <2>2, <2>6
  <2>7. \/ i \in 1..(k - 1) /\ j \in 1..(k - 1)
        \/ i \in (k + 1)..(n + 1) /\ j \in (k + 1)..(n + 1)
        \/ i \in 1..(k - 1) /\ j \in k..(n + 1)
        \/ i = k /\ j \in (k + 1)..(n + 1)
    BY <1>2, <1>9
  <2> QED
    BY <2>3, <2>4, <2>5, <2>6, <2>7
<1>10. Len(t) = n + 1
  BY <1>1 DEF n
<1>11. Ordered(t)
  BY <1>4, <1>9, <1>10 DEF Ordered
<1>12. ValuesIn(t, S)
  BY <1>4, <1>8, <1>10 DEF ValuesIn
<1>13. Below(t, k - 1, v)
  <2> SUFFICES ASSUME NEW i \in 1..(k - 1) PROVE t[i].value <= v
    BY DEF Below
  <2>1. i \in 1..(n + 1)
    BY <1>2
  <2> QED
    BY <1>4, <1>5, <2>1
<1> QED
  BY <1>11, <1>12, <1>13 DEF t, v

LEMMA MergeOrdered ==
  ASSUME NEW s \in Seq(Item), NEW k \in 1..(Len(s) - 1), NEW w \in Int, Ordered(s),
         NEW S, ValuesIn(s, S)
  PROVE  LET t == RemoveAt([s EXCEPT ![k + 1].g = w], k) IN Ordered(t) /\ ValuesIn(t, S)
<1> DEFINE t == RemoveAt([s EXCEPT ![k + 1].g = w], k)
           n == Len(s)
           at == [i \in 1..(n - 1) |-> IF i < k THEN i ELSE i + 1]
<1>1. /\ t \in Seq(Item) /\ Len(t) = n - 1
      /\ \A i \in 1..(k - 1) : t[i] = s[i]
      /\ t[k].g = w /\ t[k].value = s[k + 1].value
      /\ \A i \in (k + 1)..(n - 1) : t[i] = s[i + 1]
  BY MergeItems
<1> HIDE DEF t
<1>2. n \in Nat /\ k \in 1..(n - 1)
  OBVIOUS
<1> HIDE DEF n
<1>3. ASSUME NEW i \in 1..(n - 1) PROVE at[i] \in 1..n /\ t[i].value = s[at[i]].value
  <2>1. i \in 1..(k - 1) \/ i = k \/ i \in (k + 1)..(n - 1)
    BY <1>2
  <2> QED
    BY <1>1, <1>2, <2>1
<1>4. \A i, j \in 1..(n - 1) : i < j => at[i] < at[j]
  BY <1>2
<1> HIDE DEF at
<1>5. Ordered(t)
  <2> SUFFICES ASSUME NEW i \in 1..(n - 1), NEW j \in 1..(n - 1), i < j
               PROVE  t[i].value <= t[j].value
    BY <1>1 DEF Ordered
  <2>1. at[i] \in 1..n /\ at[j] \in 1..n /\ at[i] < at[j]
    BY <1>3, <1>4
  <2>2. s[at[i]].value <= s[at[j]].value
    BY <2>1 DEF Ordered, n
  <2> QED
    BY <1>3, <2>2
<1>6. ValuesIn(t, S)
  BY <1>1, <1>3 DEF ValuesIn, n
<1> QED
  BY <1>5, <1>6 DEF t

-----------------------------------------------------------------------------
(* The error bound.                                                         *)

LEMMA FiniteMin ==
  ASSUME NEW S, S \subseteq Int, IsFiniteSet(S), S # {}
  PROVE  Min(S) \in S /\ \A y \in S : Min(S) <= y
<1> DEFINE HasLeast(T) == \E m \in T : \A y \in T : m <= y
           D == {n \in Nat : \A T \in SUBSET Int :
                   IsFiniteSet(T) /\ Cardinality(T) = n /\ T # {} => HasLeast(T)}
<1>1. 0 \in D
  <2> SUFFICES ASSUME NEW T \in SUBSET Int, IsFiniteSet(T), Cardinality(T) = 0, T # {}
               PROVE  FALSE
    OBVIOUS
  <2> QED
    BY FS_EmptySet
<1>2. ASSUME NEW n \in D PROVE n + 1 \in D
  <2>0. n \in Nat /\ n + 1 \in Nat /\ (n + 1) - 1 = n
    OBVIOUS
  <2> SUFFICES ASSUME NEW T \in SUBSET Int, IsFiniteSet(T), Cardinality(T) = n + 1, T # {}
               PROVE  HasLeast(T)
    BY <2>0, Zenon
  <2>1. PICK x \in T : TRUE
    OBVIOUS
  <2> DEFINE R == T \ {x}
  <2>2. IsFiniteSet(R) /\ Cardinality(R) = n /\ R \in SUBSET Int
    BY <2>0, <2>1, FS_RemoveElement
  <2>3. CASE R = {}
    <3>1. T = {x} /\ x \in Int
      BY <2>1, <2>3
    <3>2. x <= x
      BY <3>1
    <3> QED
      BY <3>1, <3>2
  <2>4. CASE R # {}
    <3>1. HasLeast(R)
      BY <2>2, <2>4, Zenon
    <3>2. PICK m \in R : \A y \in R : m <= y
      BY <3>1
    <3>3. m \in Int /\ x \in Int /\ T = R \cup {x}
      BY <2>1
    <3>4. CASE m <= x
      <4>1. m \in T /\ \A y \in T : m <= y
        BY <3>2, <3>3, <3>4
      <4> QED
        BY <4>1
    <3>5. CASE ~(m <= x)
      <4>1. \A y \in R : x <= y
        <5> SUFFICES ASSUME NEW y \in R PROVE x <= y
          OBVIOUS
        <5>1. y \in Int /\ m <= y
          BY <2>2, <3>2
        <5> QED
          BY <3>3, <3>5, <5>1
      <4>2. x \in T /\ \A y \in T : x <= y
        BY <3>3, <4>1
      <4> QED
        BY <4>2
    <3> QED
      BY <3>4, <3>5
  <2> QED
    BY <2>3, <2>4
<1>3. D = Nat
  <2> HIDE DEF D
  <2>1. D \subseteq Nat
    BY DEF D
  <2> QED
    BY <1>1, <1>2, <2>1, Induction
<1>4. HasLeast(S)
  <2>1. Cardinality(S) \in D
    BY <1>3, FS_CardinalityType
  <2> HIDE DEF HasLeast
  <2> QED
    BY <2>1
<1> QED
  BY <1>4 DEF Min

LEMMA Quotient ==
  ASSUME NEW a \in Int, NEW b \in Nat \ {0} PROVE a \div b \in Int
OBVIOUS

LEMMA ErrorBoundInt ==
  ASSUME NEW size \in Int, NEW rank \in Int PROVE ErrorBound(size, rank) \in Int
<1> DEFINE e == [p \in Percents |-> IF 100 * rank <= p * size THEN U(p) * (size - rank)
                                                              ELSE V(p) * rank]
           E == {e[p] : p \in Percents}
           S == {(size + 1) * Scale} \cup E
<1>1. ASSUME NEW p \in Percents PROVE U(p) \in Int /\ V(p) \in Int
  <2>1. p \in Nat \ {0} /\ 100 - p \in Nat \ {0} /\ 10 * Scale \in Int
    BY SketchOK
  <2> QED
    BY <2>1, Quotient DEF U, V
<1>2. \A p \in Percents : e[p] \in Int
  <2> SUFFICES ASSUME NEW p \in Percents PROVE e[p] \in Int
    OBVIOUS
  <2> DEFINE u == U(p)
             v == V(p)
  <2>1. u \in Int /\ v \in Int
    BY <1>1
  <2>2. e[p] = IF 100 * rank <= p * size THEN u * (size - rank) ELSE v * rank
    OBVIOUS
  <2> HIDE DEF u, v, e
  <2>3. u * (size - rank) \in Int /\ v * rank \in Int
    BY <2>1
  <2> QED
    BY <2>2, <2>3
<1>3. IsFiniteSet(E)
  <2>1. IsFiniteSet(1..99)
    <3>1. \A a, b \in Int : IsFiniteSet(a..b)
      BY FS_Interval
    <3>2. 1 \in Int /\ 99 \in Int
      OBVIOUS
    <3> QED
      BY <3>1, <3>2, Zenon
  <2>2. IsFiniteSet(Percents)
    BY <2>1, FS_Subset, SketchOK
  <2>3. e \in Surjection(Percents, E)
    BY DEF Surjection
  <2> HIDE DEF e, E
  <2> QED
    BY <2>2, <2>3, FS_Surjection
<1>4. S \subseteq Int /\ S # {} /\ IsFiniteSet(S)
  <2>1. (size + 1) * Scale \in Int
    BY SketchOK
  <2>2. E \subseteq Int
    <3> HIDE DEF e
    <3> QED
      BY <1>2
  <2>3. IsFiniteSet(S)
    <3> HIDE DEF E
    <3>1. IsFiniteSet(E \cup {(size + 1) * Scale})
      BY <1>3, FS_AddElement
    <3>2. S = E \cup {(size + 1) * Scale}
      OBVIOUS
    <3> QED
      BY <3>1, <3>2
  <2> HIDE DEF E
  <2> QED
    BY <2>1, <2>2, <2>3
<1>5. ErrorBound(size, rank) = Min(S)
  BY DEF ErrorBound
<1> HIDE DEF S
<1> QED
  BY <1>4, <1>5, FiniteMin

-----------------------------------------------------------------------------
(* What batch() and compress() do to the weights.                           *)

LEMMA IndexBound ==
  ASSUME NEW n \in Nat, NEW S, S \subseteq 1..n
  PROVE  IsFiniteSet(S) /\ Cardinality(S) \in 0..n
<1>1. IsFiniteSet(1..n) /\ Cardinality(1..n) = n
  <2>1. \A a, b \in Int : IsFiniteSet(a..b) /\ Cardinality(a..b) = IF a > b THEN 0 ELSE b - a + 1
    BY FS_Interval
  <2>2. IsFiniteSet(1..n) /\ Cardinality(1..n) = IF 1 > n THEN 0 ELSE n - 1 + 1
    BY <2>1
  <2> QED
    BY <2>2
<1>2. IsFiniteSet(S) /\ Cardinality(S) <= Cardinality(1..n)
  BY <1>1, FS_Subset
<1> QED
  BY <1>1, <1>2, FS_CardinalityType

\* Every place is taken: two values that are sorted never have the same.
LEMMA SortedType ==
  ASSUME NEW s \in Seq(Int)
  PROVE  /\ Sorted(s) \in Seq(Int) /\ Len(Sorted(s)) = Len(s) /\ Up(Sorted(s))
         /\ \A i \in 1..Len(s) : \E j \in 1..Len(s) : Sorted(s)[i] = s[j]
<1> DEFINE n == Len(s)
           Before(i, j) == s[i] < s[j] \/ (s[i] = s[j] /\ i < j)
           Under(j) == {i \in 1..n : Before(i, j)}
           place == [j \in 1..n |-> Cardinality(Under(j)) + 1]
<1>1. n \in Nat /\ DOMAIN s = 1..n /\ \A i \in 1..n : s[i] \in Int
  BY ElementOfSeq
<1>2. \A j \in 1..n : IsFiniteSet(Under(j)) /\ Cardinality(Under(j)) \in 0..(n - 1)
  <2> SUFFICES ASSUME NEW j \in 1..n
               PROVE  IsFiniteSet(Under(j)) /\ Cardinality(Under(j)) \in 0..(n - 1)
    OBVIOUS
  <2>1. j \notin Under(j) /\ Under(j) \subseteq 1..n
    BY <1>1
  <2> DEFINE B == Under(j)
  <2>2. IsFiniteSet(B) /\ Cardinality(B) \in Nat
    <3> HIDE DEF B
    <3> QED
      BY <1>1, <2>1, IndexBound DEF B
  <2>3. Cardinality(B \cup {j}) = Cardinality(B) + 1
    <3> HIDE DEF B
    <3> QED
      BY <2>1, <2>2, FS_AddElement DEF B
  <2>4. Cardinality(B \cup {j}) \in 0..n
    <3>1. B \cup {j} \subseteq 1..n
      BY <2>1
    <3> HIDE DEF B
    <3> QED
      BY <1>1, <3>1, IndexBound
  <2> HIDE DEF B
  <2>5. Cardinality(B) \in 0..(n - 1)
    BY <1>1, <2>2, <2>3, <2>4
  <2> QED
    BY <2>2, <2>5 DEF B
<1>3. \A i, j \in 1..n : Before(i, j) => place[i] < place[j]
  <2> SUFFICES ASSUME NEW i \in 1..n, NEW j \in 1..n, Before(i, j)
               PROVE  place[i] < place[j]
    OBVIOUS
  <2>1. i \notin Under(i) /\ Under(i) \cup {i} \subseteq Under(j)
    BY <1>1
  <2> DEFINE B == Under(i)
             C == Under(j)
  <2>2. IsFiniteSet(B) /\ IsFiniteSet(C) /\ Cardinality(B) \in Nat /\ Cardinality(C) \in Nat
    <3> HIDE DEF Under
    <3> QED
      BY <1>1, <1>2
  <2>3. place[i] = Cardinality(B) + 1 /\ place[j] = Cardinality(C) + 1
    OBVIOUS
  <2>4. i \notin B /\ B \cup {i} \subseteq C
    BY <2>1
  <2> HIDE DEF B, C, place
  <2>5. Cardinality(B \cup {i}) = Cardinality(B) + 1
    BY <2>2, <2>4, FS_AddElement
  <2>6. Cardinality(B \cup {i}) <= Cardinality(C)
    BY <2>2, <2>4, FS_Subset
  <2> QED
    BY <2>2, <2>3, <2>5, <2>6
<1>4. place \in [1..n -> 1..n]
  <2>1. \A j \in 1..n : place[j] \in 1..n
    <3> HIDE DEF Under, n
    <3> QED
      BY <1>1, <1>2
  <2> QED
    BY <2>1
<1>5. place \in Injection(1..n, 1..n)
  <2>1. \A i, j \in 1..n : place[i] = place[j] => i = j
    <3> SUFFICES ASSUME NEW i \in 1..n, NEW j \in 1..n, i # j PROVE place[i] # place[j]
      OBVIOUS
    <3>1. Before(i, j) \/ Before(j, i)
      BY <1>1
    <3>2. place[i] \in Int /\ place[j] \in Int
      <4> HIDE DEF place, n
      <4> QED
        BY <1>1, <1>4
    <3>3. place[i] < place[j] \/ place[j] < place[i]
      BY <1>3, <3>1
    <3> HIDE DEF place
    <3> QED
      BY <3>2, <3>3
  <2> DEFINE N == 1..n
  <2>2. place \in [N -> N] /\ \A i, j \in N : place[i] = place[j] => i = j
    BY <1>4, <2>1
  <2> HIDE DEF place, N
  <2>3. place \in Injection(N, N)
    BY <2>2 DEF Injection, IsInjective
  <2> QED
    BY <2>3 DEF N
<1>6. \A m \in 1..n : \E j \in 1..n : place[j] = m
  <2> DEFINE N == 1..n
  <2>1. IsFiniteSet(N)
    BY <1>1, IndexBound
  <2>2. place \in Injection(N, N)
    BY <1>5
  <2> HIDE DEF N, place
  <2>3. place \in Surjection(N, N)
    BY <2>1, <2>2, FS_Injection
  <2> QED
    BY <2>3 DEF Surjection, N
<1>7. Sorted(s) = [m \in 1..n |-> s[CHOOSE j \in 1..n : place[j] = m]]
  BY Zenon DEF Sorted
<1> HIDE DEF place, n
<1>8. \A m \in 1..n : s[CHOOSE j \in 1..n : place[j] = m] \in Int
  BY <1>1, <1>6
<1> DEFINE v == [m \in 1..n |-> CHOOSE j \in 1..n : place[j] = m]
<1>9. Sorted(s) = [m \in 1..n |-> s[v[m]]] /\ \A m \in 1..n : s[v[m]] \in Int
  BY <1>7, <1>8
<1>9a. \A m \in 1..n : v[m] \in 1..n /\ place[v[m]] = m
  BY <1>6
<1> HIDE DEF v
<1>9b. \A i, j \in 1..n : i < j => s[v[i]] <= s[v[j]]
  <2> SUFFICES ASSUME NEW i \in 1..n, NEW j \in 1..n, i < j PROVE s[v[i]] <= s[v[j]]
    OBVIOUS
  <2> DEFINE a == v[i]
             b == v[j]
  <2>1. a \in 1..n /\ b \in 1..n /\ place[a] = i /\ place[b] = j
    BY <1>9a
  <2> HIDE DEF a, b
  <2>2. ~(s[b] < s[a])
    <3> SUFFICES ASSUME s[b] < s[a] PROVE FALSE
      OBVIOUS
    <3>1. place[b] < place[a]
      BY <1>3, <2>1
    <3> QED
      BY <1>1, <2>1, <3>1
  <2>3. s[a] \in Int /\ s[b] \in Int
    BY <1>1, <2>1
  <2> QED
    BY <2>2, <2>3 DEF a, b
<1>10. [m \in 1..n |-> s[v[m]]] \in Seq(Int) /\ Len([m \in 1..n |-> s[v[m]]]) = n
  BY <1>1, <1>9
<1>11. Up(Sorted(s))
  <2> DEFINE u == [m \in 1..n |-> s[v[m]]]
  <2>1. Len(u) = n /\ Sorted(s) = u
    BY <1>9, <1>10
  <2>2. \A i, j \in 1..n : i < j => u[i] <= u[j]
    BY <1>9b
  <2> HIDE DEF u
  <2> QED
    BY <2>1, <2>2 DEF Up
<1>12. \A i \in 1..n : \E j \in 1..n : Sorted(s)[i] = s[j]
  BY <1>9, <1>9a
<1> QED
  BY <1>9, <1>10, <1>11, <1>12 DEF n

\* Where the loop of batch() stands: at an item.
Into == {x \in [items : Seq(Item), item : Nat] : x.item < Len(x.items)}

LEMMA InsertStep ==
  ASSUME NEW x \in Into, NEW v \in Int
  PROVE  Insert(x, v) \in Into /\ Weights(Insert(x, v).items) = Weights(x.items) + 1
<1> DEFINE s == x.items
           n == Len(s)
           P == {i \in x.item..(n - 1) : i = n - 1 \/ At(s, i).value >= v}
           item == Min(P)
           idx == IF At(s, item).value > v THEN item ELSE item + 1
           delta == IF idx = 1 \/ idx + 1 = n THEN 0 ELSE ErrorBound(n, idx + 1) \div Scale + 1
           new == [value |-> v, g |-> 1, delta |-> delta]
           t == InsertAt(s, idx + 1, new)
<1>1. Insert(x, v) = [items |-> t, item |-> idx]
  BY DEF Insert
<1>2. s \in Seq(Item) /\ x.item \in Nat /\ x.item < n /\ n \in Nat
  BY DEF Into
<1>3. item \in Nat /\ item <= n - 1
  <2>1. P \subseteq Nat /\ n - 1 \in P
    BY <1>2
  <2>2. \A i \in P : i <= n - 1
    BY <1>2
  <2> HIDE DEF P
  <2>3. \E m \in P : \A k \in P : m <= k
    BY <2>1, Least
  <2>4. item \in P
    BY <2>3 DEF Min
  <2> QED
    BY <2>1, <2>2, <2>4
<1> HIDE DEF item
<1>4. idx \in Nat /\ idx <= n
  BY <1>2, <1>3
<1> HIDE DEF idx
<1>5. delta \in Int
  <2>1. ErrorBound(n, idx + 1) \in Int
    <3>1. n \in Int /\ idx + 1 \in Int
      BY <1>2, <1>4
    <3> HIDE DEF n
    <3> QED
      BY <3>1, ErrorBoundInt
  <2>2. ErrorBound(n, idx + 1) \div Scale \in Int
    BY <2>1, Quotient, SketchOK
  <2> QED
    BY <2>2
<1> HIDE DEF delta
<1>6. new \in Item /\ new.g = 1
  BY <1>5 DEF Item
<1> HIDE DEF new
<1>7. idx + 1 \in 1..(n + 1)
  BY <1>2, <1>4
<1>8. t \in Seq(Item) /\ Len(t) = n + 1
  <2> HIDE DEF s
  <2> QED
    BY <1>2, <1>6, <1>7, InsertAtItems
<1>9. Weights(t) = Weights(s) + 1
  <2> HIDE DEF s
  <2>1. Weights(t) = Weights(s) + new.g
    BY <1>2, <1>6, <1>7, InsertWeight
  <2> QED
    BY <1>6, <2>1
<1> HIDE DEF t
<1>10. [items |-> t, item |-> idx] \in Into
  BY <1>2, <1>4, <1>8 DEF Into
<1> QED
  BY <1>1, <1>9, <1>10

\* The place found for v keeps the items in order, if none that is passed over is
\* larger.
LEMMA InsertOrder ==
  ASSUME NEW x \in Into, NEW v \in Int, Ordered(x.items), Below(x.items, x.item, v),
         NEW S, ValuesIn(x.items, S), v \in S
  PROVE  /\ Ordered(Insert(x, v).items) /\ ValuesIn(Insert(x, v).items, S)
         /\ Below(Insert(x, v).items, Insert(x, v).item, v)
<1> DEFINE s == x.items
           n == Len(s)
           P == {i \in x.item..(n - 1) : i = n - 1 \/ At(s, i).value >= v}
           item == Min(P)
           idx == IF At(s, item).value > v THEN item ELSE item + 1
           delta == IF idx = 1 \/ idx + 1 = n THEN 0 ELSE ErrorBound(n, idx + 1) \div Scale + 1
           new == [value |-> v, g |-> 1, delta |-> delta]
           t == InsertAt(s, idx + 1, new)
<1>1. Insert(x, v) = [items |-> t, item |-> idx]
  BY DEF Insert
<1>2. /\ s \in Seq(Item) /\ x.item \in Nat /\ x.item < n /\ n \in Nat
      /\ \A i \in 1..n : s[i].value \in Int
  <2>1. s \in Seq(Item) /\ x.item \in Nat /\ x.item < n /\ n \in Nat
    BY DEF Into
  <2>2. \A i \in 1..n : s[i] \in Item
    BY <2>1, ElementOfSeq
  <2> QED
    BY <2>1, <2>2 DEF Item
<1>3. item \in P /\ \A k \in P : item <= k
  <2>1. P \subseteq Nat /\ n - 1 \in P
    BY <1>2
  <2> HIDE DEF P
  <2>2. \E m \in P : \A k \in P : m <= k
    BY <2>1, Least
  <2> QED
    BY <2>2 DEF Min
<1> HIDE DEF item
<1>4. item \in x.item..(n - 1) /\ (item = n - 1 \/ s[item + 1].value >= v)
  BY <1>3 DEF At
<1>5. \A i \in x.item..(item - 1) : s[i + 1].value < v
  <2> SUFFICES ASSUME NEW i \in x.item..(item - 1) PROVE s[i + 1].value < v
    OBVIOUS
  <2>1. i \notin P
    BY <1>2, <1>3, <1>4
  <2>2. i \in x.item..(n - 1) /\ i # n - 1 /\ i + 1 \in 1..n
    BY <1>2, <1>4
  <2>3. ~(s[i + 1].value >= v)
    BY <2>1, <2>2 DEF At
  <2> QED
    BY <1>2, <2>2, <2>3
<1> HIDE DEF P
<1>6. /\ idx \in Nat /\ idx <= n
      /\ (idx = item /\ s[item + 1].value > v) \/ (idx = item + 1 /\ s[item + 1].value <= v)
  <2>1. item + 1 \in 1..n
    BY <1>2, <1>4
  <2>2. s[item + 1].value \in Int
    BY <1>2, <2>1
  <2> QED
    BY <1>2, <1>4, <2>2 DEF At
<1> HIDE DEF idx
<1>7. delta \in Int
  <2>1. ErrorBound(n, idx + 1) \in Int
    <3>1. n \in Int /\ idx + 1 \in Int
      BY <1>2, <1>6
    <3> HIDE DEF n
    <3> QED
      BY <3>1, ErrorBoundInt
  <2>2. ErrorBound(n, idx + 1) \div Scale \in Int
    BY <2>1, Quotient, SketchOK
  <2> QED
    BY <2>2
<1> HIDE DEF delta
<1>8. new \in Item /\ new.value = v
  BY <1>7 DEF Item
<1> HIDE DEF new, t
<1>9. Below(s, item, v)
  <2> SUFFICES ASSUME NEW i \in 1..item PROVE s[i].value <= v
    BY DEF Below
  <2>1. i \in 1..n /\ s[i].value \in Int
    BY <1>2, <1>4
  <2>2. CASE i <= x.item
    <3>1. i \in 1..x.item
      BY <2>2, <1>2
    <3> QED
      BY <3>1 DEF Below
  <2>3. CASE ~(i <= x.item)
    <3>1. i - 1 \in x.item..(item - 1) /\ (i - 1) + 1 = i
      BY <1>2, <1>4, <2>3
    <3>2. s[(i - 1) + 1].value < v
      BY <1>5, <3>1
    <3> QED
      BY <2>1, <3>1, <3>2
  <2> QED
    BY <2>2, <2>3
<1>10. Below(s, idx, v)
  <2> SUFFICES ASSUME NEW i \in 1..idx PROVE s[i].value <= v
    BY DEF Below
  <2>1. i \in 1..item \/ (i = item + 1 /\ s[item + 1].value <= v)
    BY <1>2, <1>4, <1>6
  <2> QED
    BY <1>9, <2>1 DEF Below
<1>11. Above(s, idx + 1, v)
  <2> SUFFICES ASSUME NEW i \in (idx + 1)..n PROVE v <= s[i].value
    BY DEF Above
  <2>1. i \in 1..n /\ item + 1 \in 1..n /\ item + 1 <= i
    BY <1>2, <1>4, <1>6
  <2>2. s[item + 1].value <= s[i].value
    <3>1. CASE i = item + 1
      BY <1>2, <2>1, <3>1
    <3>2. CASE i # item + 1
      <4>1. item + 1 < i
        BY <2>1, <3>2
      <4> QED
        BY <2>1, <4>1 DEF Ordered
    <3> QED
      BY <3>1, <3>2
  <2>3. s[item + 1].value \in Int /\ s[i].value \in Int
    BY <1>2, <2>1
  <2>4. v <= s[item + 1].value
    <3>1. CASE idx = item
      BY <1>6, <2>3, <3>1
    <3>2. CASE idx = item + 1
      <4>1. item # n - 1
        BY <1>2, <1>4, <3>2
      <4> QED
        BY <1>4, <2>3, <4>1
    <3> QED
      BY <1>6, <3>1, <3>2
  <2> QED
    BY <2>2, <2>3, <2>4
<1>12. Ordered(t) /\ ValuesIn(t, S) /\ Below(t, idx, v)
  <2> DEFINE k == idx + 1
  <2>1. k \in 1..(n + 1) /\ k - 1 = idx
    BY <1>2, <1>6
  <2>2. /\ Below(s, k - 1, new.value) /\ Above(s, k, new.value) /\ new.value \in S
        /\ Ordered(s) /\ ValuesIn(s, S)
    BY <1>8, <1>10, <1>11, <2>1
  <2>3. t = InsertAt(s, k, new)
    BY DEF t
  <2> HIDE DEF k, s
  <2>4. Ordered(t) /\ ValuesIn(t, S) /\ Below(t, k - 1, new.value)
    BY <1>2, <1>8, <2>1, <2>2, <2>3, InsertOrdered
  <2> QED
    BY <1>8, <2>1, <2>4
<1> QED
  BY <1>1, <1>12

LEMMA InsertedKeeps ==
  ASSUME NEW start \in Into, NEW values \in Seq(Int), start.item = 0, Ordered(start.items),
         Up(values), NEW S, ValuesIn(start.items, S), Among(values, S)
  PROVE  LET into == Inserted(start, values)
         IN /\ into \in Into /\ Weights(into.items) = Weights(start.items) + Len(values)
            /\ Ordered(into.items) /\ ValuesIn(into.items, S)
<1> DEFINE k == Len(values)
           step == [n \in 1..k |-> [x \in Into |-> Insert(x, values[n])]]
           Solves(f) == f = [n \in 0..k |-> IF n = 0 THEN start ELSE Insert(f[n - 1], values[n])]
<1>1. k \in Nat /\ \A n \in 1..k : values[n] \in Int
  BY ElementOfSeq
<1>2. step \in [1..k -> [Into -> Into]]
  <2>1. \A n \in 1..k : \A x \in Into : Insert(x, values[n]) \in Into
    BY <1>1, InsertStep
  <2> HIDE DEF k
  <2> QED
    BY <2>1
<1>3. PICK f \in [0..k -> Into] : f[0] = start /\ \A n \in 1..k : f[n] = step[n][f[n - 1]]
  <2> DEFINE Z == Into
             z == start
  <2>1. k \in Nat /\ z \in Z /\ step \in [1..k -> [Z -> Z]]
    BY <1>1, <1>2
  <2> HIDE DEF step, k, Z, z, Solves
  <2>2. \E f \in [0..k -> Z] : Runs(f, z, step, k)
    BY <2>1, Recursion
  <2> QED
    BY <2>2 DEF Z, z, Runs
<1>4. Solves(f)
  <2>1. \A n \in 1..k : f[n] = Insert(f[n - 1], values[n])
    <3> SUFFICES ASSUME NEW n \in 1..k PROVE f[n] = Insert(f[n - 1], values[n])
      OBVIOUS
    <3>1. f[n - 1] \in Into
      BY <1>1
    <3> QED
      BY <1>3, <3>1
  <2>2. \A n \in 0..k : f[n] = IF n = 0 THEN start ELSE Insert(f[n - 1], values[n])
    <3> SUFFICES ASSUME NEW n \in 0..k
                 PROVE  f[n] = IF n = 0 THEN start ELSE Insert(f[n - 1], values[n])
      OBVIOUS
    <3>1. n = 0 \/ n \in 1..k
      BY <1>1
    <3> QED
      BY <1>3, <2>1, <3>1
  <2> QED
    BY <2>2
<1>5. Inserted(start, values) = (CHOOSE h : Solves(h))[k]
  BY DEF Inserted
<1> DEFINE r == CHOOSE h : Solves(h)
<1>6. Solves(r)
  <2> HIDE DEF Solves
  <2> QED
    BY <1>4
<1> HIDE DEF r, step
<1>7. r[0] = start /\ \A n \in 1..k : r[n] = Insert(r[n - 1], values[n])
  BY <1>1, <1>6
<1> HIDE DEF Solves, k
<1> DEFINE Passes(n) == \A m \in (n + 1)..k : Below(r[n].items, r[n].item, values[m])
           D == {n \in 0..k : /\ r[n] \in Into
                              /\ Weights(r[n].items) = Weights(start.items) + n
                              /\ Ordered(r[n].items) /\ ValuesIn(r[n].items, S)
                              /\ Passes(n)}
<1>8. Weights(start.items) \in Int
  <2>1. start.items \in Seq(Item)
    BY DEF Into
  <2>2. Len(start.items) \in 0..Len(start.items)
    BY <2>1
  <2> QED
    BY <2>1, <2>2, RanksDef DEF Weights
<1>9. 0 \in D
  <2>1. r[0] = start /\ Weights(start.items) + 0 = Weights(start.items) /\ 0 \in 0..k
    BY <1>1, <1>7, <1>8
  <2>2. \A m \in 1..k : Below(start.items, 0, values[m])
    BY DEF Below
  <2>3. Passes(0)
    BY <1>1, <2>1, <2>2
  <2> QED
    BY <2>1, <2>3
<1>10. ASSUME NEW n \in 1..k, n - 1 \in D PROVE n \in D
  <2> DEFINE a == Weights(start.items)
             x == r[n - 1]
             w == Weights(x.items)
  <2>1. x \in Into /\ w = a + (n - 1) /\ a \in Int
    BY <1>8, <1>10
  <2>2. r[n] = Insert(x, values[n]) /\ values[n] \in Int
    BY <1>1, <1>7
  <2> HIDE DEF a, x, w
  <2>3. r[n] \in Into /\ Weights(r[n].items) = w + 1
    BY <2>1, <2>2, InsertStep DEF w
  <2>4. Weights(r[n].items) = a + n /\ n \in 0..k
    BY <1>1, <2>1, <2>3
  <2> DEFINE v == values[n]
  <2>5. /\ v \in Int /\ v \in S /\ Ordered(x.items) /\ ValuesIn(x.items, S)
        /\ Below(x.items, x.item, v)
    <3>1. n \in ((n - 1) + 1)..k
      BY <1>1
    <3> QED
      BY <1>10, <2>2, <3>1 DEF Among, x, k
  <2> HIDE DEF v
  <2>6. Ordered(r[n].items) /\ ValuesIn(r[n].items, S) /\ Below(r[n].items, r[n].item, v)
    <3>1. r[n] = Insert(x, v)
      BY <2>2 DEF v
    <3> QED
      BY <2>1, <2>5, <3>1, InsertOrder
  <2>7. Passes(n)
    <3> SUFFICES ASSUME NEW m \in (n + 1)..k PROVE Below(r[n].items, r[n].item, values[m])
      OBVIOUS
    <3>1. v <= values[m] /\ values[m] \in Int
      <4>1. n \in 1..k /\ m \in 1..k /\ n < m
        BY <1>1
      <4> QED
        BY <1>1, <4>1 DEF Up, v, k
    <3> DEFINE s == r[n].items
               l == r[n].item
               u == values[m]
    <3>2. s \in Seq(Item) /\ l \in Nat /\ l < Len(s)
      BY <2>3 DEF Into
    <3>3. \A i \in 1..l : s[i].value \in Int
      <4>1. \A i \in 1..l : i \in 1..Len(s)
        BY <3>2
      <4>2. \A i \in 1..Len(s) : s[i] \in Item
        BY <3>2, ElementOfSeq
      <4> HIDE DEF s, l
      <4> QED
        BY <4>1, <4>2 DEF Item
    <3>4. u \in Int /\ v <= u /\ Below(s, l, v)
      BY <2>6, <3>1
    <3> HIDE DEF s, l, u
    <3>5. Below(s, l, u)
      BY <2>5, <3>3, <3>4 DEF Below
    <3> QED
      BY <3>5 DEF s, l, u
  <2> HIDE DEF Passes
  <2> QED
    BY <2>3, <2>4, <2>6, <2>7 DEF a
<1>11. \A n \in 0..k : n \in D
  <2> HIDE DEF D
  <2> QED
    BY <1>1, <1>9, <1>10, InductionUpTo
<1>12. k \in D
  BY <1>1, <1>11
<1> QED
  BY <1>5, <1>12 DEF r, k


LEMMA SomeWeights ==
  /\ Weights(<<>>) = 0
  /\ \A x \in Item : <<x>> \in Seq(Item) /\ Weights(<<x>>) = x.g
  /\ \A s \in Seq(Item) : Weights(s) \in Int
<1>1. Weights(<<>>) = 0
  <2>1. <<>> \in Seq(Item) /\ Len(<<>>) = 0
    OBVIOUS
  <2> QED
    BY <2>1, RanksDef DEF Weights
<1>2. ASSUME NEW x \in Item PROVE <<x>> \in Seq(Item) /\ Weights(<<x>>) = x.g
  <2> DEFINE s == <<x>>
  <2>1. s \in Seq(Item) /\ Len(s) = 1 /\ s[1] = x /\ x.g \in Int
    BY DEF Item
  <2> HIDE DEF s
  <2>2. Ranks(s)[0] = 0 /\ \A n \in 1..Len(s) : Ranks(s)[n] = Ranks(s)[n - 1] + s[n].g
    BY <2>1, RanksDef
  <2>3. 1 \in 1..Len(s) /\ 1 - 1 = 0
    BY <2>1
  <2>4. Ranks(s)[1] = Ranks(s)[0] + s[1].g
    BY <2>2, <2>3
  <2>5. Weights(s) = x.g
    BY <2>1, <2>2, <2>4 DEF Weights
  <2> QED
    BY <2>1, <2>5 DEF s
<1>3. ASSUME NEW s \in Seq(Item) PROVE Weights(s) \in Int
  <2>1. Len(s) \in 0..Len(s)
    OBVIOUS
  <2> QED
    BY <2>1, RanksDef DEF Weights
<1> QED
  BY <1>1, <1>2, <1>3

\* The items of a sketch ascend, and their weights add up to its count.
Sound(b) == b \in Bucket /\ Weights(b.items) = b.count /\ Ordered(b.items)

\* It has no values but those in S.
Of(b, S) == ValuesIn(b.items, S) /\ Among(b.buffer, S)

\* The observations that were made of it.
Observed(b) == b.count + Len(b.buffer)

LEMMA BatchKeeps ==
  ASSUME NEW b, Sound(b), NEW S, Of(b, S)
  PROVE  /\ Sound(Batch(b)) /\ Of(Batch(b), S)
         /\ Batch(b).buffer = <<>> /\ Batch(b).count = Observed(b)
<1>0. /\ b \in Bucket /\ b.items \in Seq(Item) /\ b.buffer \in Seq(Int) /\ b.count \in Int
      /\ Weights(b.items) = b.count /\ Len(b.buffer) \in Nat
      /\ Ordered(b.items) /\ ValuesIn(b.items, S) /\ Among(b.buffer, S)
  BY DEF Sound, Bucket, Of
<1>1. CASE b.buffer = <<>>
  <2>1. Batch(b) = b /\ Len(b.buffer) = 0
    BY <1>1 DEF Batch
  <2> QED
    BY <1>0, <1>1, <2>1 DEF Observed
<1>2. CASE b.buffer # <<>>
  <2> DEFINE sorted == Sorted(b.buffer)
             first  == [value |-> sorted[1], g |-> 1, delta |-> 0]
             empty  == [items |-> <<first>>, item |-> 0]
             some   == [items |-> b.items, item |-> 0]
             start  == IF b.items = <<>> THEN empty ELSE some
             rest   == IF b.items = <<>> THEN Tail(sorted) ELSE sorted
             res    == [items |-> Inserted(start, rest).items, buffer |-> <<>>,
                        count |-> b.count + Len(sorted)]
  <2>1. Batch(b) = res
    BY <1>2, Zenon DEF Batch
  <2>2. /\ sorted \in Seq(Int) /\ Len(sorted) = Len(b.buffer) /\ Up(sorted)
        /\ \A i \in 1..Len(b.buffer) : \E j \in 1..Len(b.buffer) : sorted[i] = b.buffer[j]
    BY <1>0, SortedType
  <2>2a. Among(sorted, S)
    BY <1>0, <2>2 DEF Among
  <2>3. Len(b.buffer) > 0
    BY <1>0, <1>2
  <2> HIDE DEF sorted
  <2>4. first \in Item /\ first.g = 1 /\ first.value \in S
    <3>1. 1 \in 1..Len(sorted)
      BY <1>0, <2>2, <2>3
    <3>2. sorted[1] \in Int /\ sorted[1] \in S
      BY <2>2, <2>2a, <3>1, ElementOfSeq DEF Among
    <3> QED
      BY <3>2 DEF Item
  <2>5. /\ start \in Into /\ start.item = 0 /\ rest \in Seq(Int)
        /\ Weights(start.items) + Len(rest) = b.count + Len(sorted)
        /\ Ordered(start.items) /\ ValuesIn(start.items, S) /\ Up(rest) /\ Among(rest, S)
    <3>1. CASE b.items = <<>>
      <4>1. start = empty /\ rest = Tail(sorted)
        BY <3>1
      <4>2. <<first>> \in Seq(Item) /\ Weights(<<first>>) = 1
        <5> HIDE DEF first
        <5> QED
          BY <2>4, SomeWeights
      <4>3. b.count = 0
        BY <1>0, <3>1, SomeWeights
      <4>4. /\ Tail(sorted) \in Seq(Int) /\ Len(Tail(sorted)) = Len(sorted) - 1
            /\ Up(Tail(sorted)) /\ Among(Tail(sorted), S)
        <5> DEFINE l == Len(sorted)
                   u == Tail(sorted)
        <5>1. sorted # <<>> /\ l \in Nat
          BY <2>2, <2>3
        <5>2. u \in Seq(Int) /\ Len(u) = l - 1 /\ \A i \in 1..Len(u) : u[i] = sorted[i + 1]
          BY <2>2, <5>1, HeadTailProperties
        <5> HIDE DEF u
        <5>3. \A i \in 1..Len(u) : i + 1 \in 1..l /\ u[i] = sorted[i + 1]
          BY <5>1, <5>2
        <5>4. Among(u, S)
          BY <2>2a, <5>3 DEF Among
        <5>5. Up(u)
          <6> SUFFICES ASSUME NEW i \in 1..Len(u), NEW j \in 1..Len(u), i < j
                       PROVE  u[i] <= u[j]
            BY DEF Up
          <6>1. i + 1 \in 1..l /\ j + 1 \in 1..l /\ i + 1 < j + 1
            BY <5>3
          <6>2. sorted[i + 1] <= sorted[j + 1]
            BY <2>2, <6>1 DEF Up
          <6> QED
            BY <5>3, <6>2
        <5> QED
          BY <5>2, <5>4, <5>5 DEF u
      <4>5. empty \in Into
        <5> HIDE DEF first
        <5>1. Len(<<first>>) = 1
          OBVIOUS
        <5> QED
          BY <4>2, <5>1 DEF Into
      <4>6. Weights(empty.items) + Len(Tail(sorted)) = b.count + Len(sorted)
        <5>1. empty.items = <<first>>
          OBVIOUS
        <5> HIDE DEF empty, first
        <5> QED
          BY <1>0, <2>2, <4>2, <4>3, <4>4, <5>1
      <4>7. empty.item = 0 /\ Ordered(empty.items) /\ ValuesIn(empty.items, S)
        <5>1. empty.item = 0 /\ empty.items = <<first>>
          OBVIOUS
        <5> HIDE DEF first, empty
        <5>2. Len(<<first>>) = 1 /\ <<first>>[1] = first
          OBVIOUS
        <5>3. \A i \in 1..1 : i = 1
          OBVIOUS
        <5>4. \A i \in 1..Len(<<first>>) : i = 1 /\ <<first>>[i] = first
          BY <5>2, <5>3
        <5>5. ValuesIn(<<first>>, S)
          BY <2>4, <5>4 DEF ValuesIn
        <5>6. Ordered(<<first>>)
          <6> SUFFICES ASSUME NEW i \in 1..Len(<<first>>), NEW j \in 1..Len(<<first>>), i < j
                       PROVE  FALSE
            BY DEF Ordered
          <6>1. i = 1 /\ j = 1
            BY <5>4
          <6> QED
            BY <6>1
        <5> QED
          BY <5>1, <5>5, <5>6
      <4> HIDE DEF start, rest, empty
      <4> QED
        BY <4>1, <4>4, <4>5, <4>6, <4>7
    <3>2. CASE b.items # <<>>
      <4>1. start = some /\ rest = sorted /\ some.items = b.items
        BY <3>2
      <4>2. some \in Into /\ some.item = 0
        BY <1>0, <3>2 DEF Into
      <4> HIDE DEF start, rest, some
      <4> QED
        BY <1>0, <2>2, <2>2a, <4>1, <4>2
    <3> QED
      BY <3>1, <3>2
  <2> HIDE DEF start, rest
  <2> DEFINE t == Inserted(start, rest).items
  <2>6. /\ t \in Seq(Item) /\ Weights(t) = b.count + Len(sorted)
        /\ Ordered(t) /\ ValuesIn(t, S)
    <3>1. /\ Inserted(start, rest) \in Into /\ Weights(t) = Weights(start.items) + Len(rest)
          /\ Ordered(t) /\ ValuesIn(t, S)
      BY <2>5, InsertedKeeps
    <3> QED
      BY <2>5, <3>1 DEF Into
  <2>7. b.count + Len(sorted) \in Int /\ b.count + Len(sorted) = Observed(b)
    BY <1>0, <2>2 DEF Observed
  <2>8. res.items = t /\ res.buffer = <<>> /\ res.count = b.count + Len(sorted)
    OBVIOUS
  <2>9. res \in Bucket
    <3> HIDE DEF t
    <3>1. <<>> \in Seq(Int)
      OBVIOUS
    <3> QED
      BY <2>6, <2>7, <3>1 DEF Bucket, t
  <2>10. Among(res.buffer, S)
    <3>1. res.buffer = <<>> /\ Len(<<>>) = 0
      OBVIOUS
    <3> HIDE DEF res
    <3> QED
      BY <3>1 DEF Among
  <2> HIDE DEF res, t
  <2> QED
    BY <2>1, <2>6, <2>7, <2>8, <2>9, <2>10 DEF Sound, Of
<1> QED
  BY <1>1, <1>2

\* Merging two items, or none, keeps the weights and the order.
LEMMA MergeStep ==
  ASSUME NEW s \in Seq(Item), NEW prev \in Nat
  PROVE  /\ Merge(s, prev) \in Seq(Item) /\ Weights(Merge(s, prev)) = Weights(s)
         /\ Ordered(s) => Ordered(Merge(s, prev))
         /\ \A S : Ordered(s) /\ ValuesIn(s, S) => ValuesIn(Merge(s, prev), S)
<1> DEFINE k == prev + 1
           w == s[k].g + s[k + 1].g
           t == RemoveAt([s EXCEPT ![k + 1].g = w], k)
<1>1. Merge(s, prev) \in {s, t} /\ (Merge(s, prev) = t => k < Len(s) \/ t = s)
  <2>1. /\ At(s, prev).g + At(s, prev + 1).g = w
        /\ RemoveAt([s EXCEPT ![prev + 1 + 1].g = w], prev + 1) = t
    BY DEF At
  <2> QED
    BY <2>1 DEF Merge, At
<1>2. CASE k < Len(s)
  <2>1. k \in 1..(Len(s) - 1) /\ k \in 1..Len(s) /\ k + 1 \in 1..Len(s)
    BY <1>2
  <2>2. w \in Int
    BY <2>1, ItemAt
  <2>3. t \in Seq(Item)
    <3> HIDE DEF k, w
    <3> QED
      BY <2>1, <2>2, MergeItems
  <2>4. Weights(t) = Weights(s)
    <3> HIDE DEF k
    <3> QED
      BY <2>1, MergeWeight
  <2>5. ASSUME Ordered(s), NEW S, ValuesIn(s, S) PROVE Ordered(t) /\ ValuesIn(t, S)
    <3> HIDE DEF k, w
    <3> QED
      BY <2>1, <2>2, <2>5, MergeOrdered
  <2>6. Ordered(s) => Ordered(t)
    <3> DEFINE all == {s[i].value : i \in 1..Len(s)}
    <3>1. ValuesIn(s, all)
      BY DEF ValuesIn
    <3> HIDE DEF all, t
    <3> QED
      BY <2>5, <3>1
  <2> HIDE DEF t
  <2> QED
    BY <1>1, <2>3, <2>4, <2>5, <2>6
<1>3. CASE ~(k < Len(s))
  <2> HIDE DEF t
  <2> QED
    BY <1>1, <1>3
<1> QED
  BY <1>2, <1>3

LEMMA MergedKeeps ==
  ASSUME NEW s \in Seq(Item), Ordered(s), NEW S, ValuesIn(s, S)
  PROVE  /\ Merged(s) \in Seq(Item) /\ Weights(Merged(s)) = Weights(s)
         /\ Ordered(Merged(s)) /\ ValuesIn(Merged(s), S)
<1> DEFINE k == Len(s)
           Z == Seq(Item)
           step == [n \in 1..k |-> [x \in Z |-> Merge(x, n - 1)]]
           Solves(f) == f = [n \in 0..k |-> IF n = 0 THEN s ELSE Merge(f[n - 1], n - 1)]
<1>1. k \in Nat
  OBVIOUS
<1>2. step \in [1..k -> [Z -> Z]]
  <2>1. \A n \in 1..k : \A x \in Seq(Item) : Merge(x, n - 1) \in Seq(Item)
    BY <1>1, MergeStep
  <2> HIDE DEF k, Z
  <2> QED
    BY <2>1 DEF Z
<1>3. PICK f \in [0..k -> Z] : Runs(f, s, step, k)
  <2>1. s \in Z
    OBVIOUS
  <2> HIDE DEF step, k, Z, Solves
  <2> QED
    BY <1>1, <1>2, <2>1, Recursion
<1>4. Solves(f)
  <2>1. \A n \in 1..k : f[n] = Merge(f[n - 1], n - 1)
    <3> SUFFICES ASSUME NEW n \in 1..k PROVE f[n] = Merge(f[n - 1], n - 1)
      OBVIOUS
    <3>1. n - 1 \in 0..k
      BY <1>1
    <3>2. f[n - 1] \in Z
      <4> HIDE DEF k, Z
      <4> QED
        BY <3>1
    <3> HIDE DEF k, Z
    <3> QED
      BY <1>3, <3>2 DEF Runs
  <2>2. \A n \in 0..k : f[n] = IF n = 0 THEN s ELSE Merge(f[n - 1], n - 1)
    <3> SUFFICES ASSUME NEW n \in 0..k
                 PROVE  f[n] = IF n = 0 THEN s ELSE Merge(f[n - 1], n - 1)
      OBVIOUS
    <3>1. n = 0 \/ n \in 1..k
      BY <1>1
    <3> HIDE DEF Z
    <3> QED
      BY <1>3, <2>1, <3>1 DEF Runs
  <2> HIDE DEF k, Z
  <2> QED
    BY <2>2
<1>5. Merged(s) = (CHOOSE h : Solves(h))[k]
  BY DEF Merged
<1> DEFINE r == CHOOSE h : Solves(h)
<1>6. Solves(r)
  <2> HIDE DEF Solves
  <2> QED
    BY <1>4
<1> HIDE DEF r, step
<1>7. r[0] = s /\ \A n \in 1..k : r[n] = Merge(r[n - 1], n - 1)
  BY <1>1, <1>6
<1> HIDE DEF Solves, k, Z
<1> DEFINE D == {n \in 0..k : /\ r[n] \in Seq(Item) /\ Weights(r[n]) = Weights(s)
                              /\ Ordered(r[n]) /\ ValuesIn(r[n], S)}
<1>8. 0 \in D
  BY <1>1, <1>7
<1>9. ASSUME NEW n \in 1..k, n - 1 \in D PROVE n \in D
  <2> DEFINE x == r[n - 1]
  <2>1. /\ x \in Seq(Item) /\ Weights(x) = Weights(s) /\ r[n] = Merge(x, n - 1)
        /\ Ordered(x) /\ ValuesIn(x, S)
    BY <1>7, <1>9
  <2>2. n - 1 \in Nat /\ n \in 0..k
    BY <1>1
  <2> HIDE DEF x
  <2>3. /\ r[n] \in Seq(Item) /\ Weights(r[n]) = Weights(s)
        /\ Ordered(r[n]) /\ ValuesIn(r[n], S)
    BY <2>1, <2>2, MergeStep
  <2> QED
    BY <2>2, <2>3
<1>10. \A n \in 0..k : n \in D
  <2> HIDE DEF D
  <2> QED
    BY <1>1, <1>8, <1>9, InductionUpTo
<1>11. k \in D
  BY <1>1, <1>10
<1> QED
  BY <1>5, <1>11 DEF r, k

LEMMA CompressKeeps ==
  ASSUME NEW b, Sound(b), NEW S, Of(b, S)
  PROVE  /\ Sound(Compress(b)) /\ Of(Compress(b), S)
         /\ Compress(b).buffer = b.buffer /\ Compress(b).count = b.count
<1>1. /\ b \in Bucket /\ b.items \in Seq(Item) /\ b.buffer \in Seq(Int) /\ b.count \in Int
      /\ Weights(b.items) = b.count /\ Ordered(b.items) /\ ValuesIn(b.items, S)
  BY DEF Sound, Bucket, Of
<1>2. /\ Merged(b.items) \in Seq(Item) /\ Weights(Merged(b.items)) = Weights(b.items)
      /\ Ordered(Merged(b.items)) /\ ValuesIn(Merged(b.items), S)
  BY <1>1, MergedKeeps
<1>3. /\ Compress(b).items = Merged(b.items) /\ Compress(b).buffer = b.buffer
      /\ Compress(b).count = b.count /\ Compress(b) \in Bucket
  BY <1>1, <1>2 DEF Compress, Bucket
<1> QED
  BY <1>1, <1>2, <1>3 DEF Sound, Of

\* An observation is held once more and nothing else changes.
LEMMA ObserveKeeps ==
  ASSUME NEW b, Sound(b), NEW v \in Int, NEW S, Of(b, S), v \in S
  PROVE  /\ Sound(ObserveBucket(b, v)) /\ Of(ObserveBucket(b, v), S)
         /\ Observed(ObserveBucket(b, v)) = Observed(b) + 1
<1> DEFINE more == [b EXCEPT !.buffer = Append(b.buffer, v)]
<1>1. /\ b \in Bucket /\ b.items \in Seq(Item) /\ b.buffer \in Seq(Int) /\ b.count \in Int
      /\ Weights(b.items) = b.count /\ Len(b.buffer) \in Nat
      /\ Ordered(b.items) /\ ValuesIn(b.items, S) /\ Among(b.buffer, S)
  BY DEF Sound, Bucket, Of
<1>2. /\ Append(b.buffer, v) \in Seq(Int) /\ Len(Append(b.buffer, v)) = Len(b.buffer) + 1
      /\ Among(Append(b.buffer, v), S)
  <2> DEFINE l == Len(b.buffer)
             a == Append(b.buffer, v)
  <2>1. /\ a \in Seq(Int) /\ Len(a) = l + 1 /\ a[l + 1] = v
        /\ \A i \in 1..l : a[i] = b.buffer[i]
    BY <1>1, AppendProperties
  <2> HIDE DEF a
  <2>2. \A i \in 1..(l + 1) : i \in 1..l \/ i = l + 1
    BY <1>1
  <2>3. Among(a, S)
    BY <1>1, <2>1, <2>2 DEF Among
  <2> QED
    BY <2>1, <2>3 DEF a
<1>3. /\ more.items = b.items /\ more.count = b.count /\ more.buffer = Append(b.buffer, v)
      /\ more \in Bucket
  BY <1>1, <1>2 DEF Bucket
<1>4. ObserveBucket(b, v) = IF Len(more.buffer) = BufferSize THEN Compress(Batch(more)) ELSE more
  BY Zenon DEF ObserveBucket
<1> HIDE DEF more
<1>5. Sound(more) /\ Of(more, S) /\ Observed(more) = Observed(b) + 1
  BY <1>1, <1>2, <1>3 DEF Sound, Of, Observed
<1>6. Observed(more) \in Int
  BY <1>1, <1>5 DEF Observed
<1> DEFINE c == Compress(Batch(more))
<1>7. Sound(c) /\ Of(c, S) /\ c.buffer = <<>> /\ c.count = Observed(more)
  <2>1. /\ Sound(Batch(more)) /\ Of(Batch(more), S)
        /\ Batch(more).buffer = <<>> /\ Batch(more).count = Observed(more)
    BY <1>5, BatchKeeps
  <2> QED
    BY <2>1, CompressKeeps
<1>8. Observed(c) = Observed(more)
  <2>1. Len(<<>>) = 0
    OBVIOUS
  <2> HIDE DEF c
  <2> QED
    BY <1>6, <1>7, <2>1 DEF Observed
<1>9. ObserveBucket(b, v) \in {c, more}
  BY <1>4
<1> HIDE DEF c
<1> QED
  BY <1>5, <1>7, <1>8, <1>9

\* Whatever is read from the copy of a scrape, it has all that was observed.
LEMMA ScrapedKeeps ==
  ASSUME NEW b, Sound(b), NEW S, Of(b, S), NEW k \in Nat
  PROVE  /\ Sound(Scraped(b, k)) /\ Of(Scraped(b, k), S)
         /\ Scraped(b, k).count = Observed(b)
<1> DEFINE Z == {x \in Bucket : Sound(x) /\ Of(x, S) /\ x.count = Observed(b)}
           z == Batch(b)
           step == [n \in 1..k |-> [x \in Z |-> Compress(x)]]
           Solves(f) == f = [n \in 0..k |-> IF n = 0 THEN z ELSE Compress(f[n - 1])]
<1>1. z \in Z
  BY BatchKeeps DEF Sound
<1>2. \A x \in Z : Compress(x) \in Z
  <2> SUFFICES ASSUME NEW x, Sound(x), Of(x, S), x.count = Observed(b)
               PROVE  Compress(x) \in Z
    OBVIOUS
  <2>1. Sound(Compress(x)) /\ Of(Compress(x), S) /\ Compress(x).count = x.count
    BY CompressKeeps
  <2> QED
    BY <2>1 DEF Sound
<1> HIDE DEF Z, z
<1>3. step \in [1..k -> [Z -> Z]]
  BY <1>2
<1>4. PICK f \in [0..k -> Z] : Runs(f, z, step, k)
  <2> HIDE DEF step, Solves
  <2> QED
    BY <1>1, <1>3, Recursion
<1>5. Solves(f)
  <2>1. \A n \in 1..k : f[n] = Compress(f[n - 1])
    <3> SUFFICES ASSUME NEW n \in 1..k PROVE f[n] = Compress(f[n - 1])
      OBVIOUS
    <3>1. n - 1 \in 0..k
      OBVIOUS
    <3>2. f[n - 1] \in Z
      BY <3>1
    <3> QED
      BY <1>4, <3>2 DEF Runs
  <2>2. \A n \in 0..k : f[n] = IF n = 0 THEN z ELSE Compress(f[n - 1])
    <3> SUFFICES ASSUME NEW n \in 0..k
                 PROVE  f[n] = IF n = 0 THEN z ELSE Compress(f[n - 1])
      OBVIOUS
    <3>1. n = 0 \/ n \in 1..k
      OBVIOUS
    <3> QED
      BY <1>4, <2>1, <3>1 DEF Runs
  <2> QED
    BY <2>2
<1>6. Scraped(b, k) = (CHOOSE h : Solves(h))[k]
  BY DEF Scraped, z
<1> DEFINE r == CHOOSE h : Solves(h)
<1>7. Solves(r)
  <2> HIDE DEF Solves
  <2> QED
    BY <1>5
<1> HIDE DEF r, step
<1>8. r[0] = z /\ \A n \in 1..k : r[n] = Compress(r[n - 1])
  BY <1>7
<1> HIDE DEF Solves
<1> DEFINE D == {n \in 0..k : r[n] \in Z}
<1>9. 0 \in D
  BY <1>1, <1>8
<1>10. ASSUME NEW n \in 1..k, n - 1 \in D PROVE n \in D
  BY <1>2, <1>8, <1>10
<1>11. \A n \in 0..k : n \in D
  <2> HIDE DEF D
  <2> QED
    BY <1>9, <1>10, InductionUpTo
<1>12. k \in D
  BY <1>11
<1> QED
  BY <1>6, <1>12 DEF r, Z

-----------------------------------------------------------------------------
(* Places in a ring of n, and turns.                                        *)

LEMMA Remainder ==
  ASSUME NEW a \in Int, NEW n \in Nat \ {0}
  PROVE  /\ a % n \in 0..(n - 1) /\ a \div n \in Int
         /\ a = (a \div n) * n + (a % n)
OBVIOUS

LEMMA Multiples ==
  ASSUME NEW q \in Int, NEW p \in Int, NEW n \in Nat \ {0}, q < p
  PROVE  q * n + n <= p * n
<1>1. (p - q) - 1 \in Nat /\ n \in Nat
  OBVIOUS
<1>2. ((p - q) - 1) * n \in Nat
  BY <1>1
<1>3. ((p - q) - 1) * n = p * n - (q * n + n)
  OBVIOUS
<1> QED
  BY <1>2, <1>3

LEMMA RemainderUnique ==
  ASSUME NEW n \in Nat \ {0}, NEW q \in Int, NEW p \in Int,
         NEW r \in 0..(n - 1), NEW s \in 0..(n - 1), q * n + r = p * n + s
  PROVE  r = s
<1>1. q * n \in Int /\ p * n \in Int
  OBVIOUS
<1>2. ~(q < p)
  <2> SUFFICES ASSUME q < p PROVE FALSE
    OBVIOUS
  <2>1. q * n + n <= p * n
    BY Multiples
  <2> QED
    BY <1>1, <2>1
<1>3. ~(p < q)
  <2> SUFFICES ASSUME p < q PROVE FALSE
    OBVIOUS
  <2>1. p * n + n <= q * n
    BY Multiples
  <2> QED
    BY <1>1, <2>1
<1> QED
  BY <1>2, <1>3

LEMMA RemainderOf ==
  ASSUME NEW n \in Nat \ {0}, NEW a \in Int, NEW q \in Int, NEW r \in 0..(n - 1), a = q * n + r
  PROVE  a % n = r
<1>1. a % n \in 0..(n - 1) /\ a \div n \in Int /\ a = (a \div n) * n + (a % n)
  BY Remainder
<1> DEFINE s == a % n
           p == a \div n
<1>2. s \in 0..(n - 1) /\ p \in Int /\ p * n + s = q * n + r
  BY <1>1
<1> HIDE DEF s, p
<1>3. s = r
  BY <1>2, RemainderUnique
<1> QED
  BY <1>3 DEF s

\* A step on from a place, and once around.
LEMMA Around ==
  ASSUME NEW n \in Nat \ {0}, NEW a \in Int, NEW c \in Int
  PROVE  ((a % n) + c) % n = (a + c) % n /\ (a + n) % n = a % n
<1> DEFINE m == a % n
           q == a \div n
           r == (m + c) % n
           p == (m + c) \div n
<1>1. m \in 0..(n - 1) /\ q \in Int /\ a = q * n + m
  BY Remainder
<1>2. r \in 0..(n - 1) /\ p \in Int /\ m + c = p * n + r
  <2>1. m + c \in Int
    BY <1>1
  <2> HIDE DEF m
  <2> QED
    BY <2>1, Remainder
<1> HIDE DEF m, q, r, p
<1>3. q * n \in Int /\ p * n \in Int /\ (q + p) * n = q * n + p * n /\ (q + 1) * n = q * n + n
  BY <1>1, <1>2
<1>4. a + c = (q + p) * n + r /\ a + c \in Int /\ q + p \in Int
  BY <1>1, <1>2, <1>3
<1>5. (a + c) % n = r
  BY <1>2, <1>4, RemainderOf
<1>6. a + n = (q + 1) * n + m /\ a + n \in Int /\ q + 1 \in Int
  BY <1>1, <1>3
<1>7. (a + n) % n = m
  BY <1>1, <1>6, RemainderOf
<1> QED
  BY <1>5, <1>7 DEF r, m

LEMMA SamePlace ==
  ASSUME NEW n \in Nat \ {0}, NEW a \in Int, NEW i \in 0..(n - 1), NEW j \in 0..(n - 1),
         (a + i) % n = (a + j) % n
  PROVE  i = j
<1> DEFINE x == a + i
           y == a + j
           r == x % n
           q == x \div n
           p == y \div n
<1>1. r \in 0..(n - 1) /\ q \in Int /\ p \in Int /\ a + i = q * n + r /\ a + j = p * n + r
  <2>1. x \in Int /\ y \in Int /\ y % n = x % n
    OBVIOUS
  <2> HIDE DEF x, y
  <2>2. x % n \in 0..(n - 1) /\ x \div n \in Int /\ x = (x \div n) * n + (x % n)
    BY <2>1, Remainder
  <2>3. y \div n \in Int /\ y = (y \div n) * n + (y % n)
    BY <2>1, Remainder
  <2> HIDE DEF q, p
  <2>4. x = q * n + (x % n) /\ y = p * n + (y % n)
    BY <2>2, <2>3 DEF q, p
  <2> QED
    BY <2>1, <2>2, <2>3, <2>4 DEF q, p, x, y
<1> HIDE DEF r, q, p
<1>2. q * n \in Int /\ p * n \in Int /\ (q - p) * n = q * n - p * n /\ 0 * n = 0
  BY <1>1
<1>3. 0 * n + i = (q - p) * n + j /\ q - p \in Int /\ 0 \in Int
  BY <1>1, <1>2
<1> QED
  BY <1>3, RemainderUnique, Zenon

\* The turns that a time d asks for leave no more than an interval n, and something
\* of it when there are any.
LEMMA TurnsBound ==
  ASSUME NEW n \in Nat \ {0}, NEW d \in Nat,
         NEW t, t = IF d <= n THEN 0 ELSE (d - 1) \div n
  PROVE  t \in Nat /\ t * n \in Nat /\ t * n <= d /\ d <= t * n + n /\ (t = 0 \/ t * n < d)
<1>1. CASE d <= n
  <2>1. t = 0 /\ t * n = 0
    BY <1>1
  <2> QED
    BY <1>1, <2>1
<1>2. CASE ~(d <= n)
  <2> DEFINE r == (d - 1) % n
  <2>1. r \in 0..(n - 1) /\ t \in Int /\ d - 1 = t * n + r
    <3>1. d - 1 \in Int /\ t = (d - 1) \div n
      BY <1>2
    <3> QED
      BY <3>1, Remainder
  <2> HIDE DEF r
  <2>2. t * n \in Int /\ 0 * n = 0 /\ 0 \in Int
    BY <2>1
  <2>3. ~(t < 0)
    <3> SUFFICES ASSUME t < 0 PROVE FALSE
      OBVIOUS
    <3>1. t * n + n <= 0 * n
      BY <2>1, <2>2, Multiples, Zenon
    <3> QED
      BY <1>2, <2>1, <2>2, <3>1
  <2>4. t \in Nat /\ t * n \in Nat
    BY <2>1, <2>3
  <2> QED
    BY <2>1, <2>4
<1> QED
  BY <1>1, <1>2

-----------------------------------------------------------------------------
(* How many observations are later than a time.                             *)

Seen == [at : Int, value : Int]

LaterIn(s, t) == {i \in DOMAIN s : s[i].at > t}
ValuesAt(s, t) == {s[i].value : i \in LaterIn(s, t)}

\* The bucket has been given the observations since t, and no others.
Holds(b, s, t) == Observed(b) = Cardinality(LaterIn(s, t)) /\ Of(b, ValuesAt(s, t))

LEMMA LaterCount ==
  ASSUME NEW s \in Seq(Seen), NEW t \in Int
  PROVE  IsFiniteSet(LaterIn(s, t)) /\ Cardinality(LaterIn(s, t)) \in Nat
<1>1. LaterIn(s, t) \subseteq 1..Len(s) /\ Len(s) \in Nat
  BY DEF LaterIn
<1> QED
  BY <1>1, IndexBound

LEMMA LaterShrinks ==
  ASSUME NEW s \in Seq(Seen), NEW t \in Int, NEW u \in Int, t <= u
  PROVE  LaterIn(s, u) \subseteq LaterIn(s, t) /\ Cardinality(LaterIn(s, u)) <= Cardinality(LaterIn(s, t))
<1>1. LaterIn(s, u) \subseteq LaterIn(s, t)
  <2> SUFFICES ASSUME NEW i \in DOMAIN s, s[i].at > u PROVE s[i].at > t
    BY DEF LaterIn
  <2>1. s[i] \in Seen
    BY ElementOfSeq
  <2>2. s[i].at \in Int
    BY <2>1 DEF Seen
  <2> QED
    BY <2>2
<1> QED
  BY <1>1, LaterCount, FS_Subset

LEMMA EmptySound == Sound(EmptyBucket)
<1>1. EmptyBucket \in Bucket /\ EmptyBucket.items = <<>> /\ EmptyBucket.count = 0
  BY DEF EmptyBucket, Bucket
<1>2. Ordered(<<>>)
  <2>1. Len(<<>>) = 0
    OBVIOUS
  <2> QED
    BY <2>1 DEF Ordered
<1> QED
  BY <1>1, <1>2, SomeWeights DEF Sound

LEMMA EmptyHolds ==
  ASSUME NEW s \in Seq(Seen), NEW t \in Int, \A i \in DOMAIN s : s[i].at <= t
  PROVE  Holds(EmptyBucket, s, t)
<1>1. LaterIn(s, t) = {}
  <2> SUFFICES ASSUME NEW i \in DOMAIN s PROVE ~(s[i].at > t)
    BY DEF LaterIn
  <2>1. s[i] \in Seen
    BY ElementOfSeq
  <2>2. s[i].at \in Int /\ s[i].at <= t
    BY <2>1 DEF Seen
  <2> QED
    BY <2>2
<1>2. EmptyBucket.items = <<>> /\ EmptyBucket.buffer = <<>> /\ EmptyBucket.count = 0
      /\ Len(<<>>) = 0
  BY DEF EmptyBucket
<1>3. Observed(EmptyBucket) = 0
  BY <1>2 DEF Observed
<1>4. Of(EmptyBucket, ValuesAt(s, t))
  BY <1>2 DEF Of, ValuesIn, Among
<1> QED
  BY <1>1, <1>3, <1>4, FS_EmptySet DEF Holds

\* What is observed after t is held by a bucket that has been observed since.
LEMMA ObserveHeld ==
  ASSUME NEW s \in Seq(Seen), NEW t \in Int, NEW x \in Seen, x.at > t,
         NEW b, Sound(b), Holds(b, s, t)
  PROVE  Holds(ObserveBucket(b, x.value), Append(s, x), t)
<1> DEFINE n == Len(s) + 1
           a == Append(s, x)
           S == ValuesAt(s, t)
           T == ValuesAt(a, t)
<1>1. /\ a \in Seq(Seen) /\ Len(a) = n /\ a[n] = x
      /\ \A i \in 1..Len(s) : a[i] = s[i]
  BY AppendProperties
<1>2. Len(s) \in Nat /\ DOMAIN s = 1..Len(s) /\ DOMAIN a = 1..n
  BY <1>1
<1> HIDE DEF a
<1>3. LaterIn(a, t) = LaterIn(s, t) \cup {n} /\ n \notin LaterIn(s, t)
  <2>1. 1..n = 1..Len(s) \cup {n} /\ n \notin 1..Len(s)
    BY <1>2
  <2> HIDE DEF n
  <2> QED
    BY <1>1, <1>2, <2>1 DEF LaterIn
<1>4. Cardinality(LaterIn(a, t)) = Cardinality(LaterIn(s, t)) + 1
  BY <1>3, LaterCount, FS_AddElement
<1>5. S \subseteq T /\ x.value \in T
  <2>1. \A i \in LaterIn(s, t) : i \in LaterIn(a, t) /\ a[i].value = s[i].value
    BY <1>1, <1>2, <1>3 DEF LaterIn
  <2>2. n \in LaterIn(a, t) /\ a[n].value = x.value
    BY <1>1, <1>3
  <2> QED
    BY <2>1, <2>2 DEF ValuesAt
<1> HIDE DEF S, T
<1>6. Of(b, T)
  BY <1>5 DEF Holds, Of, ValuesIn, Among, S
<1>7. x.value \in Int
  BY DEF Seen
<1>8. Of(ObserveBucket(b, x.value), T) /\ Observed(ObserveBucket(b, x.value)) = Observed(b) + 1
  BY <1>5, <1>6, <1>7, ObserveKeeps
<1> QED
  BY <1>4, <1>8 DEF Holds, a, T

LEMMA ObserveSound ==
  ASSUME NEW b, Sound(b), NEW v \in Int
  PROVE  Sound(ObserveBucket(b, v))
<1>1. Of(b, Int)
  <2>1. b.items \in Seq(Item) /\ b.buffer \in Seq(Int)
    BY DEF Sound, Bucket
  <2>2. ASSUME NEW i \in 1..Len(b.items) PROVE b.items[i].value \in Int
    <3>1. b.items[i] \in Item
      BY <2>1, ElementOfSeq
    <3> QED
      BY <3>1 DEF Item
  <2>3. ASSUME NEW i \in 1..Len(b.buffer) PROVE b.buffer[i] \in Int
    BY <2>1, ElementOfSeq
  <2> QED
    BY <2>2, <2>3 DEF Of, ValuesIn, Among
<1> QED
  BY <1>1, ObserveKeeps

-----------------------------------------------------------------------------
(* The invariant.                                                           *)

\* The bucket that j rotations from now is the current one, and the time since which
\* it has been given all that was observed.
Place(j) == (current + j) % Buckets
From(j)  == last - (Buckets - 1 - j) * Interval

TypeOK ==
  /\ now \in Nat /\ due \in Nat /\ stream \in Streams
  /\ last \in Nat /\ current \in 0..(Buckets - 1)
  /\ DOMAIN buckets = 0..(Buckets - 1) /\ \A k \in 0..(Buckets - 1) : Sound(buckets[k])
  /\ seen \in Seq(Seen)

\* The rotations keep up with the clock: nothing was observed later than an interval
\* after the last of them, and what is observed next is later than it.
RotatedInTime ==
  /\ last <= now /\ (due > 0 => last < now)
  /\ \A i \in DOMAIN seen : seen[i].at <= last + Interval

\* Not only the oldest bucket holds what it should, each does.
EachHolds == \A j \in 0..(Buckets - 1) : Holds(buckets[Place(j)], seen, From(j))

SummaryInv == TypeOK /\ RotatedInTime /\ EachHolds

\* What rotate() leaves.
Turned == last + Turns * Interval

LEMMA Rotated ==
  ASSUME TypeOK, RotatedInTime, EachHolds
  PROVE  /\ Turns \in Nat /\ Turned \in Nat /\ last <= Turned
         /\ Turned <= now /\ now <= Turned + Interval /\ (due > 0 => Turned < now)
         /\ RotatedCurrent \in 0..(Buckets - 1)
<1> DEFINE d == now - last
           t == Turns
<1>1. d \in Nat /\ Interval \in Nat \ {0} /\ now \in Nat /\ last \in Nat /\ due \in Nat
  BY WindowsOK DEF TypeOK, RotatedInTime
<1>2. t = IF d <= Interval THEN 0 ELSE (d - 1) \div Interval
  BY DEF Turns
<1> HIDE DEF d, t
<1>3. t \in Nat /\ t * Interval \in Nat /\ t * Interval <= d /\ d <= t * Interval + Interval
      /\ (t = 0 \/ t * Interval < d)
  BY <1>1, <1>2, TurnsBound
<1>4. t = 0 => t * Interval = 0
  BY <1>1
<1>5. current + t \in Int /\ RotatedCurrent = (current + t) % Buckets
  BY <1>3 DEF TypeOK, RotatedCurrent, t
<1>6. RotatedCurrent \in 0..(Buckets - 1)
  BY <1>5, Remainder, WindowsOK
<1> DEFINE y == t * Interval
<1>7. Turned = last + y
  BY DEF Turned, t
<1>8. due > 0 => last < now
  BY DEF RotatedInTime
<1>9. y \in Nat /\ y <= d /\ d <= y + Interval /\ (y = 0 \/ y < d)
  BY <1>3, <1>4
<1> HIDE DEF y
<1>10. /\ Turned \in Nat /\ last <= Turned /\ Turned <= now /\ now <= Turned + Interval
       /\ (due > 0 => Turned < now)
  BY <1>1, <1>7, <1>8, <1>9 DEF d
<1> QED
  BY <1>3, <1>6, <1>10 DEF t

LEMMA Distribute ==
  ASSUME NEW a \in Int, NEW b \in Int, NEW n \in Int
  PROVE  a * n \in Int /\ b * n \in Int /\ (a + b) * n = a * n + b * n
OBVIOUS

LEMMA NoLess ==
  ASSUME NEW a \in Int, NEW n \in Nat, a >= 1
  PROVE  a * n \in Int /\ a * n >= n
<1>1. a - 1 \in Nat
  OBVIOUS
<1>2. (a - 1) * n \in Nat /\ a * n \in Int
  BY <1>1
<1>3. (a - 1) * n = a * n - n
  OBVIOUS
<1> QED
  BY <1>2, <1>3

LEMMA RotatedHolds ==
  ASSUME TypeOK, RotatedInTime, EachHolds, NEW j \in 0..(Buckets - 1)
  PROVE  LET k == (RotatedCurrent + j) % Buckets
         IN /\ k \in 0..(Buckets - 1) /\ Sound(RotatedBuckets[k])
            /\ Holds(RotatedBuckets[k], seen, Turned - (Buckets - 1 - j) * Interval)
<1> DEFINE t == Turns
           k == (RotatedCurrent + j) % Buckets
           m == t + j
           w == Turned - (Buckets - 1 - j) * Interval
<1>0. Buckets \in Nat \ {0} /\ Interval \in Nat /\ t \in Nat /\ current \in 0..(Buckets - 1)
      /\ last \in Nat /\ seen \in Seq(Seen)
  BY Rotated, WindowsOK DEF TypeOK
<1>1. k = (current + m) % Buckets
  <2> DEFINE a == current + t
  <2>1. a \in Int /\ j \in Int /\ RotatedCurrent = a % Buckets /\ a + j = current + m
    BY <1>0 DEF RotatedCurrent
  <2> HIDE DEF a, m
  <2>2. ((a % Buckets) + j) % Buckets = (a + j) % Buckets
    BY <1>0, <2>1, Around
  <2> QED
    BY <2>1, <2>2
<1>2. m \in Nat /\ current + m \in Int /\ k \in 0..(Buckets - 1)
  <2>1. m \in Nat /\ current + m \in Int
    BY <1>0
  <2> HIDE DEF m, k
  <2> QED
    BY <1>0, <1>1, <2>1, Remainder
<1>3. RotatedBuckets[k] = IF k \in Reset THEN EmptyBucket ELSE buckets[k]
  BY <1>2 DEF RotatedBuckets, TypeOK
<1>4. Reset = {(current + n) % Buckets : n \in 0..(t - 1)}
  BY DEF Reset
<1>5. w \in Int /\ (m < Buckets => w = From(m)) /\ (m >= Buckets => last + Interval <= w)
  <2> DEFINE p == Buckets - 1 - j
             q == Buckets - 1 - m
             r == m - Buckets + 1
  <2>1. p \in Int /\ q \in Int /\ r \in Int /\ p = q + t /\ t = p + r /\ t \in Int
    BY <1>0, <1>2
  <2> HIDE DEF p, q, r, m, w, t
  <2>2. From(m) = last - q * Interval /\ w = (last + t * Interval) - p * Interval
    <3>1. From(m) = last - q * Interval
      BY DEF From, q
    <3>2. w = Turned - p * Interval
      BY DEF w, p
    <3> QED
      BY <3>1, <3>2 DEF Turned, t
  <2>3. q * Interval \in Int /\ t * Interval \in Int /\ p * Interval = q * Interval + t * Interval
    BY <1>0, <2>1, Distribute
  <2>4. r * Interval \in Int /\ t * Interval = p * Interval + r * Interval
    BY <1>0, <2>1, Distribute
  <2> DEFINE qi == q * Interval
             ti == t * Interval
             pi == p * Interval
             ri == r * Interval
  <2>5. w \in Int /\ w = From(m) /\ w = last + r * Interval
    <3>1. /\ qi \in Int /\ ti \in Int /\ pi = qi + ti /\ ri \in Int /\ ti = pi + ri
          /\ From(m) = last - qi /\ w = (last + ti) - pi /\ last \in Int
      BY <1>0, <2>2, <2>3, <2>4
    <3> HIDE DEF qi, ti, pi, ri
    <3>2. w \in Int /\ w = From(m) /\ w = last + ri
      BY <3>1
    <3> QED
      BY <3>2 DEF ri
  <2>6. m >= Buckets => r * Interval >= Interval
    <3> SUFFICES ASSUME m >= Buckets PROVE r * Interval >= Interval
      OBVIOUS
    <3>1. r >= 1
      BY <1>0, <1>2 DEF r
    <3> QED
      BY <1>0, <2>1, <3>1, NoLess
  <2> QED
    BY <1>0, <2>4, <2>5, <2>6
<1> HIDE DEF m, k, w, t
\* The bucket has been reset, and nothing was observed since.
<1>6. CASE m >= Buckets
  <2>1. k \in Reset
    <3> DEFINE n == m - Buckets
               a == current + n
    <3>1. n \in 0..(t - 1) /\ a \in Int /\ current + m = a + Buckets
      BY <1>0, <1>2, <1>6 DEF m
    <3>2. (a + Buckets) % Buckets = a % Buckets
      <4> HIDE DEF a
      <4> QED
        BY <1>0, <3>1, Around
    <3>3. k = (current + n) % Buckets
      BY <1>1, <3>1, <3>2
    <3> HIDE DEF n
    <3> QED
      BY <1>4, <3>1, <3>3
  <2>2. RotatedBuckets[k] = EmptyBucket
    BY <1>3, <2>1
  <2>4. Holds(EmptyBucket, seen, w)
    <3>1. \A i \in DOMAIN seen : seen[i].at <= w
      <4> SUFFICES ASSUME NEW i \in DOMAIN seen PROVE seen[i].at <= w
        OBVIOUS
      <4>1. seen[i] \in Seen
        BY <1>0, ElementOfSeq
      <4>2. seen[i].at \in Int /\ seen[i].at <= last + Interval
        BY <4>1 DEF RotatedInTime, Seen
      <4> QED
        BY <1>0, <1>5, <1>6, <4>2
    <3> QED
      BY <1>0, <1>5, <3>1, EmptyHolds
  <2>5. Holds(RotatedBuckets[k], seen, w) /\ Sound(RotatedBuckets[k])
    BY <2>2, <2>4, EmptySound
  <2> QED
    BY <1>2, <2>5 DEF k, w
\* It has been left alone, and was as many rotations nearer to its turn.
<1>7. CASE ~(m >= Buckets)
  <2>1. m \in 0..(Buckets - 1)
    BY <1>0, <1>2, <1>7
  <2>2. k \notin Reset
    <3> SUFFICES ASSUME k \in Reset PROVE FALSE
      OBVIOUS
    <3>1. PICK n \in 0..(t - 1) : k = (current + n) % Buckets
      BY <1>4
    <3>2. n \in 0..(Buckets - 1) /\ n < m /\ current \in Int
      BY <1>0, <1>2, <1>7, <3>1 DEF m
    <3>3. (current + m) % Buckets = (current + n) % Buckets
      BY <1>1, <3>1
    <3>4. m = n
      BY <1>0, <2>1, <3>2, <3>3, SamePlace
    <3> QED
      BY <2>1, <3>2, <3>4
  <2>3. RotatedBuckets[k] = buckets[Place(m)] /\ k = Place(m)
    BY <1>1, <1>3, <2>2 DEF Place
  <2>4. Holds(buckets[Place(m)], seen, From(m))
    BY <2>1 DEF EachHolds
  <2>5. Sound(RotatedBuckets[k])
    BY <1>2, <2>3 DEF TypeOK
  <2>6. Holds(RotatedBuckets[k], seen, w)
    <3>1. w = From(m)
      BY <1>0, <1>2, <1>5, <1>7
    <3> QED
      BY <2>3, <2>4, <3>1
  <2> QED
    BY <1>2, <2>5, <2>6 DEF k, w
<1> QED
  BY <1>6, <1>7

LEMMA SummaryInit == Init => SummaryInv
<1> SUFFICES ASSUME Init PROVE SummaryInv
  OBVIOUS
<1>1. Buckets \in Nat \ {0} /\ Interval \in Nat \ {0}
  BY WindowsOK
<1>3. /\ now = 0 /\ due = 0 /\ stream \in Streams /\ seen = <<>> /\ last = 0 /\ current = 0
      /\ buckets = [k \in 0..(Buckets - 1) |-> EmptyBucket]
  BY DEF Init
<1>4. TypeOK
  <2>1. 0 \in 0..(Buckets - 1) /\ <<>> \in Seq(Seen)
    BY <1>1
  <2> QED
    BY <1>3, <2>1, EmptySound DEF TypeOK
<1>5. RotatedInTime
  BY <1>1, <1>3 DEF RotatedInTime
<1>6. EachHolds
  <2> SUFFICES ASSUME NEW j \in 0..(Buckets - 1)
               PROVE  Holds(buckets[Place(j)], seen, From(j))
    BY DEF EachHolds
  <2>1. Place(j) \in 0..(Buckets - 1)
    <3>1. current + j \in Int
      BY <1>3
    <3> QED
      BY <1>1, <3>1, Remainder DEF Place
  <2>2. From(j) \in Int
    <3> DEFINE m == Buckets - 1 - j
    <3>1. m \in Int
      BY <1>1
    <3> HIDE DEF m
    <3>2. m * Interval \in Int
      BY <1>1, <3>1
    <3> DEFINE y == m * Interval
    <3>3. From(j) = last - y /\ y \in Int
      BY <3>2 DEF From, m
    <3> HIDE DEF y
    <3> QED
      BY <1>3, <3>3
  <2>3. seen \in Seq(Seen) /\ DOMAIN seen = {}
    BY <1>3
  <2>4. Holds(EmptyBucket, seen, From(j))
    BY <2>2, <2>3, EmptyHolds
  <2> QED
    BY <1>3, <2>1, <2>4
<1> QED
  BY <1>4, <1>5, <1>6 DEF SummaryInv

LEMMA ObserveHolds == SummaryInv /\ Observe => SummaryInv'
<1> SUFFICES ASSUME SummaryInv, Observe PROVE SummaryInv'
  OBVIOUS
<1> DEFINE v == (stream.a * Len(seen) + stream.b) % stream.m
           x == [at |-> now, value |-> v]
<1>0. TypeOK /\ RotatedInTime /\ EachHolds
  BY DEF SummaryInv
<1>1. /\ now \in Nat /\ due \in Nat /\ last \in Nat /\ seen \in Seq(Seen) /\ due > 0
      /\ Buckets \in Nat \ {0} /\ Interval \in Nat \ {0} /\ stream \in Streams
      /\ DOMAIN buckets = 0..(Buckets - 1)
  BY <1>0, WindowsOK DEF TypeOK, Observe
<1>2. v \in Int
  <2>1. stream.a \in Int /\ stream.b \in Int /\ stream.m \in Nat \ {0} /\ Len(seen) \in Int
    BY <1>1, WindowsOK
  <2>2. stream.a * Len(seen) + stream.b \in Int
    BY <2>1
  <2> DEFINE y == stream.a * Len(seen) + stream.b
  <2> HIDE DEF y
  <2>3. y % stream.m \in 0..(stream.m - 1)
    BY <2>1, <2>2, Remainder DEF y
  <2>4. y % stream.m \in Int
    BY <2>1, <2>3
  <2> QED
    BY <2>4 DEF y
<1>3. /\ buckets' = [k \in 0..(Buckets - 1) |-> ObserveBucket(RotatedBuckets[k], v)]
      /\ seen' = Append(seen, x) /\ current' = RotatedCurrent /\ last' = Turned
      /\ due' = due - 1 /\ now' = now /\ stream' = stream
  BY <1>1 DEF Observe, Turned
<1> HIDE DEF v
<1>4. x \in Seen /\ x.at = now /\ x.value = v
  BY <1>1, <1>2 DEF Seen
<1> HIDE DEF x
<1>5. /\ Turned \in Nat /\ Turned < now /\ now <= Turned + Interval
      /\ RotatedCurrent \in 0..(Buckets - 1) /\ last <= Turned
  BY <1>0, <1>1, Rotated
<1>6. \A k \in 0..(Buckets - 1) : Sound(RotatedBuckets[k])
  <2> SUFFICES ASSUME NEW k \in 0..(Buckets - 1) PROVE Sound(RotatedBuckets[k])
    OBVIOUS
  <2>2. Sound(buckets[k])
    BY <1>0 DEF TypeOK
  <2>3. RotatedBuckets[k] = IF k \in Reset THEN EmptyBucket ELSE buckets[k]
    BY <1>1 DEF RotatedBuckets
  <2> QED
    BY <2>2, <2>3, EmptySound
<1>7. TypeOK'
  <2>1. \A k \in 0..(Buckets - 1) : Sound(buckets'[k])
    <3> SUFFICES ASSUME NEW k \in 0..(Buckets - 1) PROVE Sound(buckets'[k])
      OBVIOUS
    <3> DEFINE b == RotatedBuckets[k]
    <3>1. buckets'[k] = ObserveBucket(b, v)
      BY <1>3
    <3>2. Sound(b)
      BY <1>6
    <3> HIDE DEF b
    <3> QED
      BY <1>2, <3>1, <3>2, ObserveSound
  <2>2. seen' \in Seq(Seen)
    BY <1>1, <1>3, <1>4, AppendProperties
  <2>3. due' \in Nat
    BY <1>1, <1>3
  <2>4. DOMAIN buckets' = 0..(Buckets - 1)
    BY <1>3
  <2>5. /\ now' \in Nat /\ stream' \in Streams /\ last' \in Nat
        /\ current' \in 0..(Buckets - 1)
    BY <1>1, <1>3, <1>5
  <2>6. (DOMAIN buckets)' = 0..(Buckets - 1)
    BY <2>4
  <2> QED
    BY <2>1, <2>2, <2>3, <2>5, <2>6 DEF TypeOK, Sound, Ordered
<1>8. RotatedInTime'
  <2>1. \A i \in DOMAIN seen' : seen'[i].at <= last' + Interval
    <3> SUFFICES ASSUME NEW i \in DOMAIN seen' PROVE seen'[i].at <= last' + Interval
      OBVIOUS
    <3>1. /\ Len(seen') = Len(seen) + 1 /\ seen'[Len(seen) + 1] = x /\ seen' \in Seq(Seen)
          /\ \A k \in 1..Len(seen) : seen'[k] = seen[k]
      BY <1>1, <1>3, <1>4, AppendProperties
    <3>2. i \in 1..Len(seen) \/ i = Len(seen) + 1
      BY <1>1, <3>1
    <3>3. CASE i = Len(seen) + 1
      BY <1>3, <1>4, <1>5, <3>1, <3>3
    <3>4. CASE i \in 1..Len(seen)
      <4>1. seen'[i] = seen[i] /\ seen[i] \in Seen /\ i \in DOMAIN seen
        BY <1>1, <3>1, <3>4, ElementOfSeq
      <4>2. seen[i].at \in Int /\ seen[i].at <= last + Interval
        BY <1>0, <4>1 DEF RotatedInTime, Seen
      <4> QED
        BY <1>1, <1>3, <1>5, <4>1, <4>2
    <3> QED
      BY <3>2, <3>3, <3>4
  <2>2. last' <= now' /\ last' < now'
    BY <1>1, <1>3, <1>5
  <2> QED
    BY <2>1, <2>2 DEF RotatedInTime
<1>9. EachHolds'
  <2> SUFFICES ASSUME NEW j \in 0..(Buckets - 1)
               PROVE  Holds(buckets'[Place(j)'], seen', From(j)')
    BY DEF EachHolds, Holds, Observed, LaterIn, Of, ValuesIn, Among, ValuesAt
  <2> DEFINE k == (RotatedCurrent + j) % Buckets
             w == Turned - (Buckets - 1 - j) * Interval
  <2>1. /\ k \in 0..(Buckets - 1) /\ Sound(RotatedBuckets[k])
        /\ Holds(RotatedBuckets[k], seen, w)
    BY <1>0, RotatedHolds
  <2>2. Place(j)' = k /\ From(j)' = w
    BY <1>3 DEF Place, From
  <2>3. w \in Int /\ w < now
    <3> DEFINE p == Buckets - 1 - j
    <3>1. p \in Nat
      BY <1>1
    <3> HIDE DEF p
    <3>2. p * Interval \in Nat
      BY <1>1, <3>1
    <3> DEFINE y == p * Interval
    <3>3. w = Turned - y /\ y \in Nat
      BY <3>2 DEF p
    <3> HIDE DEF y, w
    <3> QED
      BY <1>1, <1>5, <3>3
  <2> HIDE DEF k, w
  <2>4. Holds(buckets'[k], seen', w)
    <3> DEFINE b == RotatedBuckets[k]
    <3>1. buckets'[k] = ObserveBucket(b, x.value) /\ x.at > w
      BY <1>1, <1>3, <1>4, <2>1, <2>3
    <3>2. Sound(b) /\ Holds(b, seen, w)
      BY <2>1
    <3> HIDE DEF b
    <3>3. Holds(ObserveBucket(b, x.value), Append(seen, x), w)
      BY <1>1, <1>4, <2>3, <3>1, <3>2, ObserveHeld
    <3> QED
      BY <1>3, <3>1, <3>3
  <2> QED
    BY <2>2, <2>4
<1> QED
  BY <1>7, <1>8, <1>9 DEF SummaryInv

LEMMA TickHolds == SummaryInv /\ Tick => SummaryInv'
<1> SUFFICES ASSUME SummaryInv, Tick PROVE SummaryInv'
  OBVIOUS
<1>1. /\ last' = last /\ current' = current /\ buckets' = buckets /\ stream' = stream
      /\ seen' = seen /\ now' = now + 1 /\ due' \in Bursts /\ Bursts \subseteq Nat
  BY WindowsOK DEF Tick, summaryVars
<1>2. TypeOK'
  BY <1>1 DEF SummaryInv, TypeOK, Sound, Ordered
<1>3. RotatedInTime'
  <2>1. last \in Nat /\ now \in Nat /\ last <= now
    BY DEF SummaryInv, TypeOK, RotatedInTime
  <2>2. last <= now + 1 /\ last < now + 1
    BY <2>1
  <2> QED
    BY <1>1, <2>2 DEF SummaryInv, RotatedInTime
<1>4. EachHolds'
  BY <1>1 DEF SummaryInv, EachHolds, Holds, Place, From, LaterIn, Observed, Of, ValuesIn, Among,
              ValuesAt
<1> QED
  BY <1>2, <1>3, <1>4 DEF SummaryInv

LEMMA SummaryHolds == Spec => []SummaryInv
<1>1. SummaryInv /\ [Next]_vars => SummaryInv'
  <2> SUFFICES ASSUME SummaryInv, [Next]_vars PROVE SummaryInv'
    OBVIOUS
  <2>1. CASE Observe
    BY <2>1, ObserveHolds
  <2>2. CASE Tick
    BY <2>2, TickHolds
  <2>3. CASE UNCHANGED vars
    <3>1. /\ now' = now /\ due' = due /\ last' = last /\ current' = current
          /\ buckets' = buckets /\ stream' = stream /\ seen' = seen
      BY <2>3 DEF vars, envVars, summaryVars
    <3>2. TypeOK'
      BY <3>1 DEF SummaryInv, TypeOK, Sound, Ordered
    <3>3. RotatedInTime'
      BY <3>1 DEF SummaryInv, RotatedInTime
    <3>4. EachHolds'
      BY <3>1 DEF SummaryInv, EachHolds, Holds, Place, From, LaterIn, Observed, Of, ValuesIn, Among,
              ValuesAt
    <3> QED
      BY <3>2, <3>3, <3>4 DEF SummaryInv
  <2> QED
    BY <2>1, <2>2, <2>3 DEF Next
<1> QED
  BY <1>1, SummaryInit, PTL DEF Spec

\* A quantile is read from the items.
LEMMA QuantileOf ==
  ASSUME NEW b, Sound(b), NEW S, Of(b, S), Observed(b) > 0, NEW p \in Percents
  PROVE  GetQuantile(b, p) \in S
<1> DEFINE n       == Cardinality({q \in Percents : q <= p})
           items   == Scraped(b, n).items
           desired == (p * (b.count + Len(b.buffer))) \div 100
           bound   == 2 * Scale * desired + ErrorBound(Len(items), desired)
           Passes(i) == 2 * Scale * (Ranks(items)[i] + At(items, i).g + At(items, i).delta)
                          > bound
           passing == {i \in 1..(Len(items) - 1) : Passes(i)}
<1>1. GetQuantile(b, p) = IF passing = {} THEN Last(items).value
                                         ELSE At(items, Min(passing) - 1).value
  BY DEF GetQuantile
<1>2. n \in Nat
  <2> DEFINE Q == {q \in Percents : q <= p}
  <2>1. Q \subseteq 1..99 /\ 99 \in Nat
    BY SketchOK
  <2> HIDE DEF Q
  <2>2. Cardinality(Q) \in 0..99
    BY <2>1, IndexBound, Zenon
  <2> QED
    BY <2>2 DEF Q
<1> HIDE DEF n
<1>3. items \in Seq(Item) /\ ValuesIn(items, S) /\ Weights(items) = Observed(b)
  <2>1. /\ Sound(Scraped(b, n)) /\ Of(Scraped(b, n), S)
        /\ Scraped(b, n).count = Observed(b)
    BY <1>2, ScrapedKeeps
  <2> QED
    BY <2>1 DEF Sound, Of, Bucket
<1> HIDE DEF items
<1>4. Len(items) \in Nat /\ Len(items) > 0
  <2>1. items # <<>>
    BY <1>3, SomeWeights
  <2> QED
    BY <1>3, <2>1
<1>5. \A i \in 1..Len(items) : items[i].value \in S
  BY <1>3 DEF ValuesIn
<1>6. CASE passing = {}
  <2>1. GetQuantile(b, p) = items[Len(items)].value
    BY <1>1, <1>6 DEF Last
  <2> QED
    BY <1>4, <1>5, <2>1
<1>7. CASE passing # {}
  <2> DEFINE m == Min(passing)
  <2>1. m \in 1..(Len(items) - 1)
    <3>1. passing \subseteq 1..(Len(items) - 1) /\ passing \subseteq Nat
      OBVIOUS
    <3> HIDE DEF passing
    <3>2. \E l \in passing : \A k \in passing : l <= k
      BY <1>7, <3>1, Least
    <3>3. m \in passing
      BY <3>2 DEF Min
    <3> QED
      BY <3>1, <3>3
  <2>2. GetQuantile(b, p) = At(items, m - 1).value
    BY <1>1, <1>7
  <2> HIDE DEF m
  <2>3. GetQuantile(b, p) = items[m].value /\ m \in 1..Len(items)
    <3>1. (m - 1) + 1 = m
      BY <1>4, <2>1
    <3> QED
      BY <1>4, <2>1, <2>2, <3>1 DEF At
  <2> QED
    BY <1>5, <2>3
<1> QED
  BY <1>6, <1>7

\* A scrape, however late and after however many observations, reports on all of the
\* last Buckets - 1 intervals and on none older than Buckets of them, and whatever
\* batch() and compress() merge, each quantile is read from items that ascend, whose
\* weights add up to exactly the observations reported on, and is one of the values
\* observed.
THEOREM ScrapeCoversWindow == Spec => []WindowHeld
<1>1. SummaryInv => WindowHeld
  <2> SUFFICES ASSUME SummaryInv PROVE WindowHeld
    OBVIOUS
  <2>0. TypeOK /\ RotatedInTime /\ EachHolds
    BY DEF SummaryInv
  <2> DEFINE n == Buckets - 1
             w == Turned - n * Interval
             k == (RotatedCurrent + 0) % Buckets
             y == n * Interval
             z == Buckets * Interval
             S == ValuesAt(seen, w)
  <2>1. /\ Buckets \in Nat \ {0} /\ Interval \in Nat \ {0} /\ now \in Nat /\ seen \in Seq(Seen)
        /\ Turned \in Nat /\ Turned <= now /\ now <= Turned + Interval
        /\ RotatedCurrent \in 0..(Buckets - 1)
    BY <2>0, Rotated, WindowsOK DEF TypeOK
  <2>2. k = RotatedCurrent
    <3>1. RotatedCurrent + 0 = 0 * Buckets + RotatedCurrent /\ RotatedCurrent + 0 \in Int
          /\ 0 \in Int
      BY <2>1
    <3> QED
      BY <2>1, <3>1, RemainderOf, Zenon
  <2>3. Sound(Window) /\ Holds(Window, seen, w)
    <3>1. 0 \in 0..(Buckets - 1)
      BY <2>1
    <3>2. /\ Sound(RotatedBuckets[k])
          /\ Holds(RotatedBuckets[k], seen, Turned - (Buckets - 1 - 0) * Interval)
      BY <2>0, <3>1, RotatedHolds, Zenon
    <3>3. Buckets - 1 - 0 = n
      BY <2>1
    <3> HIDE DEF k, n
    <3> QED
      BY <2>2, <3>2, <3>3 DEF Window
  <2>4. Held = Observed(Window) /\ Held = Cardinality(LaterIn(seen, w)) /\ Of(Window, S)
    BY <2>3 DEF Held, Observed, Holds
  <2> HIDE DEF S
  <2>5. ASSUME NEW i \in 0..Cardinality(Percents)
        PROVE  LET items == Scraped(Window, i).items
               IN Weights(items) = Held /\ Ascends(items)
    <3> DEFINE items == Scraped(Window, i).items
    <3>1. i \in Nat
      <4>1. Percents \subseteq 1..99 /\ 99 \in Nat
        BY SketchOK
      <4>2. Cardinality(Percents) \in 0..99
        BY <4>1, IndexBound, Zenon
      <4> QED
        BY <4>2
    <3>2. Sound(Scraped(Window, i)) /\ Scraped(Window, i).count = Observed(Window)
      BY <2>3, <2>4, <3>1, ScrapedKeeps
    <3>3. Weights(items) = Held /\ Ordered(items) /\ items \in Seq(Item)
      BY <2>4, <3>2 DEF Sound, Bucket
    <3> HIDE DEF items
    <3>4. \A l \in 1..(Len(items) - 1) :
            l \in 1..Len(items) /\ l + 1 \in 1..Len(items) /\ l < l + 1
      BY <3>3
    <3>5. Ascends(items)
      BY <3>3, <3>4 DEF Ascends, Ordered
    <3> QED
      BY <3>3, <3>5 DEF items
  <2>6. \A t \in Int : Since(t) = Cardinality(LaterIn(seen, t)) /\ Later(t) = LaterIn(seen, t)
    BY DEF Since, Later, LaterIn
  <2>7. /\ n * Interval \in Int /\ Buckets * Interval \in Int
        /\ Buckets * Interval = n * Interval + Interval
    <3>1. n \in Int /\ Buckets = n + 1 /\ 1 \in Int /\ 1 * Interval = Interval
      BY <2>1
    <3> HIDE DEF n
    <3> QED
      BY <2>1, <3>1
  <2>8. y \in Int /\ z \in Int /\ z = y + Interval /\ w = Turned - y
    BY <2>7
  <2> HIDE DEF y, z, w
  <2>9. w \in Int /\ now - y \in Int /\ now - z \in Int /\ w <= now - y /\ now - z <= w
    BY <2>1, <2>8
  <2>10. Since(now - y) <= Held
    BY <2>1, <2>4, <2>6, <2>9, LaterShrinks
  <2>11. Held <= Since(now - z)
    BY <2>1, <2>4, <2>6, <2>9, LaterShrinks
  <2>12. S \subseteq {seen[i].value : i \in Later(now - z)}
    <3>1. LaterIn(seen, w) \subseteq LaterIn(seen, now - z)
      BY <2>1, <2>9, LaterShrinks
    <3> QED
      BY <2>6, <2>9, <3>1 DEF S, ValuesAt
  <2>13. ASSUME Held > 0, NEW p \in Percents PROVE GetQuantile(Window, p) \in S
    BY <2>3, <2>4, <2>13, QuantileOf
  <2> QED
    BY <2>5, <2>10, <2>11, <2>12, <2>13 DEF WindowHeld, y, z
<1> QED
  BY <1>1, SummaryHolds, PTL

=============================================================================
