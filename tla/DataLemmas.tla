------------------------------ MODULE DataLemmas ------------------------------
(***************************************************************************)
(* Facts about numbers and sequences that the proofs of several components *)
(* rest on, beside those of the library.                                   *)
(***************************************************************************)
EXTENDS Ordered, Naturals, Sequences, SequencesExt, FiniteSetTheorems,
        SequenceTheorems, WellFoundedInduction, TLAPS

\* A set of numbers that is not empty has a least one.  It stands in for
\* induction: what holds of every number has no least exception.
LEMMA LeastNatural ==
    ASSUME NEW T \in SUBSET Nat, T # {}
    PROVE  \E m \in T : \A k \in T : m <= k
<1> DEFINE R == StrictSubsetOrdering(Nat)
           I == {0..k : k \in T}
<1>1. IsWellFoundedOn(R, FiniteSubsetsOf(Nat))
  BY FS_StrictSubsetOrderingWellFounded
<1>2. I \subseteq FiniteSubsetsOf(Nat)
  <2>1. \A k \in Nat : IsFiniteSet(0..k)
    BY FS_Interval
  <2> QED BY <2>1 DEF FiniteSubsetsOf
<1>3. \A X, Y \in SUBSET Nat : X \subseteq Y /\ X # Y => <<X, Y>> \in R
  BY DEF StrictSubsetOrdering
<1>4. I # {}
  OBVIOUS
<1>5. PICK M \in I : \A Y \in I : ~ (<<Y, M>> \in R)
  <2> HIDE DEF R, I
  <2> QED BY <1>1, <1>2, <1>4, WFMin
<1>6. PICK m \in T : M = 0..m
  BY <1>5
<1>7. ASSUME NEW k \in T, k < m PROVE FALSE
  <2>0. 0..k \in I
    OBVIOUS
  <2>1. 0..k \subseteq 0..m /\ m \in 0..m /\ m \notin 0..k
    BY <1>7
  <2>2. 0..k \in SUBSET Nat /\ 0..m \in SUBSET Nat /\ 0..k # 0..m
    BY <2>1
  <2> HIDE DEF R
  <2>3. <<0..k, 0..m>> \in R
    BY <2>1, <2>2, <1>3
  <2> QED BY <2>0, <2>3, <1>5, <1>6
<1> QED BY <1>7

\* A sequence without its i-th element.
LEMMA RemoveAtProperties ==
    ASSUME NEW S, NEW s \in Seq(S), NEW i \in 1 .. Len(s)
    PROVE  /\ RemoveAt(s, i) \in Seq(S) /\ Len(RemoveAt(s, i)) = Len(s) - 1
           /\ \A k \in 1 .. Len(s) - 1 : RemoveAt(s, i)[k] = IF k < i THEN s[k] ELSE s[k + 1]
<1>0. PICK n \in Nat : n = Len(s) /\ i \in 1 .. n
  BY LenProperties
<1>1. \A k \in 1 .. n : s[k] \in S
  BY <1>0, ElementOfSeq
<1>2. 1 \in Int /\ i - 1 \in Int /\ i + 1 \in Int /\ n \in Int
  BY <1>0
<1>3. \A k \in 1 .. i - 1 : s[k] \in S
  BY <1>0, <1>1
<1>4. \A k \in i + 1 .. n : s[k] \in S
  BY <1>0, <1>1
<1>5. PICK t : t = SubSeq(s, 1, i - 1)
  OBVIOUS
<1>6. PICK u : u = SubSeq(s, i + 1, n)
  OBVIOUS
<1>7. /\ t \in Seq(S) /\ Len(t) = (IF 1 <= i - 1 THEN i - 1 - 1 + 1 ELSE 0)
      /\ \A k \in 1 .. i - 1 - 1 + 1 : t[k] = s[1 + k - 1]
  BY ONLY <1>2, <1>3, <1>5, SubSeqProperties
<1>8. /\ u \in Seq(S) /\ Len(u) = (IF i + 1 <= n THEN n - (i + 1) + 1 ELSE 0)
      /\ \A k \in 1 .. n - (i + 1) + 1 : u[k] = s[i + 1 + k - 1]
  BY ONLY <1>2, <1>4, <1>6, SubSeqProperties
<1>9. Len(t) = i - 1 /\ Len(u) = n - i
  BY ONLY <1>2, <1>7, <1>8, <1>0, n \in Nat
<1>10. PICK w : w = t \o u
  OBVIOUS
<1>11. RemoveAt(s, i) = w
  BY <1>0, <1>5, <1>6, <1>10 DEF RemoveAt
<1>12. /\ w \in Seq(S) /\ Len(w) = Len(t) + Len(u)
       /\ \A k \in 1 .. Len(t) + Len(u) : w[k] = IF k <= Len(t) THEN t[k] ELSE u[k - Len(t)]
  BY ONLY <1>7, <1>8, <1>10, ConcatProperties
<1>13. Len(t) + Len(u) = n - 1
  BY ONLY <1>9, <1>0, n \in Nat
<1>14. \A k \in 1 .. n - 1 : w[k] = IF k < i THEN s[k] ELSE s[k + 1]
  <2> TAKE k \in 1 .. n - 1
  <2>1. CASE k < i
    <3>1. k \in 1 .. i - 1 - 1 + 1 /\ k <= i - 1 /\ 1 + k - 1 = k
      BY <1>0, <2>1
    <3>2. t[k] = s[k]
      BY ONLY <1>7, <3>1
    <3> QED
      BY ONLY <1>9, <1>12, <1>13, <2>1, <3>1, <3>2, k \in 1 .. n - 1
  <2>2. CASE ~(k < i)
    <3>1. /\ k - (i - 1) \in 1 .. n - (i + 1) + 1 /\ ~(k <= i - 1)
          /\ i + 1 + (k - (i - 1)) - 1 = k + 1
      BY <1>0, <2>2
    <3>2. u[k - (i - 1)] = s[k + 1]
      BY ONLY <1>8, <3>1
    <3> QED
      BY ONLY <1>9, <1>12, <1>13, <2>2, <3>1, <3>2, k \in 1 .. n - 1
  <2> QED
    BY <2>1, <2>2
<1> QED
  BY ONLY <1>0, <1>11, <1>12, <1>13, <1>14

\* Any finite set of numbers can be put in order.
LEMMA AscendingProperties ==
    ASSUME NEW keys \in SUBSET Nat, IsFiniteSet(keys)
    PROVE  /\ Cardinality(keys) \in Nat /\ Ascending(keys) \in Seq(Nat)
           /\ Ascending(keys) \in [1 .. Cardinality(keys) -> keys]
           /\ \A i, j \in 1 .. Cardinality(keys) : i # j => Ascending(keys)[i] # Ascending(keys)[j]
           /\ \A k \in keys : \E i \in 1 .. Cardinality(keys) : Ascending(keys)[i] = k
<1> DEFINE Sorted(S, f) == \A i, j \in DOMAIN f : i < j => f[i] < f[j]
           Sortable(S) == \E f \in [1 .. Cardinality(S) -> S] : Sorted(S, f)
           Bad == {n \in Nat : \E S \in SUBSET Nat :
                                   IsFiniteSet(S) /\ Cardinality(S) = n /\ ~Sortable(S)}
<1>1. Bad = {}
  <2> SUFFICES ASSUME Bad # {} PROVE FALSE
    OBVIOUS
  <2>1. PICK n \in Bad : \A k \in Bad : n <= k
    <3>1. Bad \in SUBSET Nat
      OBVIOUS
    <3> HIDE DEF Bad
    <3> QED
      BY <3>1, LeastNatural
  <2>2. PICK S \in SUBSET Nat : IsFiniteSet(S) /\ Cardinality(S) = n /\ ~Sortable(S)
    BY <2>1
  <2>3. n \in Nat
    BY <2>1
  <2>4. S # {}
    <3> SUFFICES ASSUME S = {} PROVE FALSE
      OBVIOUS
    <3>1. n = 0
      BY <2>2, FS_EmptySet
    <3>2. [i \in 1 .. 0 |-> 0] \in [1 .. Cardinality(S) -> S]
      BY <2>2, <3>1
    <3>3. Sorted(S, [i \in 1 .. 0 |-> 0])
      OBVIOUS
    <3> HIDE DEF Sorted
    <3> QED
      BY <2>2, <3>2, <3>3
  <2>5. PICK m \in S : \A k \in S : m <= k
    BY <2>2, <2>4, LeastNatural
  <2> DEFINE T == S \ {m}
  <2>6. IsFiniteSet(T) /\ Cardinality(T) = n - 1 /\ n - 1 \in Nat /\ T \in SUBSET Nat
    <3>1. IsFiniteSet(T) /\ Cardinality(T) = Cardinality(S) - 1
      BY <2>2, <2>5, FS_RemoveElement
    <3>2. Cardinality(T) \in Nat
      BY <3>1, FS_CardinalityType
    <3> QED
      BY <2>2, <3>1, <3>2
  <2>7. Sortable(T)
    <3>1. n - 1 \notin Bad
      BY <2>1, <2>3
    <3> HIDE DEF T, Sortable
    <3> QED
      BY <2>6, <3>1
  <2>8. PICK f \in [1 .. n - 1 -> T] : \A i, j \in 1 .. n - 1 : i < j => f[i] < f[j]
    BY <2>6, <2>7
  <2> DEFINE g == [i \in 1 .. n |-> IF i = 1 THEN m ELSE f[i - 1]]
  <2>9. g \in [1 .. n -> S]
    <3>1. ASSUME NEW i \in 1 .. n PROVE g[i] \in S
      <4>1. CASE i = 1
        BY <4>1
      <4>2. CASE i # 1
        <5>1. i - 1 \in 1 .. n - 1
          BY <2>3, <4>2
        <5> QED
          BY <2>8, <4>2, <5>1
      <4> QED
        BY <4>1, <4>2
    <3> QED
      BY <3>1
  <2>10. ASSUME NEW i \in 1 .. n, NEW j \in 1 .. n, i < j PROVE g[i] < g[j]
    <3>1. j # 1 /\ j - 1 \in 1 .. n - 1 /\ g[j] = f[j - 1]
      BY <2>3, <2>10
    <3>2. g[j] \in T
      BY <2>8, <3>1
    <3>3. CASE i = 1
      <4>1. g[i] = m
        BY <3>3
      <4>2. g[j] \in Nat /\ m \in Nat /\ m <= g[j] /\ m # g[j]
        BY <2>5, <3>2
      <4> QED
        BY <4>1, <4>2
    <3>4. CASE i # 1
      <4>1. i - 1 \in 1 .. n - 1 /\ i - 1 < j - 1 /\ g[i] = f[i - 1]
        BY <2>3, <2>10, <3>4
      <4> QED
        BY <2>8, <3>1, <4>1
    <3> QED
      BY <3>3, <3>4
  <2>11. Sorted(S, g)
    BY <2>10
  <2> HIDE DEF g, Sorted
  <2> QED
    BY <2>2, <2>9, <2>11
<1>2. Cardinality(keys) \in Nat
  BY FS_CardinalityType
<1>3. Sortable(keys)
  <2> HIDE DEF Sortable
  <2> QED
    BY <1>1, <1>2
<1>4. /\ Ascending(keys) \in [1 .. Cardinality(keys) -> keys]
      /\ Sorted(keys, Ascending(keys))
  BY <1>3 DEF Ascending
<1>5. PICK c \in Nat : c = Cardinality(keys)
  BY <1>2
<1>6. PICK f : f = Ascending(keys)
  OBVIOUS
<1>7. f \in [1 .. c -> keys] /\ \A i, j \in 1 .. c : i < j => f[i] < f[j]
  BY <1>4, <1>5, <1>6
<1>8. \A i, j \in 1 .. c : i # j => f[i] # f[j]
  <2> TAKE i, j \in 1 .. c
  <2>1. f[i] \in Nat /\ f[j] \in Nat
    BY <1>7
  <2>2. i < j \/ j < i \/ i = j
    BY <1>5
  <2> QED
    BY <1>7, <2>1, <2>2
<1>9. IsFiniteSet(1 .. c) /\ Cardinality(1 .. c) = c
  BY <1>5, FS_Interval, 1 \in Int, c \in Int
<1>10. f \in Injection(1 .. c, keys)
  BY <1>7, <1>8 DEF Injection, IsInjective
<1>11. f \in Surjection(1 .. c, keys)
  BY <1>5, <1>9, <1>10, FS_Injection
<1>12. \A k \in keys : \E i \in 1 .. c : f[i] = k
  BY <1>11 DEF Surjection
<1>13. f \in [1 .. c -> Nat]
  BY <1>7
<1>14. f \in Seq(Nat)
  BY <1>13, <1>5
<1> QED
  BY <1>5, <1>6, <1>7, <1>8, <1>12, <1>14

Distinct(s) == \A i, j \in DOMAIN s : s[i] = s[j] => i = j

\* The part of a sequence at some of its positions holds what is there, each as
\* often as before.
LEMMA AtPositionsProperties ==
    ASSUME NEW S, NEW s \in Seq(S), NEW P \in SUBSET (1 .. Len(s))
    PROVE  /\ AtPositions(s, P) \in Seq(S)
           /\ IsFiniteSet(P) /\ Len(AtPositions(s, P)) = Cardinality(P)
           /\ Cardinality(P) \in Nat /\ Cardinality(P) <= Len(s)
           /\ P # 1 .. Len(s) => Cardinality(P) < Len(s)
           /\ ToSet(AtPositions(s, P)) = {s[i] : i \in P}
           /\ Distinct(s) => Distinct(AtPositions(s, P))
<1>1. PICK n \in Nat : n = Len(s)
  BY LenProperties
<1>2. \A i \in 1 .. n : s[i] \in S
  BY <1>1, ElementOfSeq
<1>3. IsFiniteSet(1 .. n) /\ Cardinality(1 .. n) = n
  <2>1. 1 \in Int /\ n \in Int /\ (IF 1 > n THEN 0 ELSE n - 1 + 1) = n
    BY <1>1
  <2> QED
    BY <2>1, FS_Interval
<1>4. P \in SUBSET (1 .. n)
  BY <1>1
<1>5. IsFiniteSet(P) /\ Cardinality(P) <= n /\ (Cardinality(P) = n => P = 1 .. n)
  BY <1>3, <1>4, FS_Subset
<1>6. P \in SUBSET Nat
  BY <1>4
<1>7. PICK c \in Nat : c = Cardinality(P)
  BY <1>5, FS_CardinalityType
<1>8. PICK f : f = Ascending(P)
  OBVIOUS
<1>9. /\ f \in [1 .. c -> P]
      /\ \A i, j \in 1 .. c : i # j => f[i] # f[j]
      /\ \A k \in P : \E i \in 1 .. c : f[i] = k
  BY <1>5, <1>6, <1>7, <1>8, AscendingProperties
<1>10. PICK t : t = AtPositions(s, P)
  OBVIOUS
<1>11. t = [k \in 1 .. c |-> s[f[k]]]
  BY <1>7, <1>8, <1>10 DEF AtPositions
<1>12. t \in [1 .. c -> S]
  BY <1>2, <1>4, <1>9, <1>11
<1>13. t \in Seq(S) /\ DOMAIN t = 1 .. c
  BY <1>7, <1>12
<1>14. Len(t) = c
  BY <1>7, <1>13
<1>15. ToSet(t) = {s[i] : i \in P}
  <2>1. \A i \in 1 .. c : f[i] \in P /\ t[i] = s[f[i]]
    BY <1>9, <1>11
  <2>2. ToSet(t) = {t[i] : i \in 1 .. c}
    BY <1>13 DEF ToSet
  <2>3. ASSUME NEW x \in {s[i] : i \in P} PROVE x \in {t[i] : i \in 1 .. c}
    <3>1. PICK i \in P : x = s[i]
      BY <2>3
    <3>2. PICK k \in 1 .. c : f[k] = i
      BY <1>9
    <3> QED
      BY <2>1, <3>1, <3>2
  <2>4. ASSUME NEW x \in {t[i] : i \in 1 .. c} PROVE x \in {s[i] : i \in P}
    BY <2>1, <2>4
  <2> QED
    BY <2>2, <2>3, <2>4
<1>16. ASSUME Distinct(s) PROVE Distinct(t)
  <2>1. \A i, j \in 1 .. n : s[i] = s[j] => i = j
    BY <1>1, <1>16, LenProperties DEF Distinct
  <2>2. \A i \in 1 .. c : f[i] \in 1 .. n /\ t[i] = s[f[i]]
    BY <1>4, <1>9, <1>11
  <2>3. ASSUME NEW i \in 1 .. c, NEW j \in 1 .. c, t[i] = t[j] PROVE i = j
    <3>1. f[i] = f[j]
      BY <2>1, <2>2, <2>3
    <3> QED
      BY <1>9, <3>1
  <2> QED
    BY <1>13, <2>3 DEF Distinct
<1> QED
  BY <1>1, <1>5, <1>7, <1>10, <1>13, <1>14, <1>15, <1>16

\* What a sequence holds is finite.
LEMMA ToSetIsFinite ==
    ASSUME NEW S, NEW s \in Seq(S)
    PROVE  IsFiniteSet(ToSet(s))
<1>1. PICK n \in Nat : n = Len(s)
  BY LenProperties
<1>2. IsFiniteSet(1 .. n)
  BY <1>1, FS_Interval
<1>3. s \in Surjection(1 .. n, ToSet(s))
  BY <1>1, LenProperties DEF Surjection, ToSet
<1> QED
  BY <1>2, <1>3, FS_Surjection

\* A set of numbers up to n that is not empty has a greatest one.
LEMMA GreatestNatural ==
    ASSUME NEW n \in Nat, NEW T \in SUBSET (0 .. n), T # {}
    PROVE  \E m \in T : \A k \in T : k <= m
<1> DEFINE U == {n - k : k \in T}
<1>1. U \in SUBSET Nat /\ U # {}
  <2>1. \A k \in 0 .. n : n - k \in Nat
    OBVIOUS
  <2>2. \A k \in T : n - k \in Nat
    BY <2>1
  <2> QED
    BY <2>2
<1>2. PICK m \in U : \A k \in U : m <= k
  <2> HIDE DEF U
  <2> QED
    BY <1>1, LeastNatural
<1>3. PICK t \in T : m = n - t
  BY <1>2
<1>4. \A k \in T : k <= t
  <2> TAKE k \in T
  <2>1. n - k \in U
    OBVIOUS
  <2>2. m <= n - k
    BY <1>2, <2>1
  <2>3. k \in Nat /\ t \in Nat
    OBVIOUS
  <2> QED
    BY ONLY <1>3, <2>2, <2>3, n \in Nat
<1> QED
  BY <1>4

\* A stretch of a sequence.
LEMMA Stretch ==
    ASSUME NEW S, NEW s \in Seq(S), NEW m \in 1 .. Len(s) + 1, NEW n \in m - 1 .. Len(s)
    PROVE  /\ SubSeq(s, m, n) \in Seq(S) /\ Len(SubSeq(s, m, n)) = n - m + 1
           /\ \A k \in 1 .. n - m + 1 : SubSeq(s, m, n)[k] = s[m + k - 1]
<1>0. PICK l \in Nat : l = Len(s) /\ m \in 1 .. l + 1 /\ n \in m - 1 .. l
  BY LenProperties
<1>1. \A k \in m .. n : s[k] \in S
  BY <1>0, ElementOfSeq
<1>2. m \in Int /\ n \in Int
  BY <1>0
<1>3. PICK t : t = SubSeq(s, m, n)
  OBVIOUS
<1>4. /\ t \in Seq(S) /\ Len(t) = (IF m <= n THEN n - m + 1 ELSE 0)
      /\ \A k \in 1 .. n - m + 1 : t[k] = s[m + k - 1]
  BY ONLY <1>1, <1>2, <1>3, SubSeqProperties
<1>5. (IF m <= n THEN n - m + 1 ELSE 0) = n - m + 1
  BY ONLY <1>0
<1> QED
  BY ONLY <1>3, <1>4, <1>5

\* A sequence with m before its p-th element.
LEMMA InsertAtProperties ==
    ASSUME NEW S, NEW s \in Seq(S), NEW p \in 1 .. Len(s) + 1, NEW m \in S
    PROVE  /\ InsertAt(s, p, m) \in Seq(S) /\ Len(InsertAt(s, p, m)) = Len(s) + 1
           /\ \A k \in 1 .. Len(s) + 1 :
                 InsertAt(s, p, m)[k] = IF k < p THEN s[k] ELSE IF k = p THEN m ELSE s[k - 1]
<1>0. PICK n \in Nat : n = Len(s) /\ p \in 1 .. n + 1
  BY LenProperties
<1>1. PICK t : t = SubSeq(s, 1, p - 1)
  OBVIOUS
<1>2. PICK u : u = SubSeq(s, p, n)
  OBVIOUS
<1>3. 1 \in 1 .. n + 1 /\ p - 1 \in 1 - 1 .. n /\ n \in p - 1 .. n
  BY ONLY <1>0, n \in Nat
<1>4. t \in Seq(S) /\ Len(t) = p - 1 /\ \A k \in 1 .. p - 1 : t[k] = s[k]
  <2>1. t \in Seq(S) /\ Len(t) = p - 1 - 1 + 1 /\ \A k \in 1 .. p - 1 - 1 + 1 : t[k] = s[1 + k - 1]
    BY <1>0, <1>1, <1>3, Stretch
  <2>2. p - 1 - 1 + 1 = p - 1 /\ \A k \in 1 .. p - 1 : 1 + k - 1 = k
    BY ONLY <1>0
  <2> QED
    BY ONLY <2>1, <2>2
<1>5. u \in Seq(S) /\ Len(u) = n - p + 1 /\ \A k \in 1 .. n - p + 1 : u[k] = s[p + k - 1]
  BY <1>0, <1>2, <1>3, Stretch
<1>6. PICK w : w = t \o <<m>>
  OBVIOUS
<1>7. <<m>> \in Seq(S) /\ Len(<<m>>) = 1 /\ <<m>>[1] = m
  OBVIOUS
<1>8. /\ w \in Seq(S) /\ Len(w) = Len(t) + Len(<<m>>)
      /\ \A k \in 1 .. Len(t) + Len(<<m>>) : w[k] = IF k <= Len(t) THEN t[k] ELSE <<m>>[k - Len(t)]
  BY ONLY <1>4, <1>6, <1>7, ConcatProperties
<1>9. Len(w) = p /\ (\A k \in 1 .. p - 1 : w[k] = s[k]) /\ w[p] = m
  <2>1. Len(t) + Len(<<m>>) = p /\ p - Len(t) = 1
    BY ONLY <1>0, <1>4, <1>7
  <2> QED
    BY ONLY <1>0, <1>4, <1>7, <1>8, <2>1
<1>10. PICK x : x = w \o u
  OBVIOUS
<1>11. /\ x \in Seq(S) /\ Len(x) = Len(w) + Len(u)
       /\ \A k \in 1 .. Len(w) + Len(u) : x[k] = IF k <= Len(w) THEN w[k] ELSE u[k - Len(w)]
  <2>1. w \in Seq(S) /\ u \in Seq(S)
    BY <1>5, <1>8
  <2> QED
    BY ONLY <1>10, <2>1, ConcatProperties
<1>12. InsertAt(s, p, m) = x
  BY <1>0, <1>1, <1>2, <1>6, <1>10 DEF InsertAt
<1>13. Len(x) = n + 1
  BY ONLY <1>0, <1>5, <1>9, <1>11, n \in Nat
<1>14. \A k \in 1 .. n + 1 : x[k] = IF k < p THEN s[k] ELSE IF k = p THEN m ELSE s[k - 1]
  <2> TAKE k \in 1 .. n + 1
  <2>0. x[k] = IF k <= p THEN w[k] ELSE u[k - p]
    BY ONLY <1>0, <1>5, <1>9, <1>11, n \in Nat, k \in 1 .. n + 1
  <2>1. CASE k <= p
    BY ONLY <1>0, <1>9, <2>0, <2>1, k \in 1 .. n + 1
  <2>2. CASE ~(k <= p)
    <3>1. k - p \in 1 .. n - p + 1 /\ p + (k - p) - 1 = k - 1 /\ ~(k < p) /\ k # p
      BY ONLY <1>0, <2>2, k \in 1 .. n + 1, n \in Nat
    <3> QED
      BY ONLY <1>5, <2>0, <2>2, <3>1
  <2> QED
    BY ONLY <2>1, <2>2
<1> QED
  BY ONLY <1>0, <1>11, <1>12, <1>13, <1>14

\* The elements of a finite set in some order.
LEMMA SetToSeqProperties ==
    ASSUME NEW S, NEW T \in SUBSET S, IsFiniteSet(T)
    PROVE  /\ Cardinality(T) \in Nat /\ SetToSeq(T) \in Seq(S) /\ Len(SetToSeq(T)) = Cardinality(T)
           /\ \A k \in 1 .. Cardinality(T) : SetToSeq(T)[k] \in T
           /\ \A c \in T : \E k \in 1 .. Cardinality(T) : SetToSeq(T)[k] = c
<1>1. PICK n \in Nat : n = Cardinality(T)
  BY FS_CardinalityType
<1>2. ExistsBijection(1 .. n, T)
  BY <1>1, FS_CardinalityType
<1>3. PICK f : f \in Bijection(1 .. n, T)
  BY <1>2 DEF ExistsBijection
<1>4. f \in [1 .. n -> T] /\ IsInjective(f) /\ \A c \in T : \E k \in 1 .. n : f[k] = c
  BY <1>3 DEF Bijection, Injection, Surjection, IsInjective
<1>5. PICK g : g = SetToSeq(T)
  OBVIOUS
<1>6. g \in [1 .. n -> T] /\ IsInjective(g)
  BY <1>1, <1>4, <1>5 DEF SetToSeq
<1>7. \A c \in T : \E k \in 1 .. n : g[k] = c
  <2>1. IsFiniteSet(1 .. n) /\ Cardinality(1 .. n) = n
    BY FS_Interval, 1 \in Int /\ n \in Int
  <2>2. g \in Injection(1 .. n, T)
    BY <1>6 DEF Injection, IsInjective
  <2>3. g \in Surjection(1 .. n, T)
    BY <1>1, <2>1, <2>2, FS_Injection
  <2> QED
    BY <2>3 DEF Surjection
<1>8. g \in Seq(S) /\ Len(g) = n
  BY <1>6
<1> QED
  BY <1>1, <1>5, <1>6, <1>7, <1>8
=============================================================================
