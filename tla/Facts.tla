------------------------------- MODULE Facts -------------------------------
(***************************************************************************)
(* Facts about the library's operators on sets and sequences that the      *)
(* proofs of several components use.                                       *)
(***************************************************************************)
EXTENDS Integers, Sequences, FiniteSets, FiniteSetsExt, Folds, TLAPS, SequenceTheorems,
        FiniteSetTheorems, WellFoundedInduction

\* Min of a nonempty set of naturals is its least element.
LEMMA MinIsLeast ==
    ASSUME NEW S \in SUBSET Nat, S # {}
    PROVE  Min(S) \in S /\ \A y \in S : Min(S) <= y
<1>1. PICK x \in S : \A y \in S : ~ (<<y, x>> \in OpToRel(<, Nat))
  BY NatLessThanWellFounded, WFMin, Zenon
<1>2. \A y \in S : y \in Nat /\ x \in Nat => ~ (y < x)
  BY <1>1, Zenon DEF OpToRel
<1>3. \A y \in S : x <= y
  BY <1>2
<1> QED
  BY <1>3 DEF Min

\* One element is replaced.
LEMMA Replaced ==
    ASSUME NEW T, NEW s \in Seq(T), NEW k \in 1..Len(s), NEW v \in T, NEW r, r = [s EXCEPT ![k] = v]
    PROVE  /\ r \in Seq(T) /\ Len(r) = Len(s) /\ r[k] = v
           /\ \A j \in 1..Len(s) : j # k => r[j] = s[j]
<1> QED OBVIOUS

\* The parts before and behind an element.
IsCut(cut, s, k) == cut = SubSeq(s, 1, k - 1) \o SubSeq(s, k + 1, Len(s))

\* The element is taken out, and those behind it move up by one.
LEMMA CutOut ==
    ASSUME NEW T, NEW s, NEW k, NEW cut, s \in Seq(T), k \in 1..Len(s), IsCut(cut, s, k)
    PROVE  /\ cut \in Seq(T)
           /\ Len(cut) = Len(s) - 1
           /\ \A j \in 1..(Len(s) - 1) : cut[j] = IF j < k THEN s[j] ELSE s[j + 1]
<1> DEFINE a == SubSeq(s, 1, k - 1)
           b == SubSeq(s, k + 1, Len(s))
<1>1. a \in Seq(T) /\ Len(a) = k - 1 /\ \A j \in 1..(k - 1) : a[j] = s[j]
  OBVIOUS
<1>2. b \in Seq(T) /\ Len(b) = Len(s) - k /\ \A j \in 1..(Len(s) - k) : b[j] = s[j + k]
  OBVIOUS
<1>3. cut = a \o b
  BY DEF IsCut
<1> HIDE DEF a, b
<1>4. /\ a \o b \in Seq(T) /\ Len(a \o b) = Len(a) + Len(b)
      /\ \A j \in 1..(Len(a) + Len(b)) : (a \o b)[j] = IF j <= Len(a) THEN a[j] ELSE b[j - Len(a)]
  BY <1>1, <1>2, ConcatProperties
<1>5. ASSUME NEW j \in 1..(Len(s) - 1)
      PROVE  (a \o b)[j] = IF j < k THEN s[j] ELSE s[j + 1]
  <2>1. CASE j < k
    BY <2>1, <1>1, <1>2, <1>4
  <2>2. CASE ~(j < k)
    <3>1. (a \o b)[j] = b[j - (k - 1)]
      BY <2>2, <1>1, <1>2, <1>4
    <3>2. j - (k - 1) \in 1..(Len(s) - k) /\ (j - (k - 1)) + k = j + 1
      BY <2>2
    <3> QED
      BY <3>1, <3>2, <1>2, <2>2
  <2> QED BY <2>1, <2>2
<1>6. Len(a \o b) = Len(s) - 1
  BY <1>1, <1>2, <1>4
<1> QED
  BY <1>3, <1>4, <1>5, <1>6, Zenon

\* Induction over a range of naturals, for the set of those with a property.
LEMMA RangeInduction ==
    ASSUME NEW N \in Nat, NEW G, 0 \in G, \A n \in 1..N : n - 1 \in G => n \in G
    PROVE  \A n \in 0..N : n \in G
<1> DEFINE bad == {n \in 0..N : n \notin G}
<1>1. SUFFICES ASSUME bad # {}
               PROVE  FALSE
  OBVIOUS
<1>2. bad \in SUBSET Nat /\ bad \subseteq 0..N /\ \A n \in 0..N : n \notin bad <=> n \in G
  OBVIOUS
<1> HIDE DEF bad
<1>3. PICK m \in bad : \A k \in bad : m <= k
  BY <1>1, <1>2, MinIsLeast
<1>4. m \in 1..N /\ m - 1 \in 0..N /\ m - 1 \notin bad
  BY <1>2, <1>3
<1> QED BY <1>2, <1>4

\* A function defined by recursion over a range of naturals.
IsRecursive(f, N, base, step) ==
    f = [n \in 0..N |-> IF n = 0 THEN base ELSE step[n][f[n - 1]]]

\* Such a function exists: the ones of the shorter ranges are extended one by
\* one.
LEMMA RecursionExists ==
    ASSUME NEW N \in Nat, NEW base, NEW step
    PROVE  \E f : IsRecursive(f, N, base, step)
<1> DEFINE Def(k, f) == f = [n \in 0..k |-> IF n = 0 THEN base ELSE step[n][f[n - 1]]]
           good == {k \in 0..N : \E f : Def(k, f)}
<1>1. 0 \in good
  <2>1. Def(0, [n \in 0..0 |-> base])
    OBVIOUS
  <2>2. 0 \in 0..N
    OBVIOUS
  <2> QED BY <2>1, <2>2, Zenon
<1>2. ASSUME NEW m \in 1..N, m - 1 \in good
      PROVE  m \in good
  <2>1. PICK f : Def(m - 1, f)
    BY <1>2
  <2> DEFINE h == [n \in 0..m |-> IF n = m THEN step[m][f[m - 1]] ELSE f[n]]
  <2>2. ASSUME NEW n \in 0..m
        PROVE  h[n] = IF n = 0 THEN base ELSE step[n][h[n - 1]]
    <3>1. CASE n = m
      <4>1. m - 1 \in 0..m /\ m - 1 # m /\ m # 0
        OBVIOUS
      <4>2. h[m - 1] = f[m - 1] /\ h[m] = step[m][f[m - 1]]
        BY <4>1
      <4> QED BY <3>1, <4>1, <4>2
    <3>2. CASE n # m
      <4>1. n \in 0..(m - 1) /\ h[n] = f[n]
        BY <3>2
      <4>2. f[n] = IF n = 0 THEN base ELSE step[n][f[n - 1]]
        BY <2>1, <4>1
      <4>3. n # 0 => h[n - 1] = f[n - 1]
        BY <4>1
      <4> HIDE DEF h
      <4> QED BY <4>1, <4>2, <4>3
    <3> QED BY <3>1, <3>2
  <2>3. Def(m, h)
    <3>1. h = [n \in 0..m |-> h[n]]
      OBVIOUS
    <3> HIDE DEF h
    <3> QED BY <3>1, <2>2, Zenon
  <2>4. m \in 0..N
    OBVIOUS
  <2> QED BY <2>3, <2>4, Zenon
<1>3. \A n \in 0..N : n \in good
  <2> HIDE DEF good
  <2> QED BY <1>1, <1>2, RangeInduction
<1>4. N \in good
  <2>1. N \in 0..N
    OBVIOUS
  <2> HIDE DEF good
  <2> QED BY <1>3, <2>1
<1>5. PICK f : Def(N, f)
  BY <1>4, Zenon
<1> QED BY <1>5, Zenon DEF IsRecursive

\* What such a function is at 0 and at n.
LEMMA RecursionEquation ==
    ASSUME NEW N \in Nat, NEW base, NEW step, NEW f, IsRecursive(f, N, base, step)
    PROVE  /\ f = [n \in 0..N |-> f[n]]
           /\ f[0] = base
           /\ \A n \in 1..N : f[n] = step[n][f[n - 1]]
<1>1. \A n \in 0..N : f[n] = IF n = 0 THEN base ELSE step[n][f[n - 1]]
  BY Zenon DEF IsRecursive
<1>2. 0 \in 0..N /\ \A n \in 1..N : n \in 0..N /\ n # 0
  OBVIOUS
<1>3. f[0] = base /\ \A n \in 1..N : f[n] = step[n][f[n - 1]]
  BY <1>1, <1>2, Zenon
<1>4. f = [n \in 0..N |-> f[n]]
  BY Zenon DEF IsRecursive
<1> QED BY <1>3, <1>4

\* The function of running sums is such a function.
LEMMA RunningSumExists ==
    ASSUME NEW N \in Nat, NEW g \in [1..N -> Nat]
    PROVE  \E f : f = [n \in 0..N |-> IF n = 0 THEN 0 ELSE f[n - 1] + g[n]]
<1> DEFINE good(f) == {n \in 0..N : f[n] \in Nat}
<1>0. PICK step : step = [n \in 1..N |-> [v \in Nat |-> v + g[n]]]
  OBVIOUS
<1>1. PICK f : f = [n \in 0..N |-> IF n = 0 THEN 0 ELSE step[n][f[n - 1]]]
  <2>1. PICK f : IsRecursive(f, N, 0, step)
    BY RecursionExists
  <2> QED BY <2>1, Zenon DEF IsRecursive
<1>2. ASSUME NEW n \in 1..N, NEW v \in Nat
      PROVE  step[n][v] = v + g[n]
  BY <1>0
<1>3. \A n \in 0..N : f[n] = IF n = 0 THEN 0 ELSE step[n][f[n - 1]]
  BY <1>1, Zenon
<1>4. 0 \in good(f)
  <2>1. 0 \in 0..N
    OBVIOUS
  <2>2. f[0] = 0
    BY <1>3, <2>1
  <2> QED BY <2>1, <2>2
<1>5. ASSUME NEW n \in 1..N, n - 1 \in good(f)
      PROVE  n \in good(f)
  <2>1. f[n - 1] \in Nat /\ n \in 0..N /\ n # 0 /\ g[n] \in Nat
    BY <1>5
  <2>2. f[n] = f[n - 1] + g[n]
    BY <2>1, <1>2, <1>3
  <2> QED BY <2>1, <2>2
<1>6. \A n \in 0..N : n \in good(f)
  <2> HIDE DEF good
  <2> QED BY <1>4, <1>5, RangeInduction
<1>7. ASSUME NEW n \in 0..N
      PROVE  f[n] = IF n = 0 THEN 0 ELSE f[n - 1] + g[n]
  <2>1. CASE n = 0
    BY <2>1, <1>3
  <2>2. CASE n # 0
    <3>1. n \in 1..N /\ n - 1 \in 0..N
      BY <2>2
    <3>2. f[n - 1] \in Nat
      BY <3>1, <1>6
    <3> QED BY <2>2, <3>1, <3>2, <1>2, <1>3
  <2> QED BY <2>1, <2>2
<1>8. f = [n \in 0..N |-> IF n = 0 THEN 0 ELSE f[n - 1] + g[n]]
  <2>1. f = [n \in 0..N |-> f[n]]
    BY <1>1, Zenon
  <2> QED BY <2>1, <1>7, Zenon
<1> QED BY <1>8

\* What such a function computes, where the summands are positive: it grows
\* with every step.
LEMMA RunningSum ==
    ASSUME NEW N \in Nat, NEW g \in [1..N -> Nat \ {0}], NEW f
    PROVE  f = [n \in 0..N |-> IF n = 0 THEN 0 ELSE f[n - 1] + g[n]] =>
               /\ f \in [0..N -> Nat]
               /\ f[0] = 0
               /\ \A n \in 1..N : f[n] = f[n - 1] + g[n]
               /\ \A i, j \in 0..N : i < j => f[i] < f[j]
<1>0. SUFFICES ASSUME f = [n \in 0..N |-> IF n = 0 THEN 0 ELSE f[n - 1] + g[n]]
               PROVE  /\ f \in [0..N -> Nat]
                      /\ f[0] = 0
                      /\ \A n \in 1..N : f[n] = f[n - 1] + g[n]
                      /\ \A i, j \in 0..N : i < j => f[i] < f[j]
  OBVIOUS
<1>1. g \in [1..N -> Nat]
  OBVIOUS
<1>2. f[0] = 0 /\ \A n \in 1..N : f[n] = f[n - 1] + g[n]
  <2>1. ASSUME NEW n \in 0..N
        PROVE  f[n] = IF n = 0 THEN 0 ELSE f[n - 1] + g[n]
    BY <1>0, Zenon
  <2>2. 0 \in 0..N /\ \A n \in 1..N : n \in 0..N /\ n # 0
    OBVIOUS
  <2> QED BY <2>1, <2>2, Zenon
<1>3. \A n \in 0..N : f[n] \in Nat
  <2> DEFINE bad == {n \in 0..N : f[n] \notin Nat}
  <2>1. SUFFICES ASSUME bad # {}
                 PROVE  FALSE
    OBVIOUS
  <2>2. bad \in SUBSET Nat /\ bad \subseteq 0..N /\ \A n \in 0..N : n \notin bad => f[n] \in Nat
    OBVIOUS
  <2>3. \A n \in bad : f[n] \notin Nat
    OBVIOUS
  <2> HIDE DEF bad
  <2>4. PICK m \in bad : \A k \in bad : m <= k
    BY <2>1, <2>2, MinIsLeast
  <2>5. m \in 1..N
    BY <2>2, <2>3, <1>2
  <2>6. m - 1 \in 0..N /\ m - 1 \notin bad
    BY <2>2, <2>4, <2>5
  <2>7. f[m - 1] \in Nat /\ g[m] \in Nat
    BY <2>2, <2>5, <2>6, <1>1
  <2>8. f[m] = f[m - 1] + g[m] /\ f[m] \notin Nat
    BY <2>3, <2>5, <1>2
  <2> HIDE DEF bad
  <2> QED BY <2>7, <2>8
<1>4. f \in [0..N -> Nat]
  <2>1. f = [n \in 0..N |-> f[n]]
    BY <1>0, Zenon
  <2> QED BY <2>1, <1>3, Zenon
<1>5. ASSUME NEW i \in 0..N
      PROVE  \A j \in 0..N : i < j => f[i] < f[j]
  <2> DEFINE bad == {n \in 0..N : i < n /\ ~(f[i] < f[n])}
  <2>1. SUFFICES ASSUME bad # {}
                 PROVE  FALSE
    OBVIOUS
  <2>2. bad \in SUBSET Nat /\ bad \subseteq 0..N
    OBVIOUS
  <2>3. /\ \A n \in bad : i < n /\ ~(f[i] < f[n])
        /\ \A n \in 0..N : n \notin bad /\ i < n => f[i] < f[n]
    OBVIOUS
  <2> HIDE DEF bad
  <2>4. PICK m \in bad : \A k \in bad : m <= k
    BY <2>1, <2>2, MinIsLeast
  <2>5. m \in 1..N /\ m - 1 \in 0..N /\ m - 1 \notin bad
    BY <2>2, <2>3, <2>4
  <2>6. f[m] = f[m - 1] + g[m] /\ g[m] \in Nat \ {0} /\ f[m - 1] \in Nat /\ f[i] \in Nat
    BY <2>5, <1>2, <1>4
  <2>7. i < m - 1 => f[i] < f[m - 1]
    BY <2>3, <2>5
  <2>8. i = m - 1 \/ i < m - 1
    BY <2>3, <2>5
  <2>9. ~(f[i] < f[m - 1] + g[m])
    BY <2>3, <2>6
  <2>10. f[i] < f[m - 1] \/ f[i] = f[m - 1]
    BY <2>7, <2>8
  <2> QED BY <2>6, <2>9, <2>10
<1> QED BY <1>2, <1>4, <1>5, Zenon
-----------------------------------------------------------------------------
(***************************************************************************)
(* Sums over finite sets: MapThenSumSet takes the elements in an order     *)
(* that CHOOSE determines, and the sum does not depend on it.              *)
(***************************************************************************)

SetSum(f, S) == MapThenSumSet(LAMBDA x : f[x], S)

\* The element that a fold takes first.
Chosen(s) == CHOOSE x \in s : TRUE

\* The recursive function behind SetSum: the sum over every subset of S.
IsSum(iter, f, S) ==
    iter = [s \in SUBSET S |-> IF s = {} THEN 0 ELSE f[Chosen(s)] + iter[s \ {Chosen(s)}]]

\* Sets of smaller cardinality come first: a set of sets has a least one.
LEMMA SmallestSet ==
    ASSUME NEW S, IsFiniteSet(S), NEW bad \in SUBSET SUBSET S, bad # {}
    PROVE  \E s \in bad : \A r \in bad : Cardinality(s) <= Cardinality(r)
<1> DEFINE sizes == {Cardinality(s) : s \in bad}
<1>1. sizes \in SUBSET Nat /\ sizes # {}
  <2>1. \A s \in bad : Cardinality(s) \in Nat
    BY FS_Subset, FS_CardinalityType
  <2> QED BY <2>1
<1>2. PICK n \in sizes : \A m \in sizes : n <= m
  <2> HIDE DEF sizes
  <2> QED BY <1>1, MinIsLeast
<1>3. PICK s \in bad : n = Cardinality(s)
  OBVIOUS
<1>4. \A r \in bad : Cardinality(s) <= Cardinality(r)
  BY <1>2, <1>3
<1> QED BY <1>4

\* A nonempty finite set without one of its elements is smaller.
LEMMA Smaller ==
    ASSUME NEW S, IsFiniteSet(S), NEW s \in SUBSET S, NEW x \in s
    PROVE  /\ s \ {x} \in SUBSET S
           /\ IsFiniteSet(s) /\ Cardinality(s) \in Nat
           /\ Cardinality(s \ {x}) = Cardinality(s) - 1
<1>1. IsFiniteSet(s)
  BY FS_Subset
<1>2. Cardinality(s) \in Nat
  BY <1>1, FS_CardinalityType
<1>3. Cardinality(s \ {x}) = Cardinality(s) - 1
  BY <1>1, FS_RemoveElement
<1> QED BY <1>1, <1>2, <1>3

\* The recursive function exists: the ones of the subsets of at most n elements
\* are extended to those of n + 1.
LEMMA SumExists ==
    ASSUME NEW S, IsFiniteSet(S), NEW f
    PROVE  \E iter : IsSum(iter, f, S)
<1> DEFINE Small(n) == {s \in SUBSET S : Cardinality(s) <= n}
           Sum(n, it) == it = [s \in Small(n) |-> IF s = {} THEN 0
                                                 ELSE f[Chosen(s)] + it[s \ {Chosen(s)}]]
           bad == {n \in Nat : \A it : ~Sum(n, it)}
<1>1. Cardinality(S) \in Nat /\ \A s \in SUBSET S : IsFiniteSet(s) /\ Cardinality(s) \in 0..Cardinality(S)
  <2>1. \A s \in SUBSET S : IsFiniteSet(s) /\ Cardinality(s) <= Cardinality(S)
    BY FS_Subset
  <2>2. \A s \in SUBSET S : Cardinality(s) \in Nat
    BY <2>1, FS_CardinalityType
  <2>3. Cardinality(S) \in Nat
    BY FS_CardinalityType
  <2> QED BY <2>1, <2>2, <2>3
<1>2. Small(Cardinality(S)) = SUBSET S
  BY <1>1
<1>3. SUFFICES ASSUME Cardinality(S) \in bad
               PROVE  FALSE
  <2>1. (\E it : Sum(Cardinality(S), it)) => \E iter : IsSum(iter, f, S)
    BY <1>2, Zenon DEF IsSum
  <2> HIDE DEF Sum
  <2> QED BY <1>1, <2>1
<1>4. PICK m \in bad : \A n \in bad : m <= n
  <2>1. bad \in SUBSET Nat /\ bad # {}
    BY <1>3
  <2> HIDE DEF bad
  <2> QED BY <2>1, MinIsLeast
<1>5. m # 0
  <2>1. Small(0) = {{}}
    <3>1. \A s \in SUBSET S : Cardinality(s) <= 0 <=> s = {}
      BY <1>1, FS_EmptySet
    <3> QED BY <3>1, Zenon
  <2>2. Sum(0, [s \in {{}} |-> 0])
    <3>1. Sum(0, [s \in {{}} |-> 0]) <=>
            [s \in {{}} |-> 0] = [s \in {{}} |-> IF s = {} THEN 0
                    ELSE f[Chosen(s)] + [r \in {{}} |-> 0][s \ {Chosen(s)}]]
      BY <2>1, Zenon
    <3> QED BY <3>1, Zenon
  <2> QED BY <2>2
<1>6. m - 1 \in Nat /\ m - 1 \notin bad /\ m \in Nat
  <2>1. bad \subseteq Nat
    OBVIOUS
  <2> HIDE DEF bad
  <2> QED BY <1>4, <1>5, <2>1
<1>7. PICK g : Sum(m - 1, g)
  BY <1>6
<1> DEFINE h == [s \in Small(m) |-> IF s = {} THEN 0 ELSE f[Chosen(s)] + g[s \ {Chosen(s)}]]
<1>8. ASSUME NEW s \in Small(m), s # {}
      PROVE  s \ {Chosen(s)} \in Small(m - 1) /\ s \ {Chosen(s)} \in Small(m)
  <2>1. Chosen(s) \in s /\ s \in SUBSET S /\ Cardinality(s) <= m
    BY <1>8 DEF Chosen
  <2>2. /\ s \ {Chosen(s)} \in SUBSET S /\ Cardinality(s) \in Nat
        /\ Cardinality(s \ {Chosen(s)}) = Cardinality(s) - 1
    BY <2>1, Smaller
  <2> QED BY <2>1, <2>2, <1>6
<1>9. ASSUME NEW r \in Small(m - 1)
      PROVE  h[r] = g[r]
  <2>1. r \in Small(m)
    BY <1>1, <1>6
  <2>2. g[r] = IF r = {} THEN 0 ELSE f[Chosen(r)] + g[r \ {Chosen(r)}]
    BY <1>7, Zenon
  <2>3. h[r] = IF r = {} THEN 0 ELSE f[Chosen(r)] + g[r \ {Chosen(r)}]
    BY <2>1, Zenon
  <2> QED BY <2>2, <2>3
<1>10. ASSUME NEW s \in Small(m)
       PROVE  h[s] = IF s = {} THEN 0 ELSE f[Chosen(s)] + h[s \ {Chosen(s)}]
  <2>1. h[s] = IF s = {} THEN 0 ELSE f[Chosen(s)] + g[s \ {Chosen(s)}]
    BY Zenon
  <2>2. s # {} => h[s \ {Chosen(s)}] = g[s \ {Chosen(s)}]
    BY <1>8, <1>9, Zenon
  <2> HIDE DEF h
  <2> QED BY <2>1, <2>2, Zenon
<1>11. Sum(m, h)
  <2>1. h = [s \in Small(m) |-> h[s]]
    BY Zenon
  <2> HIDE DEF h, Small
  <2> QED BY <2>1, <1>10, Zenon
<1> QED BY <1>11, <1>4, Zenon

\* The equation of the recursive function, at a subset.
LEMMA SumEquation ==
    ASSUME NEW S, NEW f, NEW iter, IsSum(iter, f, S), NEW s \in SUBSET S
    PROVE  iter[s] = IF s = {} THEN 0 ELSE f[Chosen(s)] + iter[s \ {Chosen(s)}]
<1> QED BY Zenon DEF IsSum

\* Sums over the same elements are the same, whatever set they are a part of.
LEMMA SumAgrees ==
    ASSUME NEW S, IsFiniteSet(S), NEW R, NEW f, NEW g, NEW i, NEW j,
           IsSum(i, f, S), IsSum(j, g, R)
    PROVE  \A s \in SUBSET S : s \subseteq R /\ (\A x \in s : f[x] = g[x]) => i[s] = j[s]
<1> DEFINE bad == {s \in SUBSET S : s \subseteq R /\ (\A x \in s : f[x] = g[x]) /\ i[s] # j[s]}
<1>1. SUFFICES ASSUME bad # {}
               PROVE  FALSE
  BY Zenon
<1>2. PICK s \in bad : \A r \in bad : Cardinality(s) <= Cardinality(r)
  <2>1. bad \in SUBSET SUBSET S
    OBVIOUS
  <2> HIDE DEF bad
  <2> QED BY <1>1, <2>1, SmallestSet
<1>3. s \in SUBSET S /\ s \in SUBSET R /\ (\A x \in s : f[x] = g[x]) /\ i[s] # j[s]
  BY <1>2
<1>4. /\ i[s] = IF s = {} THEN 0 ELSE f[Chosen(s)] + i[s \ {Chosen(s)}]
      /\ j[s] = IF s = {} THEN 0 ELSE g[Chosen(s)] + j[s \ {Chosen(s)}]
  BY <1>3, SumEquation
<1>5. s # {}
  BY <1>3, <1>4
<1>6. Chosen(s) \in s
  BY <1>5 DEF Chosen
<1>7. PICK r : r = s \ {Chosen(s)}
  OBVIOUS
<1>8. /\ r \in SUBSET S /\ Cardinality(s) \in Nat
      /\ Cardinality(r) = Cardinality(s) - 1
  BY <1>3, <1>6, <1>7, Smaller
<1>9. r \notin bad
  <2> HIDE DEF bad
  <2> QED BY <1>2, <1>8
<1>10. i[r] = j[r]
  <2>1. r \subseteq R /\ (\A x \in r : f[x] = g[x])
    BY <1>3, <1>7
  <2> QED BY <1>8, <1>9, <2>1
<1> QED BY <1>3, <1>4, <1>6, <1>7, <1>10

\* Any element may be taken out first.
LEMMA SumAnyOrder ==
    ASSUME NEW S, IsFiniteSet(S), NEW f, NEW iter, IsSum(iter, f, S),
           \A x \in S : f[x] \in Nat
    PROVE  \A s \in SUBSET S : iter[s] \in Nat /\ \A x \in s : iter[s] = f[x] + iter[s \ {x}]
<1> DEFINE OK(s) == iter[s] \in Nat /\ \A x \in s : iter[s] = f[x] + iter[s \ {x}]
           bad == {s \in SUBSET S : ~OK(s)}
<1>1. SUFFICES ASSUME bad # {}
               PROVE  FALSE
  BY Zenon
<1>2. PICK s \in bad : \A r \in bad : Cardinality(s) <= Cardinality(r)
  <2>1. bad \in SUBSET SUBSET S
    OBVIOUS
  <2> HIDE DEF bad
  <2> QED BY <1>1, <2>1, SmallestSet
<1>3. s \in SUBSET S /\ ~OK(s)
  BY <1>2, Zenon
<1>4. ASSUME NEW y \in s
      PROVE  s \ {y} \in SUBSET S /\ OK(s \ {y})
  <2>1. /\ s \ {y} \in SUBSET S /\ Cardinality(s) \in Nat
        /\ Cardinality(s \ {y}) = Cardinality(s) - 1
    BY <1>3, Smaller
  <2>2. s \ {y} \notin bad
    <3> HIDE DEF bad
    <3> QED BY <1>2, <2>1
  <2> QED BY <2>1, <2>2, Zenon
<1>5. iter[s] = IF s = {} THEN 0 ELSE f[Chosen(s)] + iter[s \ {Chosen(s)}]
  BY <1>3, SumEquation
<1>6. s # {}
  BY <1>3, <1>5
<1>7. PICK c \in s : c = Chosen(s)
  BY <1>6 DEF Chosen
<1>8. iter[s] = f[c] + iter[s \ {c}] /\ f[c] \in Nat /\ iter[s \ {c}] \in Nat
  BY <1>3, <1>4, <1>5, <1>6, <1>7
<1>9. ASSUME NEW x \in s, x # c
      PROVE  iter[s] = f[x] + iter[s \ {x}]
  <2>1. iter[s \ {c}] = f[x] + iter[(s \ {c}) \ {x}]
    BY <1>4, <1>9
  <2>2. iter[s \ {x}] = f[c] + iter[(s \ {x}) \ {c}]
    BY <1>4, <1>7, <1>9
  <2>3. (s \ {c}) \ {x} = (s \ {x}) \ {c}
    OBVIOUS
  <2>4. f[x] \in Nat
    BY <1>3, <1>9
  <2>5. iter[(s \ {c}) \ {x}] \in Nat
    <3>1. PICK r : r = s \ {c}
      OBVIOUS
    <3>2. r \in SUBSET S /\ x \in r
      BY <1>4, <1>7, <1>9, <3>1
    <3>3. Cardinality(r) = Cardinality(s) - 1 /\ Cardinality(s) \in Nat
      BY <1>3, <1>7, <3>1, Smaller
    <3>4. /\ r \ {x} \in SUBSET S /\ Cardinality(r) \in Nat
          /\ Cardinality(r \ {x}) = Cardinality(r) - 1
      BY <3>2, Smaller
    <3>5. r \ {x} \notin bad
      <4> HIDE DEF bad
      <4> QED BY <1>2, <3>3, <3>4
    <3> QED BY <3>1, <3>4, <3>5
  <2>6. PICK u, v, w : u = iter[s \ {c}] /\ v = iter[s \ {x}] /\ w = iter[(s \ {c}) \ {x}]
    OBVIOUS
  <2>7. u = f[x] + w /\ v = f[c] + w /\ w \in Nat /\ iter[s] = f[c] + u
    BY <1>8, <2>1, <2>2, <2>3, <2>5, <2>6
  <2>8. iter[s] = f[x] + v
    BY <1>8, <2>4, <2>7
  <2> QED BY <2>6, <2>8
<1>10. OK(s)
  <2>1. iter[s] \in Nat
    BY <1>8
  <2>2. \A x \in s : iter[s] = f[x] + iter[s \ {x}]
    BY <1>8, <1>9, Zenon
  <2> QED BY <2>1, <2>2
<1> QED BY <1>3, <1>10

\* SetSum is the recursive function at the whole set.
LEMMA SetSumIs ==
    ASSUME NEW S, IsFiniteSet(S), NEW f
    PROVE  \E iter : IsSum(iter, f, S) /\ SetSum(f, S) = iter[S]
<1>1. SetSum(f, S) = (CHOOSE iter : iter = [s \in SUBSET S |->
          IF s = {} THEN 0 ELSE f[Chosen(s)] + iter[s \ {Chosen(s)}]])[S]
  BY DEF SetSum, MapThenSumSet, MapThenFoldSet, Chosen
<1>2. SetSum(f, S) = (CHOOSE iter : IsSum(iter, f, S))[S]
  BY <1>1, Zenon DEF IsSum
<1> QED BY <1>2, SumExists

\* The sum over no elements, and over one more.
LEMMA SetSumStep ==
    ASSUME NEW S, IsFiniteSet(S), NEW f, \A x \in S : f[x] \in Nat
    PROVE  /\ SetSum(f, S) \in Nat
           /\ S = {} => SetSum(f, S) = 0
           /\ \A x \in S : SetSum(f, S) = f[x] + SetSum(f, S \ {x})
<1>1. PICK i : IsSum(i, f, S) /\ SetSum(f, S) = i[S]
  BY SetSumIs
<1>2. SetSum(f, S) \in Nat /\ \A x \in S : i[S] = f[x] + i[S \ {x}]
  <2>1. S \in SUBSET S
    OBVIOUS
  <2>2. \A s \in SUBSET S : i[s] \in Nat /\ \A x \in s : i[s] = f[x] + i[s \ {x}]
    BY <1>1, SumAnyOrder
  <2> QED BY <1>1, <2>1, <2>2, Zenon
<1>3. S = {} => SetSum(f, S) = 0
  <2>1. S \in SUBSET S
    OBVIOUS
  <2> QED BY <1>1, <2>1, SumEquation
<1>4. ASSUME NEW x \in S
      PROVE  i[S \ {x}] = SetSum(f, S \ {x})
  <2>1. PICK R : R = S \ {x}
    OBVIOUS
  <2>2. IsFiniteSet(R) /\ R \in SUBSET S
    BY <2>1, FS_RemoveElement
  <2>3. PICK j : IsSum(j, f, R) /\ SetSum(f, R) = j[R]
    BY <2>2, SetSumIs
  <2>4. i[R] = j[R]
    BY <1>1, <2>2, <2>3, SumAgrees
  <2> QED BY <2>1, <2>3, <2>4
<1> QED BY <1>1, <1>2, <1>3, <1>4

\* Functions that agree on a set have the same sum over it.
LEMMA SetSumSame ==
    ASSUME NEW S, IsFiniteSet(S), NEW f, NEW g, \A x \in S : f[x] = g[x]
    PROVE  SetSum(f, S) = SetSum(g, S)
<1>1. PICK i : IsSum(i, f, S) /\ SetSum(f, S) = i[S]
  BY SetSumIs
<1>2. PICK j : IsSum(j, g, S) /\ SetSum(g, S) = j[S]
  BY SetSumIs
<1>3. i[S] = j[S]
  BY <1>1, <1>2, SumAgrees
<1> QED BY <1>1, <1>2, <1>3

\* One element's summand changes.
LEMMA SetSumChange ==
    ASSUME NEW S, IsFiniteSet(S), NEW f, NEW g, NEW x \in S,
           \A y \in S : f[y] \in Nat /\ g[y] \in Nat,
           \A y \in S \ {x} : f[y] = g[y]
    PROVE  SetSum(g, S) = SetSum(f, S) - f[x] + g[x]
<1>1. IsFiniteSet(S \ {x})
  BY FS_RemoveElement
<1>2. SetSum(f, S \ {x}) = SetSum(g, S \ {x}) /\ SetSum(f, S \ {x}) \in Nat
  BY <1>1, SetSumSame, SetSumStep
<1>3. SetSum(f, S) = f[x] + SetSum(f, S \ {x}) /\ SetSum(g, S) = g[x] + SetSum(g, S \ {x})
  BY SetSumStep
<1>4. f[x] \in Nat /\ g[x] \in Nat
  OBVIOUS
<1> QED BY <1>2, <1>3, <1>4

\* One element is added.
LEMMA SetSumAdd ==
    ASSUME NEW S, IsFiniteSet(S), NEW f, NEW x, x \notin S,
           \A y \in S \cup {x} : f[y] \in Nat
    PROVE  SetSum(f, S \cup {x}) = SetSum(f, S) + f[x]
<1>1. IsFiniteSet(S \cup {x}) /\ (S \cup {x}) \ {x} = S
  BY FS_AddElement
<1>2. SetSum(f, S \cup {x}) = f[x] + SetSum(f, S) /\ SetSum(f, S) \in Nat /\ f[x] \in Nat
  BY <1>1, SetSumStep
<1> QED BY <1>2

\* A sum of zeros.
LEMMA SetSumZero ==
    ASSUME NEW S, IsFiniteSet(S), NEW f, \A x \in S : f[x] = 0
    PROVE  SetSum(f, S) = 0
<1> DEFINE bad == {s \in SUBSET S : SetSum(f, s) # 0}
<1>1. SUFFICES ASSUME bad # {}
               PROVE  FALSE
  OBVIOUS
<1>2. bad \in SUBSET SUBSET S
  OBVIOUS
<1>3. PICK s \in bad : \A r \in bad : Cardinality(s) <= Cardinality(r)
  <2> HIDE DEF bad
  <2> QED BY <1>1, <1>2, SmallestSet
<1>4. s \in SUBSET S /\ IsFiniteSet(s) /\ SetSum(f, s) # 0 /\ \A x \in s : f[x] \in Nat
  BY <1>3, FS_Subset
<1>5. PICK x \in s : TRUE
  BY <1>4, SetSumStep
<1>6. s \ {x} \in SUBSET S /\ Cardinality(s \ {x}) = Cardinality(s) - 1 /\ Cardinality(s) \in Nat
  BY <1>4, Smaller
<1>7. s \ {x} \notin bad
  <2> HIDE DEF bad
  <2> QED BY <1>3, <1>6
<1>8. SetSum(f, s \ {x}) = 0
  BY <1>6, <1>7
<1>9. SetSum(f, s) = f[x] + SetSum(f, s \ {x})
  BY <1>4, SetSumStep
<1> QED BY <1>4, <1>8, <1>9

\* Sets of at most so many elements each: together they have at most the sum.
LEMMA UnionBound ==
    ASSUME NEW S, IsFiniteSet(S), NEW f, NEW L,
           \A x \in S : f[x] \in Nat /\ IsFiniteSet(L[x]) /\ Cardinality(L[x]) <= f[x]
    PROVE  /\ IsFiniteSet(UNION {L[x] : x \in S})
           /\ Cardinality(UNION {L[x] : x \in S}) <= SetSum(f, S)
<1> DEFINE U(s) == UNION {L[x] : x \in s}
           OK(s) == IsFiniteSet(U(s)) /\ Cardinality(U(s)) <= SetSum(f, s)
           bad == {s \in SUBSET S : ~OK(s)}
<1>1. SUFFICES ASSUME bad # {}
               PROVE  FALSE
  <2>1. S \in SUBSET S
    OBVIOUS
  <2>2. OK(S)
    BY <2>1, Zenon
  <2> QED BY <2>2, Zenon
<1>2. PICK s \in bad : \A r \in bad : Cardinality(s) <= Cardinality(r)
  <2>1. bad \in SUBSET SUBSET S
    OBVIOUS
  <2> HIDE DEF bad
  <2> QED BY <1>1, <2>1, SmallestSet
<1>3. s \in SUBSET S /\ ~OK(s) /\ IsFiniteSet(s)
  <2>1. s \in SUBSET S /\ ~OK(s)
    BY <1>2, Zenon
  <2> QED BY <2>1, FS_Subset
<1>4. s # {}
  <2>1. ASSUME s = {} PROVE OK(s)
    <3>1. U(s) = {}
      BY <2>1
    <3>2. SetSum(f, s) = 0
      BY <1>3, <2>1, SetSumStep
    <3> HIDE DEF U
    <3> QED BY <3>1, <3>2, FS_EmptySet
  <2> QED BY <1>3, <2>1
<1>5. PICK x \in s : TRUE
  BY <1>4
<1>6. PICK r : r = s \ {x}
  OBVIOUS
<1>7. OK(r)
  <2>1. /\ r \in SUBSET S /\ Cardinality(s) \in Nat
        /\ Cardinality(r) = Cardinality(s) - 1
    BY <1>3, <1>6, Smaller
  <2>2. r \notin bad
    <3> HIDE DEF bad
    <3> QED BY <1>2, <2>1
  <2> QED BY <2>1, <2>2, Zenon
<1>8. SetSum(f, s) = f[x] + SetSum(f, r) /\ SetSum(f, r) \in Nat
  <2>1. IsFiniteSet(r)
    BY <1>3, <1>6, FS_RemoveElement
  <2> QED BY <1>3, <1>6, <2>1, SetSumStep
<1>9. U(s) = L[x] \cup U(r)
  BY <1>6
<1>10. IsFiniteSet(L[x]) /\ Cardinality(L[x]) <= f[x] /\ f[x] \in Nat
  BY <1>3, <1>5
<1> HIDE DEF U
<1>11. /\ IsFiniteSet(U(s)) /\ IsFiniteSet(L[x] \cap U(r))
       /\ Cardinality(U(s)) = Cardinality(L[x]) + Cardinality(U(r)) - Cardinality(L[x] \cap U(r))
  <2>1. IsFiniteSet(L[x] \cap U(r))
    BY <1>10, FS_Intersection
  <2> QED BY <1>7, <1>9, <1>10, <2>1, FS_Union
<1>12. /\ Cardinality(L[x]) \in Nat /\ Cardinality(U(r)) \in Nat
       /\ Cardinality(L[x] \cap U(r)) \in Nat
  BY <1>7, <1>10, <1>11, FS_CardinalityType
<1>13. OK(s)
  BY <1>7, <1>8, <1>10, <1>11, <1>12
<1> QED BY <1>3, <1>13
=============================================================================
