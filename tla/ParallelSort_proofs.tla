---------------------------- MODULE ParallelSort_proofs ----------------------------
(***************************************************************************)
(* make_SA of the naive construction returns the suffix array, for every   *)
(* corpus and grain size and whatever the threads do. A thread shuffles    *)
(* the cells of its own range and no others (Shuffle); that keeps cells of *)
(* different ranges in order (RangeStep), and a partition puts every cell  *)
(* in order with the key (PartitionStep).                                  *)
(***************************************************************************)
EXTENDS ParallelSort, SuffixOrder_proofs

\* The vector a holds every suffix, the empty one first.
Suffixes(a) ==
  /\ a \in [0 .. n -> 0 .. n] /\ a[0] = n
  /\ \A p, q \in 0 .. n : a[p] = a[q] => p = q

\* b is a with the cells in C put in another order.
Shuffle(a, b, C) ==
  \A p \in 0 .. n : IF p \in C THEN \E q \in C : b[p] = a[q] ELSE b[p] = a[p]

RangeType ==
  [begin : Int, size : Int, at : {"ready", "down", "up"}, i : Int, j : Int]

RangeOK(r) ==
  /\ r \in RangeType
  /\ 1 <= r.begin /\ 0 <= r.size /\ r.begin + r.size <= n + 1

\* What split_range knows of the cells left of i and right of j. Before j goes down
\* again there is a cell left of it that stops it.
Scanned(a, r) ==
  /\ r.at = "down" =>
       /\ r.i < r.j /\ r.j <= r.size
       /\ \A x \in r.j .. r.size - 1 : ~ comp(a[r.begin + x], a[r.begin])
  /\ r.at = "up" =>
       /\ r.i <= r.j /\ r.j < r.size
       /\ ~ comp(a[r.begin], a[r.begin + r.j])
       /\ \A x \in r.j + 1 .. r.size - 1 : ~ comp(a[r.begin + x], a[r.begin])
  /\ r.at # "ready" =>
       /\ 0 <= r.i
       /\ \A x \in 0 .. r.i : ~ comp(a[r.begin], a[r.begin + x])

RangesOK(a, R) ==
  /\ \A r \in R : RangeOK(r) /\ Scanned(a, r)
  /\ \A r, s \in R : r # s => Cells(r) \cap Cells(s) = {}

InOrder(a, R) ==
  \A p, q \in 1 .. n :
    p < q /\ (\A r \in R : ~ {p, q} \subseteq Cells(r)) => comp(a[p], a[q])

ControlOK ==
  /\ text \in Corpora
  /\ pc \in {"sort", "check", "pretest", "quick_sort", "done"}
  /\ chunks # {} => pc = "pretest"
  /\ ranges # {} => pc = "quick_sort"
  /\ pc = "sort" => k = 1 /\ ~ cancelled

CheckOK ==
  pc = "check" =>
    /\ n >= Grain /\ ~ cancelled /\ k \in 1 .. 1 + SerialCutoff
    /\ \A p \in 2 .. k : comp(indices[p - 1], indices[p])

ChunksOK ==
  \A c \in chunks :
    /\ c \in [lo : Int, hi : Int, k : Int]
    /\ 2 <= c.lo /\ c.lo <= c.k /\ c.k < c.hi /\ c.hi <= n + 1

IInv ==
  /\ ControlOK /\ Suffixes(indices) /\ CheckOK /\ ChunksOK
  /\ PretestHasNoGap /\ RangesOK(indices, ranges) /\ RangesInOrder
-----------------------------------------------------------------------------
\* What the corpora are.
LEMMA TextFacts ==
  ASSUME text \in Corpora
  PROVE  n \in Nat /\ n >= 2 /\ text.data \in [0 .. n - 1 -> Int]
BY CorporaAreTexts DEF n

\* The comparison is a strict total order of the suffixes.
LEMMA CompOrder ==
  ASSUME text \in Corpora
  PROVE  /\ \A i \in 0 .. n : ~ comp(i, i)
         /\ \A i, j \in 0 .. n : comp(i, j) => ~ comp(j, i)
         /\ \A i, j \in 0 .. n : i # j => comp(i, j) \/ comp(j, i)
         /\ \A i, j, h \in 0 .. n : comp(i, j) /\ comp(j, h) => comp(i, h)
         /\ \A i \in 0 .. n - 1 : comp(n, i)
<1>1. n \in Nat /\ text.data \in [0 .. n - 1 -> Int]
  BY TextFacts
<1>2. \A i \in 0 .. n : ~ comp(i, i)
  BY <1>1, SuffixIrreflexive DEF comp
<1>3. \A i, j \in 0 .. n : comp(i, j) => ~ comp(j, i)
  BY <1>1, SuffixAsymmetric DEF comp
<1>4. \A i, j \in 0 .. n : i # j => comp(i, j) \/ comp(j, i)
  BY <1>1, SuffixTotal DEF comp
<1>5. \A i, j, h \in 0 .. n : comp(i, j) /\ comp(j, h) => comp(i, h)
  BY <1>1, SuffixTransitive DEF comp
<1>6. \A i \in 0 .. n - 1 : comp(n, i)
  BY <1>1, EmptyIsLeast DEF comp
<1> QED BY <1>2, <1>3, <1>4, <1>5, <1>6

\* No suffix is missing in a vector of n + 1 different ones.
LEMMA NoneIsMissing ==
  ASSUME text \in Corpora, NEW a, Suffixes(a)
  PROVE  {a[p] : p \in 0 .. n} = 0 .. n
<1>1. IsFiniteSet(0 .. n)
  BY TextFacts, FS_Interval
<1>2. a \in Injection(0 .. n, 0 .. n)
  BY Fun_IsInj DEF Suffixes
<1>3. a \in Surjection(0 .. n, 0 .. n)
  BY <1>1, <1>2, FS_Injection
<1>4. a \in [0 .. n -> 0 .. n] /\ \A s \in 0 .. n : \E p \in 0 .. n : a[p] = s
  BY <1>3, Fun_SurjectionProperties, ZenonT(40)
<1> QED BY <1>4

\* An exchange of two cells keeps all indices.
LEMMA SwapShuffles ==
  ASSUME text \in Corpora, NEW a, Suffixes(a), NEW C \in SUBSET (1 .. n), NEW p \in C, NEW q \in C
  PROVE  Suffixes(iter_swap(a, p, q)) /\ Shuffle(a, iter_swap(a, p, q), C)
<1> DEFINE b == iter_swap(a, p, q)
<1>1. n \in Nat /\ p \in 0 .. n /\ q \in 0 .. n /\ p # 0 /\ q # 0
  BY TextFacts
<1>2. b \in [0 .. n -> 0 .. n]
  BY <1>1 DEF Suffixes, iter_swap
<1>3. \A x \in 0 .. n : b[x] = IF x = q THEN a[p] ELSE IF x = p THEN a[q] ELSE a[x]
  BY <1>1 DEF Suffixes, iter_swap
<1> HIDE DEF b
<1>4. Suffixes(b)
  <2>1. b[0] = n
    BY <1>1, <1>3 DEF Suffixes
  <2>2. ASSUME NEW x \in 0 .. n, NEW y \in 0 .. n, b[x] = b[y] PROVE x = y
    <3>1. \A u, v \in 0 .. n : a[u] = a[v] => u = v
      BY DEF Suffixes
    <3> QED BY <1>1, <1>3, <2>2, <3>1
  <2> QED BY <1>2, <2>1, <2>2 DEF Suffixes
<1>5. Shuffle(a, b, C)
  BY <1>1, <1>3 DEF Shuffle
<1> QED BY <1>4, <1>5 DEF b

\* std::sort puts the cells of its range in order and touches no others.
LEMMA SortedShuffles ==
  ASSUME text \in Corpora, NEW a, Suffixes(a), NEW lo \in 1 .. n + 1, NEW hi \in lo .. n + 1
  PROVE  /\ Suffixes(Sorted(a, lo, hi)) /\ Shuffle(a, Sorted(a, lo, hi), lo .. hi - 1)
         /\ \A p, q \in lo .. hi - 1 :
              p < q => comp(Sorted(a, lo, hi)[p], Sorted(a, lo, hi)[q])
<1> DEFINE I == lo .. hi - 1
           S == {a[p] : p \in I}
           b == Sorted(a, lo, hi)
           r(s) == Rank(text.data, n, S, s)
<1>1. n \in Nat /\ n >= 2 /\ text.data \in [0 .. n - 1 -> Int]
  BY TextFacts
<1>2. I \subseteq 1 .. n /\ I \subseteq 0 .. n /\ lo \in Int /\ hi \in Int /\ lo <= hi
  BY <1>1
<1>3. a \in [0 .. n -> 0 .. n] /\ \A p, q \in 0 .. n : a[p] = a[q] => p = q
  BY DEF Suffixes
<1>4. S \in SUBSET (0 .. n)
  BY <1>2, <1>3
<1>5. Cardinality(S) = hi - lo
  <2> DEFINE f == [p \in I |-> a[p]]
  <2>1. f \in [I -> S]
    OBVIOUS
  <2>2. \A p, q \in I : f[p] = f[q] => p = q
    BY <1>2, <1>3
  <2>3. \A s \in S : \E p \in I : f[p] = s
    OBVIOUS
  <2>4. IsFiniteSet(I) /\ Cardinality(I) = hi - lo
    <3>1. IsFiniteSet(lo .. hi - 1) /\ Cardinality(lo .. hi - 1) = IF lo > hi - 1 THEN 0 ELSE (hi - 1) - lo + 1
      BY <1>2, hi - 1 \in Int, FS_Interval
    <3> QED BY <1>2, <3>1
  <2> HIDE DEF f, I, S
  <2>5. f \in Bijection(I, S)
    BY <2>1, <2>2, <2>3, Fun_IsBij
  <2>6. ExistsBijection(I, S)
    BY <2>5 DEF ExistsBijection
  <2> QED BY <2>4, <2>6, FS_Bijection
<1>6. /\ \A s, u \in S : SuffixLess(text.data, n, s, u) => r(s) < r(u)
      /\ \A s \in S : r(s) \in 0 .. Cardinality(S) - 1
      /\ \A q \in 0 .. Cardinality(S) - 1 : \E s \in S : r(s) = q
  <2> HIDE DEF S
  <2> QED BY <1>1, <1>4, Ranks
<1>7. b = [p \in 0 .. n |->
             IF p \in I THEN CHOOSE s \in S : r(s) = p - lo ELSE a[p]]
  BY <1>3 DEF Sorted, comp, Rank
<1> HIDE DEF S, b, r
<1>8. \A p \in I : b[p] \in S /\ r(b[p]) = p - lo
  <2> SUFFICES ASSUME NEW p \in I PROVE b[p] \in S /\ r(b[p]) = p - lo
    OBVIOUS
  <2>1. p - lo \in 0 .. Cardinality(S) - 1
    BY <1>2, <1>5
  <2>2. \E s \in S : r(s) = p - lo
    BY <1>6, <2>1
  <2>3. b[p] = CHOOSE s \in S : r(s) = p - lo
    BY <1>2, <1>7
  <2> HIDE DEF I
  <2> QED BY <2>2, <2>3
<1>9. \A p \in 0 .. n : p \notin I => b[p] = a[p]
  BY <1>7
<1>10. Shuffle(a, b, I)
  <2> USE DEF S
  <2> HIDE DEF I
  <2> QED BY <1>8, <1>9 DEF Shuffle
<1>11. \A p, q \in I : p < q => comp(b[p], b[q])
  <2> SUFFICES ASSUME NEW p \in I, NEW q \in I, p < q PROVE comp(b[p], b[q])
    OBVIOUS
  <2>1. /\ b[p] \in S /\ b[q] \in S /\ r(b[p]) = p - lo /\ r(b[q]) = q - lo
        /\ b[p] \in 0 .. n /\ b[q] \in 0 .. n
    BY <1>4, <1>8
  <2>2. b[p] # b[q]
    BY <2>1, <1>2
  <2>3. ~ comp(b[q], b[p])
    <3> SUFFICES ASSUME comp(b[q], b[p]) PROVE FALSE
      OBVIOUS
    <3>1. r(b[q]) < r(b[p])
      BY <1>6, <2>1 DEF comp
    <3> QED BY <1>2, <2>1, <3>1
  <2> HIDE DEF I
  <2> QED BY <2>1, <2>2, <2>3, CompOrder
<1>12. Suffixes(b)
  <2>1. b \in [0 .. n -> 0 .. n]
    <3>1. \A p \in 0 .. n : b[p] \in 0 .. n
      BY <1>3, <1>4, <1>8, <1>9
    <3> QED BY <1>7, <3>1
  <2>2. b[0] = n
    BY <1>1, <1>2, <1>9 DEF Suffixes
  <2>3. ASSUME NEW p \in 0 .. n, NEW q \in 0 .. n, b[p] = b[q] PROVE p = q
    <3>1. CASE p \in I /\ q \in I
      <4>1. p - lo = q - lo
        BY <1>8, <2>3, <3>1
      <4> QED BY <1>2, <3>1, <4>1
    <3>2. CASE p \in I /\ q \notin I
      <4>1. PICK x \in I : b[p] = a[x]
        BY <1>10, <3>2 DEF Shuffle
      <4> QED BY <1>2, <1>3, <1>9, <2>3, <3>2, <4>1
    <3>3. CASE p \notin I /\ q \in I
      <4>1. PICK x \in I : b[q] = a[x]
        BY <1>10, <3>3 DEF Shuffle
      <4> QED BY <1>2, <1>3, <1>9, <2>3, <3>3, <4>1
    <3>4. CASE p \notin I /\ q \notin I
      BY <1>3, <1>9, <2>3, <3>4
    <3> QED BY <3>1, <3>2, <3>3, <3>4
  <2> QED BY <2>1, <2>2, <2>3 DEF Suffixes
<1> QED BY <1>10, <1>11, <1>12 DEF b
-----------------------------------------------------------------------------
\* A step of the thread that has the range r, which S replaces: it shuffles the cells
\* of r only, so what other threads know of theirs stays true, and cells of r stay on
\* their side of the cells of other ranges.
LEMMA RangeStep ==
  ASSUME text \in Corpora, NEW a, NEW b, NEW R, NEW r \in R, NEW S,
         Suffixes(a), Suffixes(b), RangesOK(a, R), InOrder(a, R), Shuffle(a, b, Cells(r)),
         \A s \in S : RangeOK(s) /\ Scanned(b, s) /\ Cells(s) \subseteq Cells(r),
         \A s, u \in S : s # u => Cells(s) \cap Cells(u) = {},
         \A p, q \in Cells(r) : p < q /\ (\A s \in S : ~ {p, q} \subseteq Cells(s)) => comp(b[p], b[q])
  PROVE  RangesOK(b, (R \ {r}) \cup S) /\ InOrder(b, (R \ {r}) \cup S)
<1> DEFINE T == (R \ {r}) \cup S
<1>1. n \in Nat
  BY TextFacts
<1>2. \A s \in R : s # r => Cells(s) \cap Cells(r) = {}
  BY DEF RangesOK
<1>3. \A s \in R : RangeOK(s) /\ Cells(s) \subseteq 1 .. n /\ Cells(s) \subseteq 0 .. n
  <2> SUFFICES ASSUME NEW s \in R PROVE RangeOK(s) /\ Cells(s) \subseteq 1 .. n /\ Cells(s) \subseteq 0 .. n
    OBVIOUS
  <2>1. RangeOK(s)
    BY DEF RangesOK
  <2>2. 1 <= s.begin /\ s.begin + s.size <= n + 1 /\ s.begin \in Int /\ s.size \in Int
    BY <2>1 DEF RangeOK, RangeType
  <2> QED BY <1>1, <2>1, <2>2 DEF Cells
<1>4. \A p \in 0 .. n : p \notin Cells(r) => b[p] = a[p]
  BY DEF Shuffle
<1>5. ASSUME NEW s \in R, s # r PROVE Scanned(b, s)
  <2>1. RangeOK(s) /\ Scanned(a, s) /\ Cells(s) \cap Cells(r) = {}
    BY <1>2, <1>5 DEF RangesOK
  <2>2. \A p \in Cells(s) : b[p] = a[p]
    BY <1>3, <1>4, <2>1
  <2>3. ASSUME NEW x \in 0 .. s.size - 1 PROVE s.begin + x \in Cells(s)
    BY <2>1 DEF Cells, RangeOK, RangeType
  <2>4. \A x \in 0 .. s.size - 1 : b[s.begin + x] = a[s.begin + x]
    BY <2>2, <2>3
  <2>5. s.begin \in Int /\ s.size \in Int /\ s.i \in Int /\ s.j \in Int
    BY <2>1 DEF RangeOK, RangeType
  <2>6. s.begin + 0 = s.begin
    BY <2>5
  <2>7. CASE s.at = "down"
    <3>1. /\ s.i < s.j /\ s.j <= s.size /\ 0 <= s.i
          /\ \A x \in s.j .. s.size - 1 : ~ comp(a[s.begin + x], a[s.begin])
          /\ \A x \in 0 .. s.i : ~ comp(a[s.begin], a[s.begin + x])
      BY <2>1, <2>7 DEF Scanned
    <3>2. 0 \in 0 .. s.size - 1 /\ b[s.begin] = a[s.begin]
      BY <2>4, <2>5, <2>6, <3>1
    <3>3. /\ \A x \in s.j .. s.size - 1 : ~ comp(b[s.begin + x], b[s.begin])
          /\ \A x \in 0 .. s.i : ~ comp(b[s.begin], b[s.begin + x])
      BY <2>4, <2>5, <3>1, <3>2
    <3> QED BY <2>7, <3>1, <3>3 DEF Scanned
  <2>8. CASE s.at = "up"
    <3>1. /\ s.i <= s.j /\ s.j < s.size /\ 0 <= s.i
          /\ ~ comp(a[s.begin], a[s.begin + s.j])
          /\ \A x \in s.j + 1 .. s.size - 1 : ~ comp(a[s.begin + x], a[s.begin])
          /\ \A x \in 0 .. s.i : ~ comp(a[s.begin], a[s.begin + x])
      BY <2>1, <2>8 DEF Scanned
    <3>2. 0 \in 0 .. s.size - 1 /\ b[s.begin] = a[s.begin]
      BY <2>4, <2>5, <2>6, <3>1
    <3>3. /\ ~ comp(b[s.begin], b[s.begin + s.j])
          /\ \A x \in s.j + 1 .. s.size - 1 : ~ comp(b[s.begin + x], b[s.begin])
          /\ \A x \in 0 .. s.i : ~ comp(b[s.begin], b[s.begin + x])
      BY <2>4, <2>5, <3>1, <3>2
    <3> QED BY <2>8, <3>1, <3>3 DEF Scanned
  <2>9. CASE s.at = "ready"
    BY <2>9 DEF Scanned
  <2>10. s.at \in {"ready", "down", "up"}
    BY <2>1 DEF RangeOK, RangeType
  <2> QED BY <2>7, <2>8, <2>9, <2>10
<1>6. RangesOK(b, T)
  <2>1. \A s \in T : RangeOK(s) /\ Scanned(b, s)
    BY <1>3, <1>5
  <2>2. ASSUME NEW s \in T, NEW u \in T, s # u PROVE Cells(s) \cap Cells(u) = {}
    <3>1. CASE s \in R \ {r} /\ u \in R \ {r}
      BY <2>2, <3>1 DEF RangesOK
    <3>2. CASE s \in S /\ u \in S
      BY <2>2, <3>2
    <3>3. CASE s \in S /\ u \in R \ {r}
      BY <1>2, <3>3
    <3>4. CASE s \in R \ {r} /\ u \in S
      BY <1>2, <3>4
    <3> QED BY <3>1, <3>2, <3>3, <3>4
  <2> HIDE DEF T
  <2> QED BY <2>1, <2>2 DEF RangesOK
<1>7. InOrder(b, T)
  <2> SUFFICES ASSUME NEW p \in 1 .. n, NEW q \in 1 .. n, p < q,
                      \A s \in T : ~ {p, q} \subseteq Cells(s)
               PROVE  comp(b[p], b[q])
    BY DEF InOrder
  <2>1. p \in 0 .. n /\ q \in 0 .. n
    BY <1>1
  <2>2. CASE p \in Cells(r) /\ q \in Cells(r)
    BY <2>2
  <2>3. CASE p \in Cells(r) /\ q \notin Cells(r)
    <3>1. PICK x \in Cells(r) : b[p] = a[x]
      BY <2>1, <2>3 DEF Shuffle
    <3>2. x \in 1 .. n /\ x < q
      BY <1>1, <1>3, <2>3 DEF Cells, RangeOK, RangeType
    <3>3. \A s \in R : ~ {x, q} \subseteq Cells(s)
      BY <1>2, <2>3
    <3>4. comp(a[x], a[q])
      BY <3>2, <3>3 DEF InOrder
    <3> QED BY <1>4, <2>1, <2>3, <3>1, <3>4
  <2>4. CASE p \notin Cells(r) /\ q \in Cells(r)
    <3>1. PICK x \in Cells(r) : b[q] = a[x]
      BY <2>1, <2>4 DEF Shuffle
    <3>2. x \in 1 .. n /\ p < x
      BY <1>1, <1>3, <2>4 DEF Cells, RangeOK, RangeType
    <3>3. \A s \in R : ~ {p, x} \subseteq Cells(s)
      BY <1>2, <2>4
    <3>4. comp(a[p], a[x])
      BY <3>2, <3>3 DEF InOrder
    <3> QED BY <1>4, <2>1, <2>4, <3>1, <3>4
  <2>5. CASE p \notin Cells(r) /\ q \notin Cells(r)
    <3>1. \A s \in R : ~ {p, q} \subseteq Cells(s)
      BY <2>5
    <3>2. comp(a[p], a[q])
      BY <3>1 DEF InOrder
    <3> QED BY <1>4, <2>1, <2>5, <3>2
  <2> QED BY <2>2, <2>3, <2>4, <2>5
<1> QED BY <1>6, <1>7

\* The cells of a range are in the vector, behind the empty suffix.
LEMMA RangeCells ==
  ASSUME text \in Corpora, NEW r, RangeOK(r)
  PROVE  /\ Cells(r) \subseteq 1 .. n
         /\ \A x \in 0 .. r.size - 1 : r.begin + x \in Cells(r)
<1>1. n \in Nat
  BY TextFacts
<1> QED BY <1>1 DEF RangeOK, RangeType, Cells

\* Nothing moves, or everything stays where it was in the range.
LEMMA NoShuffle ==
  ASSUME NEW a, NEW C
  PROVE  Shuffle(a, a, C)
BY DEF Shuffle

\* The pseudo-median is a cell of the range.
LEMMA MedianInside ==
  ASSUME NEW a, NEW b, NEW size \in Nat, size >= 1
  PROVE  pseudo_median_of_nine(a, b, size) \in 0 .. size - 1
<1> DEFINE o == size \div 8
           I == 0 .. size - 1
<1>1. \A l, m, r : median_of_three(a, b, l, m, r) \in {l, m, r}
  BY DEF median_of_three
<1>2. o \in Nat /\ o * 8 <= size
  OBVIOUS
<1> HIDE DEF o
<1>3. 0 \in I /\ o \in I /\ o * 2 \in I /\ o * 3 \in I /\ o * 4 \in I /\ o * 5 \in I
      /\ o * 6 \in I /\ o * 7 \in I /\ size - 1 \in I
  BY <1>2
<1> HIDE DEF I
<1>4. \A l, m, r \in I : median_of_three(a, b, l, m, r) \in I
  BY <1>1
<1> QED BY <1>3, <1>4 DEF pseudo_median_of_nine, o, I

SortState ==
  /\ text \in Corpora /\ Suffixes(indices)
  /\ RangesOK(indices, ranges) /\ InOrder(indices, ranges)

SortStateAfter ==
  /\ Suffixes(indices')
  /\ RangesOK(indices', ranges') /\ InOrder(indices', ranges')

\* The key is chosen and put first; nothing has been scanned yet.
LEMMA SplitStep ==
  ASSUME SortState, NEW r \in ranges, Split(r)
  PROVE  SortStateAfter
<1> DEFINE s == [r EXCEPT !.at = "down", !.i = 0, !.j = r.size]
           y == r.begin + pseudo_median_of_nine(indices, r.begin, r.size)
<1>1. RangeOK(r) /\ r.size >= Grain /\ indices' = iter_swap(indices, r.begin, y) /\ ranges' = (ranges \ {r}) \cup {s}
  BY DEF SortState, RangesOK, Split, Becomes
<1>2. r.size \in Nat /\ r.size >= 1 /\ r.begin \in Int
  BY <1>1, GrainAssumption DEF RangeOK, RangeType
<1>3. Cells(r) \in SUBSET (1 .. n) /\ r.begin \in Cells(r) /\ y \in Cells(r)
  <2>1. \A x \in 0 .. r.size - 1 : r.begin + x \in Cells(r)
    BY <1>1, RangeCells DEF SortState
  <2>2. pseudo_median_of_nine(indices, r.begin, r.size) \in 0 .. r.size - 1
    BY <1>2, MedianInside
  <2>3. 0 \in 0 .. r.size - 1 /\ r.begin + 0 = r.begin
    BY <1>2
  <2>4. r.begin \in Cells(r)
    BY <2>1, <2>3
  <2> QED BY <1>1, <2>1, <2>2, <2>4, RangeCells DEF SortState
<1> HIDE DEF y
<1>4. Suffixes(indices') /\ Shuffle(indices, indices', Cells(r))
  BY <1>1, <1>3, SwapShuffles DEF SortState
<1>5. /\ s.begin = r.begin /\ s.size = r.size /\ s.at = "down" /\ s.i = 0 /\ s.j = r.size
      /\ s \in RangeType
  <2> DEFINE s1 == [r EXCEPT !.at = "down"]
             s2 == [s1 EXCEPT !.i = 0]
             s3 == [s2 EXCEPT !.j = r.size]
  <2>1. r \in RangeType
    BY <1>1 DEF RangeOK, RangeType
  <2>2. s1 \in RangeType
    BY <2>1 DEF RangeType
  <2>3. s2 \in RangeType
    <3> HIDE DEF s1
    <3> QED BY <2>2 DEF RangeType
  <2>4. s3 \in RangeType
    <3> HIDE DEF s2
    <3> QED BY <1>2, <2>3 DEF RangeType
  <2>5. s = s3
    OBVIOUS
  <2> QED BY <2>1, <2>4, <2>5 DEF RangeType
<1> HIDE DEF s
<1>6. RangeOK(s) /\ Cells(s) = Cells(r)
  BY <1>1, <1>5 DEF RangeOK, RangeType, Cells
<1>7. Scanned(indices', s)
  <2>1. indices'[s.begin] \in 0 .. n /\ s.begin + 0 = s.begin
    <3>1. n \in Nat
      BY TextFacts DEF SortState
    <3>2. s.begin \in 0 .. n
      BY <1>3, <1>5, <3>1
    <3> QED BY <1>2, <1>4, <1>5, <3>2 DEF Suffixes
  <2>2. ~ comp(indices'[s.begin], indices'[s.begin + 0])
    BY <2>1, CompOrder DEF SortState
  <2> QED BY <1>2, <1>5, <2>2 DEF Scanned
<1>8. RangesOK(indices', (ranges \ {r}) \cup {s}) /\ InOrder(indices', (ranges \ {r}) \cup {s})
  BY <1>4, <1>6, <1>7, RangeStep, ZenonT(40) DEF SortState
<1> QED BY <1>1, <1>4, <1>8 DEF SortStateAfter

\* The cell at j goes to the part right of it, or stops the scan.
LEMMA ScanDownStep ==
  ASSUME SortState, NEW r \in ranges, ScanDown(r)
  PROVE  SortStateAfter
<1> DEFINE s == [r EXCEPT !.j = @ - 1, !.at = IF IsGreater(r, r.j - 1) THEN "down" ELSE "up"]
<1>1. /\ RangeOK(r) /\ Scanned(indices, r) /\ r.at = "down"
      /\ indices' = indices /\ ranges' = (ranges \ {r}) \cup {s}
  BY DEF SortState, RangesOK, ScanDown, Becomes
<1>2. r.size \in Int /\ r.begin \in Int /\ r.i \in Int /\ r.j \in Int
  BY <1>1 DEF RangeOK, RangeType
<1>3. /\ 0 <= r.i /\ r.i < r.j /\ r.j <= r.size
      /\ \A x \in r.j .. r.size - 1 : ~ comp(indices[r.begin + x], indices[r.begin])
      /\ \A x \in 0 .. r.i : ~ comp(indices[r.begin], indices[r.begin + x])
  BY <1>1 DEF Scanned
<1>4. Suffixes(indices') /\ Shuffle(indices, indices', Cells(r))
  BY <1>1, NoShuffle DEF SortState
<1>5. /\ s.begin = r.begin /\ s.size = r.size /\ s.i = r.i /\ s.j = r.j - 1
      /\ s.at = IF IsGreater(r, r.j - 1) THEN "down" ELSE "up"
      /\ s \in RangeType
  <2> DEFINE at == IF IsGreater(r, r.j - 1) THEN "down" ELSE "up"
             s1 == [r EXCEPT !.j = r.j - 1]
             s2 == [s1 EXCEPT !.at = at]
  <2>1. r \in RangeType
    BY <1>1 DEF RangeOK, RangeType
  <2>2. s1 \in RangeType /\ at \in {"ready", "down", "up"}
    BY <1>2, <2>1 DEF RangeType
  <2>3. s2 \in RangeType
    <3> HIDE DEF s1, at
    <3> QED BY <2>2 DEF RangeType
  <2>4. s = s2
    OBVIOUS
  <2>5. s.begin = r.begin /\ s.size = r.size /\ s.i = r.i /\ s.j = r.j - 1 /\ s.at = at
    BY <2>1 DEF RangeType
  <2> QED BY <2>3, <2>4, <2>5
<1> HIDE DEF s
<1>6. RangeOK(s) /\ Cells(s) = Cells(r)
  BY <1>1, <1>5 DEF RangeOK, RangeType, Cells
<1>7. Scanned(indices', s)
  <2>1. CASE IsGreater(r, r.j - 1)
    <3>1. comp(indices[r.begin], indices[r.begin + s.j])
      BY <1>5, <2>1 DEF IsGreater
    <3>2. s.i < s.j
      BY <1>2, <1>3, <1>5, <3>1
    <3>3. \A i, j \in 0 .. n : comp(i, j) => ~ comp(j, i)
      BY CompOrder DEF SortState
    <3>4. indices[r.begin] \in 0 .. n /\ indices[r.begin + s.j] \in 0 .. n
      <4>1. /\ Cells(r) \subseteq 1 .. n
            /\ \A x \in 0 .. r.size - 1 : r.begin + x \in Cells(r)
        BY <1>1, RangeCells DEF SortState
      <4>2. 0 \in 0 .. r.size - 1 /\ s.j \in 0 .. r.size - 1 /\ r.begin + 0 = r.begin
        BY <1>2, <1>3, <1>5
      <4>3. r.begin \in 1 .. n /\ r.begin + s.j \in 1 .. n
        BY <4>1, <4>2
      <4>4. n \in Nat
        BY TextFacts DEF SortState
      <4>5. r.begin \in 0 .. n /\ r.begin + s.j \in 0 .. n
        BY <4>3, <4>4
      <4> QED BY <4>5 DEF SortState, Suffixes
    <3>5. ~ comp(indices[r.begin + s.j], indices[r.begin])
      BY <3>1, <3>3, <3>4
    <3>6. \A x \in s.j .. s.size - 1 : x = s.j \/ x \in r.j .. r.size - 1
      BY <1>2, <1>3, <1>5
    <3> QED BY <1>1, <1>2, <1>3, <1>5, <2>1, <3>2, <3>5, <3>6 DEF Scanned
  <2>2. CASE ~ IsGreater(r, r.j - 1)
    <3>1. s.at = "up" /\ s.j = r.j - 1 /\ s.j + 1 = r.j
      BY <1>2, <1>5, <2>2
    <3>2. ~ comp(indices[r.begin], indices[r.begin + s.j])
      BY <2>2, <3>1 DEF IsGreater
    <3> QED BY <1>1, <1>2, <1>3, <1>5, <3>1, <3>2 DEF Scanned
  <2> QED BY <2>1, <2>2
<1>8. RangesOK(indices', (ranges \ {r}) \cup {s}) /\ InOrder(indices', (ranges \ {r}) \cup {s})
  <2>1. \A p, q \in Cells(r) : ~ (\A u \in {s} : ~ {p, q} \subseteq Cells(u))
    BY <1>6
  <2>2. \A u \in {s} : RangeOK(u) /\ Scanned(indices', u) /\ Cells(u) \subseteq Cells(r)
    BY <1>6, <1>7
  <2>3. \A u, v \in {s} : u # v => Cells(u) \cap Cells(v) = {}
    OBVIOUS
  <2>4. \A p, q \in Cells(r) : p < q /\ (\A u \in {s} : ~ {p, q} \subseteq Cells(u))
                                => comp(indices'[p], indices'[q])
    BY <2>1
  <2> HIDE DEF SortState
  <2> QED BY <1>4, <2>2, <2>3, <2>4, RangeStep DEF SortState
<1> QED BY <1>1, <1>4, <1>8 DEF SortStateAfter

\* The cell at i is left behind, or changes places with the one at j.
LEMMA ScanUpStep ==
  ASSUME SortState, NEW r \in ranges, ScanUp(r)
  PROVE  SortStateAfter
<1> DEFINE s == [r EXCEPT !.i = r.i + 1]
           u == [s EXCEPT !.at = "down"]
           met == s.i = s.j \/ comp(indices[r.begin + s.i], indices[r.begin])
<1>1. RangeOK(r) /\ Scanned(indices, r) /\ r.at = "up" /\ r.i # r.j
  BY DEF SortState, RangesOK, ScanUp
<1>2. r.size \in Int /\ r.begin \in Int /\ r.i \in Int /\ r.j \in Int
  BY <1>1 DEF RangeOK, RangeType
<1>3. /\ 0 <= r.i /\ r.i < r.j /\ r.j < r.size
      /\ ~ comp(indices[r.begin], indices[r.begin + r.j])
      /\ \A x \in r.j + 1 .. r.size - 1 : ~ comp(indices[r.begin + x], indices[r.begin])
      /\ \A x \in 0 .. r.i : ~ comp(indices[r.begin], indices[r.begin + x])
  BY <1>1, <1>2 DEF Scanned
<1>4. /\ s.begin = r.begin /\ s.size = r.size /\ s.i = r.i + 1 /\ s.j = r.j /\ s.at = "up"
      /\ s \in RangeType
  BY <1>1, <1>2 DEF RangeOK, RangeType
<1>5. \/ met /\ ranges' = (ranges \ {r}) \cup {s} /\ indices' = indices
      \/ ~ met /\ ranges' = (ranges \ {r}) \cup {u}
         /\ indices' = iter_swap(indices, r.begin + s.i, r.begin + s.j)
  BY DEF ScanUp, Becomes
<1> HIDE DEF s
<1>6. /\ u.begin = r.begin /\ u.size = r.size /\ u.i = r.i + 1 /\ u.j = r.j /\ u.at = "down"
      /\ u \in RangeType
  BY <1>4 DEF RangeType
<1> HIDE DEF u
<1>7. RangeOK(s) /\ RangeOK(u) /\ Cells(s) = Cells(r) /\ Cells(u) = Cells(r)
  BY <1>1, <1>4, <1>6 DEF RangeOK, Cells
<1>8. Cells(r) \in SUBSET (1 .. n) /\ \A x \in 0 .. r.size - 1 : r.begin + x \in Cells(r)
  BY <1>1, RangeCells DEF SortState
<1>9. \A x \in 0 .. r.size - 1 : r.begin + x \in 0 .. n /\ indices[r.begin + x] \in 0 .. n
  <2> SUFFICES ASSUME NEW x \in 0 .. r.size - 1
               PROVE  r.begin + x \in 0 .. n /\ indices[r.begin + x] \in 0 .. n
    OBVIOUS
  <2>1. n \in Nat /\ r.begin + x \in 1 .. n
    BY <1>8, TextFacts DEF SortState
  <2>2. r.begin + x \in 0 .. n
    BY <2>1
  <2> QED BY <2>2 DEF SortState, Suffixes
<1>10. 0 \in 0 .. r.size - 1 /\ s.i \in 0 .. r.size - 1 /\ s.j \in 0 .. r.size - 1 /\ r.begin + 0 = r.begin
  BY <1>2, <1>3, <1>4
<1>11. indices[r.begin] \in 0 .. n
  BY <1>9, <1>10
<1>12. \A i, j \in 0 .. n : comp(i, j) => ~ comp(j, i)
  BY CompOrder DEF SortState
<1>13. \A v, x \in {s} : v # x => Cells(v) \cap Cells(x) = {}
  OBVIOUS
<1>14. \A v, x \in {u} : v # x => Cells(v) \cap Cells(x) = {}
  OBVIOUS
<1>15. CASE met
  <2>1. Suffixes(indices') /\ Shuffle(indices, indices', Cells(r))
    BY <1>5, <1>15, NoShuffle DEF SortState
  <2>2. ~ comp(indices[r.begin], indices[r.begin + s.i])
    <3>1. CASE s.i = s.j
      BY <1>3, <1>4, <3>1
    <3>2. CASE comp(indices[r.begin + s.i], indices[r.begin])
      BY <1>9, <1>10, <1>11, <1>12, <3>2
    <3> QED BY <1>15, <3>1, <3>2
  <2>3. Scanned(indices', s)
    <3>1. \A x \in 0 .. s.i : x = s.i \/ x \in 0 .. r.i
      BY <1>2, <1>4
    <3>2. \A x \in 0 .. s.i : ~ comp(indices[r.begin], indices[r.begin + x])
      BY <1>3, <2>2, <3>1
    <3>3. s.i <= s.j /\ s.j < s.size /\ 0 <= s.i
      BY <1>2, <1>3, <1>4
    <3> QED BY <1>3, <1>4, <1>5, <1>15, <3>2, <3>3 DEF Scanned
  <2>4. \A v \in {s} : RangeOK(v) /\ Scanned(indices', v) /\ Cells(v) \subseteq Cells(r)
    BY <1>7, <2>3
  <2>5. \A p, q \in Cells(r) : p < q /\ (\A v \in {s} : ~ {p, q} \subseteq Cells(v))
                                => comp(indices'[p], indices'[q])
    BY <1>7
  <2>6. RangesOK(indices', (ranges \ {r}) \cup {s}) /\ InOrder(indices', (ranges \ {r}) \cup {s})
    <3>1. /\ text \in Corpora /\ Suffixes(indices)
          /\ RangesOK(indices, ranges) /\ InOrder(indices, ranges)
      BY DEF SortState
    <3> HIDE DEF met
    <3> QED BY <1>13, <2>1, <2>4, <2>5, <3>1, RangeStep
  <2> QED BY <1>5, <1>15, <2>1, <2>6 DEF SortStateAfter
<1>16. CASE ~ met
  <2> DEFINE y == r.begin + s.i
             z == r.begin + s.j
             b == indices'
  <2>1. b = iter_swap(indices, y, z) /\ ranges' = (ranges \ {r}) \cup {u}
    BY <1>5, <1>16
  <2>2. y \in Cells(r) /\ z \in Cells(r) /\ s.i < s.j
    BY <1>2, <1>3, <1>4, <1>8, <1>10, <1>16
  <2>3. Suffixes(b) /\ Shuffle(indices, b, Cells(r))
    BY <1>8, <2>1, <2>2, SwapShuffles DEF SortState
  <2>4. \A x \in 0 .. r.size - 1 :
          b[r.begin + x] = IF x = s.j THEN indices[y] ELSE IF x = s.i THEN indices[z]
                           ELSE indices[r.begin + x]
    <3> SUFFICES ASSUME NEW x \in 0 .. r.size - 1
                 PROVE  b[r.begin + x] = IF x = s.j THEN indices[y] ELSE IF x = s.i THEN indices[z]
                                         ELSE indices[r.begin + x]
      OBVIOUS
    <3>1. r.begin + x \in 0 .. n /\ y \in 0 .. n /\ z \in 0 .. n
      BY <1>9, <1>10
    <3>2. indices \in [0 .. n -> 0 .. n]
      BY DEF SortState, Suffixes
    <3>3. b[r.begin + x] = IF r.begin + x = z THEN indices[y]
                           ELSE IF r.begin + x = y THEN indices[z] ELSE indices[r.begin + x]
      <4> HIDE DEF y, z
      <4> QED BY <2>1, <3>1, <3>2 DEF iter_swap
    <3>4. (r.begin + x = z <=> x = s.j) /\ (r.begin + x = y <=> x = s.i)
      BY <1>2, <1>4
    <3> QED BY <3>3, <3>4
  <2>5. ~ comp(indices[y], indices[r.begin])
    BY <1>16
  <2>6. ~ comp(indices[r.begin], indices[z])
    BY <1>3, <1>4
  <2>7. b[r.begin] = indices[r.begin]
    <3>1. 0 # s.j /\ 0 # s.i
      BY <1>2, <1>3, <1>4
    <3> QED BY <1>10, <2>4, <3>1
  <2> HIDE DEF y, z, b, met
  <2>8. \A x \in s.j .. r.size - 1 : ~ comp(b[r.begin + x], b[r.begin])
    <3> SUFFICES ASSUME NEW x \in s.j .. r.size - 1 PROVE ~ comp(b[r.begin + x], b[r.begin])
      OBVIOUS
    <3>1. x \in 0 .. r.size - 1
      BY <1>2, <1>3, <1>4
    <3>2. CASE x = s.j
      BY <2>4, <2>5, <2>7, <3>1, <3>2
    <3>3. CASE x # s.j
      <4>1. x \in r.j + 1 .. r.size - 1 /\ x # s.i
        BY <1>2, <1>3, <1>4, <3>3
      <4> QED BY <1>3, <2>4, <2>7, <3>1, <3>3, <4>1
    <3> QED BY <3>2, <3>3
  <2>9. \A x \in 0 .. s.i : ~ comp(b[r.begin], b[r.begin + x])
    <3> SUFFICES ASSUME NEW x \in 0 .. s.i PROVE ~ comp(b[r.begin], b[r.begin + x])
      OBVIOUS
    <3>1. x \in 0 .. r.size - 1 /\ x # s.j
      BY <1>2, <1>3, <1>4, <2>2
    <3>2. CASE x = s.i
      BY <2>4, <2>6, <2>7, <3>1, <3>2
    <3>3. CASE x # s.i
      <4>1. x \in 0 .. r.i
        BY <1>2, <1>4, <3>3
      <4> QED BY <1>3, <2>4, <2>7, <3>1, <3>3, <4>1
    <3> QED BY <3>2, <3>3
  <2>10. Scanned(b, u)
    BY <1>2, <1>3, <1>4, <1>6, <2>2, <2>8, <2>9 DEF Scanned
  <2>11. \A v \in {u} : RangeOK(v) /\ Scanned(b, v) /\ Cells(v) \subseteq Cells(r)
    BY <1>7, <2>10
  <2>12. \A p, q \in Cells(r) : p < q /\ (\A v \in {u} : ~ {p, q} \subseteq Cells(v)) => comp(b[p], b[q])
    BY <1>7
  <2>13. RangesOK(b, (ranges \ {r}) \cup {u}) /\ InOrder(b, (ranges \ {r}) \cup {u})
    <3>1. /\ text \in Corpora /\ Suffixes(indices)
          /\ RangesOK(indices, ranges) /\ InOrder(indices, ranges)
      BY DEF SortState
    <3> QED BY <1>14, <2>3, <2>11, <2>12, <3>1, RangeStep
  <2> QED BY <2>1, <2>3, <2>13 DEF SortStateAfter, b
<1> QED BY <1>15, <1>16

\* The key is between the parts: all cells left of it are smaller, all right of it greater.
LEMMA PartitionStep ==
  ASSUME SortState, NEW r \in ranges, Partition(r)
  PROVE  SortStateAfter
<1> DEFINE z == r.begin + r.j
           b == indices'
           key == indices[r.begin]
           left == QuickSortRange(r.begin, r.j)
           right == QuickSortRange(r.begin + r.j + 1, r.size - (r.j + 1))
<1>1. /\ RangeOK(r) /\ Scanned(indices, r) /\ r.at = "up" /\ r.i = r.j
      /\ b = iter_swap(indices, z, r.begin) /\ ranges' = (ranges \ {r}) \cup {left, right}
  BY DEF SortState, RangesOK, Partition, Becomes, Parts
<1>2. r.size \in Int /\ r.begin \in Int /\ r.j \in Int
  BY <1>1 DEF RangeOK, RangeType
<1>3. /\ 0 <= r.j /\ r.j < r.size
      /\ \A x \in r.j + 1 .. r.size - 1 : ~ comp(indices[r.begin + x], key)
      /\ \A x \in 0 .. r.j : ~ comp(key, indices[r.begin + x])
  <2>1. RangeOK(r) /\ Scanned(indices, r) /\ r.at = "up" /\ r.i = r.j
    BY <1>1
  <2> QED BY <1>2, <2>1 DEF Scanned
<1>4. Cells(r) \in SUBSET (1 .. n) /\ \A x \in 0 .. r.size - 1 : r.begin + x \in Cells(r)
  BY <1>1, RangeCells DEF SortState
<1>5. \A x \in 0 .. r.size - 1 : r.begin + x \in 0 .. n /\ indices[r.begin + x] \in 0 .. n
  <2> SUFFICES ASSUME NEW x \in 0 .. r.size - 1
               PROVE  r.begin + x \in 0 .. n /\ indices[r.begin + x] \in 0 .. n
    OBVIOUS
  <2>1. n \in Nat /\ r.begin + x \in 1 .. n
    BY <1>4, TextFacts DEF SortState
  <2>2. r.begin + x \in 0 .. n
    BY <2>1
  <2> QED BY <2>2 DEF SortState, Suffixes
<1>6. 0 \in 0 .. r.size - 1 /\ r.j \in 0 .. r.size - 1 /\ r.begin + 0 = r.begin
  BY <1>2, <1>3
<1>7. /\ r.begin \in Cells(r) /\ z \in Cells(r) /\ r.begin \in 0 .. n /\ z \in 0 .. n
      /\ key \in 0 .. n
  BY <1>4, <1>5, <1>6
<1>8. Suffixes(b) /\ Shuffle(indices, b, Cells(r))
  BY <1>1, <1>4, <1>7, SwapShuffles DEF SortState
<1>9. \A x \in 0 .. r.size - 1 :
        b[r.begin + x] = IF x = 0 THEN indices[z] ELSE IF x = r.j THEN key ELSE indices[r.begin + x]
  <2> SUFFICES ASSUME NEW x \in 0 .. r.size - 1
               PROVE  b[r.begin + x] = IF x = 0 THEN indices[z] ELSE IF x = r.j THEN key
                                       ELSE indices[r.begin + x]
    OBVIOUS
  <2>1. r.begin + x \in 0 .. n
    BY <1>5
  <2>2. indices \in [0 .. n -> 0 .. n]
    BY DEF SortState, Suffixes
  <2>3. b[r.begin + x] = IF r.begin + x = r.begin THEN indices[z]
                         ELSE IF r.begin + x = z THEN key ELSE indices[r.begin + x]
    <3> HIDE DEF z
    <3> QED BY <1>1, <1>7, <2>1, <2>2 DEF iter_swap
  <2>4. (r.begin + x = z <=> x = r.j) /\ (r.begin + x = r.begin <=> x = 0)
    BY <1>2
  <2> QED BY <2>3, <2>4
<1>10. b[z] = key
  <2> HIDE DEF b
  <2>1. b[z] = IF r.j = 0 THEN indices[z] ELSE key
    BY <1>6, <1>9
  <2>2. r.j = 0 => z = r.begin
    BY <1>2
  <2> QED BY <2>1, <2>2
<1>11. \A i, j \in 0 .. n : i # j => comp(i, j) \/ comp(j, i)
  BY CompOrder DEF SortState
<1>12. \A i, j, h \in 0 .. n : comp(i, j) /\ comp(j, h) => comp(i, h)
  BY CompOrder DEF SortState
<1>13. \A x \in 0 .. r.size - 1 : b[r.begin + x] \in 0 .. n /\ (x # r.j => b[r.begin + x] # key)
  <2> SUFFICES ASSUME NEW x \in 0 .. r.size - 1
               PROVE  b[r.begin + x] \in 0 .. n /\ (x # r.j => b[r.begin + x] # b[z])
    BY <1>10
  <2>1. r.begin + x \in 0 .. n /\ (x # r.j => r.begin + x # z)
    BY <1>2, <1>5
  <2> HIDE DEF z, b
  <2> QED BY <1>7, <1>8, <2>1 DEF Suffixes
<1>14. \A x \in 0 .. r.j - 1 : comp(b[r.begin + x], key)
  <2> SUFFICES ASSUME NEW x \in 0 .. r.j - 1 PROVE comp(b[r.begin + x], key)
    OBVIOUS
  <2>1. x \in 0 .. r.size - 1 /\ x # r.j /\ x \in 0 .. r.j /\ r.j \in 0 .. r.j
    BY <1>2, <1>3
  <2>2. ~ comp(key, b[r.begin + x])
    <3>1. CASE x = 0
      BY <1>3, <1>9, <2>1, <3>1
    <3>2. CASE x # 0
      BY <1>3, <1>9, <2>1, <3>2
    <3> QED BY <3>1, <3>2
  <2>3. b[r.begin + x] \in 0 .. n /\ b[r.begin + x] # key
    BY <1>13, <2>1
  <2> HIDE DEF b, key
  <2> QED BY <1>7, <1>11, <2>2, <2>3
<1>15. \A x \in r.j + 1 .. r.size - 1 : comp(key, b[r.begin + x])
  <2> SUFFICES ASSUME NEW x \in r.j + 1 .. r.size - 1 PROVE comp(key, b[r.begin + x])
    OBVIOUS
  <2>1. x \in 0 .. r.size - 1 /\ x # r.j /\ x # 0
    BY <1>2, <1>3
  <2>2. ~ comp(b[r.begin + x], key)
    BY <1>3, <1>9, <2>1
  <2>3. b[r.begin + x] \in 0 .. n /\ b[r.begin + x] # key
    BY <1>13, <2>1
  <2> HIDE DEF b, key
  <2> QED BY <1>7, <1>11, <2>2, <2>3
<1>16. /\ Cells(left) = r.begin .. r.begin + r.j - 1
       /\ Cells(right) = r.begin + r.j + 1 .. r.begin + r.size - 1
  <2>1. /\ left.begin = r.begin /\ left.size = r.j /\ right.begin = r.begin + r.j + 1
        /\ right.size = r.size - (r.j + 1)
    BY DEF QuickSortRange
  <2>2. right.begin + right.size - 1 = r.begin + r.size - 1
    BY <1>2, <2>1
  <2> HIDE DEF left, right
  <2> QED BY <2>1, <2>2 DEF Cells
<1>17. ASSUME NEW p \in Cells(r), NEW q \in Cells(r), p < q,
              ~ {p, q} \subseteq Cells(left), ~ {p, q} \subseteq Cells(right)
       PROVE  comp(b[p], b[q])
  <2> DEFINE x == p - r.begin
             y == q - r.begin
  <2>1. /\ x \in 0 .. r.size - 1 /\ y \in 0 .. r.size - 1 /\ x < y
        /\ r.begin + x = p /\ r.begin + y = q
    BY <1>2, <1>17 DEF Cells
  <2>2. ~ (y < r.j) /\ ~ (r.j < x)
    <3>1. y < r.j => p \in Cells(left) /\ q \in Cells(left)
      BY <1>2, <1>16, <2>1, SMTT(30)
    <3>2. r.j < x => p \in Cells(right) /\ q \in Cells(right)
      BY <1>2, <1>16, <2>1, SMTT(30)
    <3> QED BY <1>17, <3>1, <3>2
  <2>3. x < r.j => comp(b[p], key)
    BY <1>2, <1>14, <2>1
  <2>4. r.j < y => comp(key, b[q])
    BY <1>2, <1>15, <2>1
  <2>5. x = r.j => b[p] = key
    BY <1>10, <2>1
  <2>6. y = r.j => b[q] = key
    BY <1>10, <2>1
  <2>7. b[p] \in 0 .. n /\ b[q] \in 0 .. n
    BY <1>13, <2>1
  <2>8. \/ x < r.j /\ y = r.j
        \/ x < r.j /\ r.j < y
        \/ x = r.j /\ r.j < y
    BY <1>2, <2>1, <2>2
  <2> HIDE DEF x, y, b, key
  <2> QED BY <1>7, <1>12, <2>3, <2>4, <2>5, <2>6, <2>7, <2>8
<1>18. /\ RangeOK(left) /\ RangeOK(right) /\ Scanned(b, left) /\ Scanned(b, right)
       /\ Cells(left) \subseteq Cells(r) /\ Cells(right) \subseteq Cells(r)
       /\ Cells(left) \cap Cells(right) = {}
  <2>1. left.at = "ready" /\ right.at = "ready"
    BY DEF QuickSortRange
  <2>2. Scanned(b, left) /\ Scanned(b, right)
    BY <2>1 DEF Scanned
  <2>3. n \in Nat /\ r.begin >= 1 /\ r.begin + r.size <= n + 1
    BY <1>1, TextFacts DEF SortState, RangeOK
  <2>4. RangeOK(left)
    BY <1>2, <1>3, <2>3 DEF RangeOK, RangeType, QuickSortRange
  <2>5. RangeOK(right)
    BY <1>2, <1>3, <2>3 DEF RangeOK, RangeType, QuickSortRange
  <2>6. /\ Cells(left) \subseteq Cells(r) /\ Cells(right) \subseteq Cells(r)
        /\ Cells(left) \cap Cells(right) = {}
    <3>1. Cells(r) = r.begin .. r.begin + r.size - 1
      BY DEF Cells
    <3> HIDE DEF left, right
    <3> QED BY <1>2, <1>3, <1>16, <3>1, SMTT(30)
  <2> QED BY <2>2, <2>4, <2>5, <2>6
<1> HIDE DEF left, right, b
<1>19. \A s \in {left, right} : RangeOK(s) /\ Scanned(b, s) /\ Cells(s) \subseteq Cells(r)
  BY <1>18
<1>20. \A s, u \in {left, right} : s # u => Cells(s) \cap Cells(u) = {}
  BY <1>18
<1>21. \A p, q \in Cells(r) : p < q /\ (\A s \in {left, right} : ~ {p, q} \subseteq Cells(s))
                               => comp(b[p], b[q])
  BY <1>17
<1>22. RangesOK(b, (ranges \ {r}) \cup {left, right}) /\ InOrder(b, (ranges \ {r}) \cup {left, right})
  <2>1. /\ text \in Corpora /\ Suffixes(indices)
        /\ RangesOK(indices, ranges) /\ InOrder(indices, ranges)
    BY DEF SortState
  <2> QED BY <1>8, <1>19, <1>20, <1>21, <2>1, RangeStep
<1> QED BY <1>1, <1>8, <1>22 DEF SortStateAfter, b

\* A range that is sorted as it is.
LEMMA SortRangeStep ==
  ASSUME SortState, NEW r \in ranges, SortRange(r)
  PROVE  SortStateAfter
<1> DEFINE b == indices'
           hi == r.begin + r.size
<1>1. RangeOK(r) /\ b = Sorted(indices, r.begin, hi) /\ ranges' = (ranges \ {r}) \cup {}
  BY DEF SortState, RangesOK, SortRange, Becomes
<1>2. r.begin \in 1 .. n + 1 /\ hi \in r.begin .. n + 1 /\ Cells(r) = r.begin .. hi - 1
  <2>1. n \in Nat
    BY TextFacts DEF SortState
  <2> QED BY <1>1, <2>1 DEF RangeOK, RangeType, Cells
<1>3. /\ text \in Corpora /\ Suffixes(indices)
      /\ RangesOK(indices, ranges) /\ InOrder(indices, ranges)
  BY DEF SortState
<1> HIDE DEF b, hi
<1>4. /\ Suffixes(b) /\ Shuffle(indices, b, Cells(r))
      /\ \A p, q \in Cells(r) : p < q => comp(b[p], b[q])
  BY <1>1, <1>2, <1>3, SortedShuffles
<1>5. RangesOK(b, (ranges \ {r}) \cup {}) /\ InOrder(b, (ranges \ {r}) \cup {})
  <2>1. /\ \A s \in {} : RangeOK(s) /\ Scanned(b, s) /\ Cells(s) \subseteq Cells(r)
        /\ \A s, u \in {} : s # u => Cells(s) \cap Cells(u) = {}
        /\ \A p, q \in Cells(r) : p < q /\ (\A s \in {} : ~ {p, q} \subseteq Cells(s)) => comp(b[p], b[q])
    BY <1>4
  <2> QED BY <1>3, <1>4, <2>1, RangeStep
<1> QED BY <1>1, <1>4, <1>5 DEF SortStateAfter, b

-----------------------------------------------------------------------------
\* A vector in which neighbours are in order is in order.
LEMMA NeighboursSuffice ==
  ASSUME text \in Corpora, NEW a, Suffixes(a), \A p \in 2 .. n : comp(a[p - 1], a[p])
  PROVE  \A p, q \in 1 .. n : p < q => comp(a[p], a[q])
<1> SUFFICES ASSUME NEW p \in 1 .. n, NEW q \in 1 .. n, p < q, ~ comp(a[p], a[q])
             PROVE  FALSE
  OBVIOUS
<1>1. n \in Nat /\ p \in Int /\ q \in Int
  BY TextFacts
<1> DEFINE T == {d \in Nat : 1 <= d /\ p + d <= n /\ ~ comp(a[p], a[p + d])}
<1>2. q - p \in T
  <2>1. p + (q - p) = q /\ q - p \in Nat
    BY <1>1
  <2> QED BY <1>1, <2>1
<1>3. PICK d \in T : \A e \in T : d <= e
  BY <1>2, LeastElement
<1>4. d \in Nat /\ 1 <= d /\ p + d <= n /\ ~ comp(a[p], a[p + d])
  OBVIOUS
<1>5. comp(a[p + d - 1], a[p + d])
  <2>1. p + d \in 2 .. n
    BY <1>1, <1>4
  <2> QED BY <2>1
<1>6. d # 1
  <2> SUFFICES ASSUME d = 1 PROVE FALSE
    OBVIOUS
  <2>1. p + d - 1 = p
    BY <1>1
  <2> QED BY <1>4, <1>5, <2>1
<1>7. d - 1 \notin T /\ d - 1 \in Nat /\ 1 <= d - 1 /\ p + (d - 1) <= n
  BY <1>1, <1>3, <1>4, <1>6
<1>8. comp(a[p], a[p + (d - 1)])
  BY <1>7
<1>9. a[p] \in 0 .. n /\ a[p + d - 1] \in 0 .. n /\ a[p + d] \in 0 .. n
  <2>1. p \in 0 .. n /\ p + d - 1 \in 0 .. n /\ p + d \in 0 .. n
    BY <1>1, <1>4
  <2> QED BY <2>1 DEF Suffixes
<1>10. p + (d - 1) = p + d - 1
  BY <1>1, <1>4
<1>11. \A i, j, h \in 0 .. n : comp(i, j) /\ comp(j, h) => comp(i, h)
  BY CompOrder
<1> HIDE DEF T
<1> QED BY <1>4, <1>5, <1>8, <1>9, <1>10, <1>11

\* All suffixes but the empty one in order: that is the suffix array.
LEMMA OrderIsEnough ==
  ASSUME text \in Corpora, NEW a, Suffixes(a), \A p, q \in 1 .. n : p < q => comp(a[p], a[q])
  PROVE  IsSuffixArray(a, text.data, text.size)
<1> SUFFICES ASSUME NEW p \in 0 .. n, NEW q \in 0 .. n, p < q PROVE comp(a[p], a[q])
  BY DEF IsSuffixArray, Suffixes, comp, n
<1>1. n \in Nat
  BY TextFacts
<1>2. CASE p = 0
  <2>1. a[p] = n /\ q # 0 /\ 0 \in 0 .. n
    BY <1>1, <1>2 DEF Suffixes
  <2>2. a[q] # n /\ a[q] \in 0 .. n
    BY <2>1 DEF Suffixes
  <2>3. a[q] \in 0 .. n - 1
    BY <1>1, <2>2
  <2> QED BY <2>1, <2>3, CompOrder
<1>3. CASE p # 0
  BY <1>1, <1>3
<1> QED BY <1>2, <1>3

\* At first one range has all cells.
LEMMA OneRange ==
  ASSUME text \in Corpora, NEW a
  PROVE  RangesOK(a, {QuickSortRange(1, n)}) /\ InOrder(a, {QuickSortRange(1, n)})
<1> DEFINE r == QuickSortRange(1, n)
<1>1. n \in Nat
  BY TextFacts
<1>2. Cells(r) = 1 .. n
  BY <1>1 DEF QuickSortRange, Cells
<1>3. RangeOK(r) /\ Scanned(a, r)
  BY <1>1 DEF QuickSortRange, RangeOK, RangeType, Scanned
<1> HIDE DEF r
<1>4. RangesOK(a, {r})
  BY <1>3 DEF RangesOK
<1>5. InOrder(a, {r})
  BY <1>2 DEF InOrder
<1> QED BY <1>4, <1>5 DEF r

\* The text does not change, and with it neither does the order of suffixes.
LEMMA TextStays ==
  ASSUME text' = text
  PROVE  /\ n' = n /\ (text \in Corpora)' = (text \in Corpora)
         /\ Suffixes(indices)' = Suffixes(indices')
         /\ RangesOK(indices, ranges)' = RangesOK(indices', ranges')
         /\ InOrder(indices, ranges)' = InOrder(indices', ranges')
         /\ \A i, j : comp(i, j)' = comp(i, j)
<1>1. n' = n /\ (text \in Corpora)' = (text \in Corpora)
  BY DEF n
<1>2. \A i, j : comp(i, j)' = comp(i, j)
  BY DEF comp, n
<1>3. Suffixes(indices)' = Suffixes(indices')
  BY <1>1 DEF Suffixes
<1>4. RangesOK(indices, ranges)' = RangesOK(indices', ranges')
  BY <1>1 DEF RangesOK, RangeOK, RangeType, Scanned, comp, n, Cells
<1>5. InOrder(indices, ranges)' = InOrder(indices', ranges')
  BY <1>1 DEF InOrder, comp, n, Cells
<1> QED BY <1>1, <1>2, <1>3, <1>4, <1>5
-----------------------------------------------------------------------------
\* make_SA begins with the indices in order.
LEMMA InitInv == Init => IInv
<1> SUFFICES ASSUME Init PROVE IInv
  OBVIOUS
<1>1. text \in Corpora /\ pc = "sort" /\ chunks = {} /\ ranges = {} /\ k = 1 /\ ~ cancelled
  BY DEF Init
<1>2. n \in Nat
  BY <1>1, TextFacts
<1>3. Suffixes(indices)
  <2>1. indices = [p \in 0 .. n |-> IF p = 0 THEN n ELSE p - 1]
    BY DEF Init
  <2> QED BY <1>2, <2>1 DEF Suffixes
<1>4. ControlOK /\ CheckOK /\ ChunksOK /\ PretestHasNoGap /\ RangesInOrder
  BY <1>1 DEF ControlOK, CheckOK, ChunksOK, PretestHasNoGap, RangesInOrder
<1>5. RangesOK(indices, ranges)
  BY <1>1 DEF RangesOK
<1> QED BY <1>3, <1>4, <1>5 DEF IInv

\* A step that leaves the vector and the ranges alone, or begins the quicksort, has
\* only to answer for the test.
LEMMA ControlStep ==
  ASSUME IInv, text' = text, indices' = indices, ControlOK', CheckOK', ChunksOK', PretestHasNoGap',
         \/ UNCHANGED ranges /\ (pc' = "quick_sort" => pc = "quick_sort")
         \/ ranges' = {QuickSortRange(1, n)}
  PROVE  IInv'
<1>1. /\ text \in Corpora /\ Suffixes(indices) /\ RangesOK(indices, ranges)
      /\ (pc = "quick_sort" => InOrder(indices, ranges))
  BY DEF IInv, ControlOK, RangesInOrder, InOrder
<1>2. RangesOK(indices', ranges') /\ (pc' = "quick_sort" => InOrder(indices', ranges'))
  <2>1. CASE UNCHANGED ranges /\ (pc' = "quick_sort" => pc = "quick_sort")
    BY <1>1, <2>1
  <2>2. CASE ranges' = {QuickSortRange(1, n)}
    BY <1>1, <2>2, OneRange
  <2> QED BY <2>1, <2>2
<1>3. Suffixes(indices)' /\ RangesOK(indices, ranges)' /\ (pc' = "quick_sort" => InOrder(indices, ranges)')
  BY <1>1, <1>2, TextStays
<1>4. RangesInOrder'
  BY <1>3 DEF RangesInOrder, InOrder
<1> QED BY <1>3, <1>4 DEF IInv

\* CheckFirst finds two cells in the wrong order or goes on to the next.
LEMMA CheckFirstStep == ASSUME IInv, CheckFirst PROVE IInv'
<1>1. /\ text' = text /\ indices' = indices /\ chunks' = chunks /\ cancelled' = cancelled
      /\ pc = "check" /\ k # 1 + SerialCutoff /\ text \in Corpora /\ chunks = {} /\ ranges = {}
  BY DEF CheckFirst, IInv, ControlOK
<1>2. /\ n' = n /\ (text \in Corpora)' = (text \in Corpora) /\ \A i, j : comp(i, j)' = comp(i, j)
  BY <1>1, TextStays
<1>3. /\ n \in Nat /\ n >= Grain /\ ~ cancelled /\ k \in 1 .. 1 + SerialCutoff
      /\ \A p \in 2 .. k : comp(indices[p - 1], indices[p])
  BY <1>1, TextFacts DEF IInv, CheckOK
<1>4. ChunksOK'
  BY <1>1 DEF ChunksOK
<1>5. CASE comp(indices[k + 1], indices[k])
  <2>1. pc' = "quick_sort" /\ ranges' = {QuickSortRange(1, n)}
    BY <1>5 DEF CheckFirst, QuickSort
  <2>2. ControlOK' /\ CheckOK' /\ PretestHasNoGap'
    BY <1>1, <1>2, <2>1 DEF ControlOK, CheckOK, PretestHasNoGap
  <2> QED BY <1>1, <1>4, <2>1, <2>2, ControlStep
<1>6. CASE ~ comp(indices[k + 1], indices[k])
  <2>1. k' = k + 1 /\ pc' = pc /\ ranges' = ranges
    BY <1>6 DEF CheckFirst
  <2>2. comp(indices[k], indices[k + 1])
    <3>1. k \in 0 .. n /\ k + 1 \in 0 .. n /\ k # k + 1
      BY <1>1, <1>3, GrainAssumption
    <3>2. indices[k] \in 0 .. n /\ indices[k + 1] \in 0 .. n /\ indices[k] # indices[k + 1]
      BY <3>1 DEF IInv, Suffixes
    <3> QED BY <1>1, <1>6, <3>2, CompOrder
  <2>3. CheckOK'
    <3>1. \A p \in 2 .. k + 1 : comp(indices[p - 1], indices[p])
      <4> SUFFICES ASSUME NEW p \in 2 .. k + 1 PROVE comp(indices[p - 1], indices[p])
        OBVIOUS
      <4>1. CASE p = k + 1
        <5>1. p - 1 = k
          BY <1>3, <4>1
        <5> QED BY <2>2, <4>1, <5>1
      <4>2. CASE p # k + 1
        BY <1>3, <4>2
      <4> QED BY <4>1, <4>2
    <3>2. k + 1 \in 1 .. 1 + SerialCutoff
      BY <1>1, <1>3, GrainAssumption
    <3> QED BY <1>1, <1>2, <1>3, <2>1, <3>1, <3>2 DEF CheckOK
  <2>4. ControlOK' /\ PretestHasNoGap'
    BY <1>1, <1>2, <2>1 DEF ControlOK, PretestHasNoGap
  <2> QED BY <1>1, <1>4, <2>1, <2>3, <2>4, ControlStep
<1> QED BY <1>5, <1>6

\* The chunk that is made covers all cells CheckFirst has not compared.
LEMMA StartPretestStep == ASSUME IInv, StartPretest PROVE IInv'
<1> DEFINE c == [lo |-> k + 1, hi |-> n + 1, k |-> k + 1]
<1>1. /\ text' = text /\ indices' = indices /\ k' = k /\ cancelled' = cancelled /\ ranges' = ranges
      /\ chunks' = {c} /\ pc = "check" /\ pc' = "pretest" /\ k = 1 + SerialCutoff
      /\ text \in Corpora /\ ranges = {}
  BY DEF StartPretest, FirstTested, IInv, ControlOK
<1>2. /\ n' = n /\ (text \in Corpora)' = (text \in Corpora) /\ \A i, j : comp(i, j)' = comp(i, j)
  BY <1>1, TextStays
<1>3. /\ n \in Nat /\ n >= Grain /\ k \in 1 .. 1 + SerialCutoff /\ k + 1 <= n
      /\ \A p \in 2 .. k : comp(indices[p - 1], indices[p])
  BY <1>1, TextFacts, GrainAssumption DEF IInv, CheckOK
<1>4. c.k = k + 1 /\ c.hi = n + 1 /\ c.lo = k + 1 /\ c \in [lo : Int, hi : Int, k : Int]
  BY <1>3
<1> HIDE DEF c
<1>5. ChunksOK'
  BY <1>1, <1>2, <1>3, <1>4 DEF ChunksOK
<1>6. PretestHasNoGap'
  <2>1. \A p \in 2 .. n : p \notin c.k .. c.hi - 1 => comp(indices[p - 1], indices[p])
    BY <1>3, <1>4
  <2> QED BY <1>1, <1>2, <2>1 DEF PretestHasNoGap
<1>7. ControlOK' /\ CheckOK'
  BY <1>1, <1>2 DEF ControlOK, CheckOK
<1> QED BY <1>1, <1>5, <1>6, <1>7, ControlStep

\* The two halves cover what the chunk has covered.
LEMMA SplitChunkStep == ASSUME IInv, pc = "pretest", NEW c \in chunks, SplitChunk(c) PROVE IInv'
<1> DEFINE middle == c.lo + (c.hi - c.lo) \div 2
           c1 == [c EXCEPT !.hi = middle]
           c2 == [c EXCEPT !.lo = middle, !.k = middle]
<1>1. /\ text' = text /\ indices' = indices /\ k' = k /\ cancelled' = cancelled /\ ranges' = ranges
      /\ pc' = pc /\ chunks' = (chunks \ {c}) \cup {c1, c2}
      /\ text \in Corpora /\ ranges = {} /\ c.k = c.lo /\ c.hi - c.lo > 1
  BY DEF SplitChunk, IInv, ControlOK
<1>2. /\ n' = n /\ (text \in Corpora)' = (text \in Corpora) /\ \A i, j : comp(i, j)' = comp(i, j)
  BY <1>1, TextStays
<1>3. /\ c \in [lo : Int, hi : Int, k : Int] /\ 2 <= c.lo /\ c.hi <= n + 1 /\ n \in Nat
  BY <1>1, TextFacts DEF IInv, ChunksOK
<1>4. middle \in Int /\ c.lo < middle /\ middle < c.hi
  BY <1>1, <1>3
<1> HIDE DEF middle
<1>5. /\ c1.lo = c.lo /\ c1.hi = middle /\ c1.k = c.k /\ c1 \in [lo : Int, hi : Int, k : Int]
      /\ c2.lo = middle /\ c2.hi = c.hi /\ c2.k = middle /\ c2 \in [lo : Int, hi : Int, k : Int]
  <2>1. c1.lo = c.lo /\ c1.hi = middle /\ c1.k = c.k /\ c1 \in [lo : Int, hi : Int, k : Int]
    BY <1>3, <1>4
  <2>2. c2.lo = middle /\ c2.hi = c.hi /\ c2.k = middle
    BY <1>3, <1>4
  <2>3. c2 \in [lo : Int, hi : Int, k : Int]
    <3> DEFINE d == [c EXCEPT !.lo = middle]
    <3>1. d \in [lo : Int, hi : Int, k : Int]
      BY <1>3, <1>4
    <3>2. [d EXCEPT !.k = middle] \in [lo : Int, hi : Int, k : Int]
      <4> HIDE DEF d
      <4> QED BY <1>4, <3>1
    <3>3. c2 = [d EXCEPT !.k = middle]
      OBVIOUS
    <3> QED BY <3>2, <3>3
  <2> QED BY <2>1, <2>2, <2>3
<1> HIDE DEF c1, c2
<1>6. ChunksOK'
  <2>1. \A d \in chunks : d \in [lo : Int, hi : Int, k : Int] /\ 2 <= d.lo /\ d.lo <= d.k /\ d.k < d.hi /\ d.hi <= n + 1
    BY DEF IInv, ChunksOK
  <2>2. \A d \in {c1, c2} : d \in [lo : Int, hi : Int, k : Int] /\ 2 <= d.lo /\ d.lo <= d.k /\ d.k < d.hi /\ d.hi <= n + 1
    BY <1>1, <1>3, <1>4, <1>5
  <2>3. \A d \in chunks' : d \in chunks \/ d \in {c1, c2}
    BY <1>1
  <2> QED BY <1>2, <2>1, <2>2, <2>3 DEF ChunksOK
<1>7. PretestHasNoGap'
  <2> SUFFICES ASSUME ~ cancelled, NEW p \in 2 .. n, \A d \in chunks' : p \notin d.k .. d.hi - 1
               PROVE  comp(indices[p - 1], indices[p])
    BY <1>1, <1>2 DEF PretestHasNoGap
  <2>1. p \notin c.k .. c.hi - 1
    <3>1. p \notin c1.k .. c1.hi - 1 /\ p \notin c2.k .. c2.hi - 1
      BY <1>1
    <3> QED BY <1>1, <1>3, <1>4, <1>5, <3>1
  <2>2. \A d \in chunks : p \notin d.k .. d.hi - 1
    BY <1>1, <2>1
  <2> QED BY <2>2 DEF IInv, PretestHasNoGap
<1>8. ControlOK' /\ CheckOK'
  BY <1>1, <1>2 DEF ControlOK, CheckOK
<1> QED BY <1>1, <1>6, <1>7, <1>8, ControlStep

\* A chunk is left early only when the test is, or has been, cancelled.
LEMMA TestCellStep == ASSUME IInv, pc = "pretest", NEW c \in chunks, TestCell(c) PROVE IInv'
<1> DEFINE d == [c EXCEPT !.k = @ + 1]
<1>1. /\ text' = text /\ indices' = indices /\ k' = k /\ ranges' = ranges /\ pc' = pc
      /\ text \in Corpora /\ ranges = {}
  BY DEF TestCell, IInv, ControlOK
<1>2. /\ n' = n /\ (text \in Corpora)' = (text \in Corpora) /\ \A i, j : comp(i, j)' = comp(i, j)
  BY <1>1, TextStays
<1>3. /\ c \in [lo : Int, hi : Int, k : Int] /\ 2 <= c.lo /\ c.lo <= c.k /\ c.k < c.hi /\ c.hi <= n + 1
      /\ n \in Nat
  BY <1>1, TextFacts DEF IInv, ChunksOK
<1>4. \/ cancelled' /\ chunks' = chunks \ {c}
      \/ /\ ~ comp(indices[c.k], indices[c.k - 1]) /\ cancelled' = cancelled
         /\ \/ c.k + 1 = c.hi /\ chunks' = chunks \ {c}
            \/ c.k + 1 # c.hi /\ chunks' = (chunks \ {c}) \cup {d}
  <2> HIDE DEF d
  <2>1. \/ cancelled /\ chunks' = chunks \ {c} /\ cancelled' = cancelled
        \/ IF comp(indices[c.k], indices[c.k - 1])
             THEN chunks' = chunks \ {c} /\ cancelled' = TRUE
             ELSE /\ IF c.k + 1 = c.hi THEN chunks' = chunks \ {c}
                                       ELSE chunks' = (chunks \ {c}) \cup {[c EXCEPT !.k = @ + 1]}
                  /\ cancelled' = cancelled
    BY DEF TestCell
  <2> QED BY <2>1 DEF d
<1>5. d.lo = c.lo /\ d.hi = c.hi /\ d.k = c.k + 1 /\ d \in [lo : Int, hi : Int, k : Int]
  BY <1>3
<1> HIDE DEF d
<1>6. ChunksOK'
  <2>1. \A e \in chunks : e \in [lo : Int, hi : Int, k : Int] /\ 2 <= e.lo /\ e.lo <= e.k /\ e.k < e.hi /\ e.hi <= n + 1
    BY DEF IInv, ChunksOK
  <2>2. c.k + 1 # c.hi => 2 <= d.lo /\ d.lo <= d.k /\ d.k < d.hi /\ d.hi <= n + 1
    BY <1>3, <1>5
  <2>3. \A e \in chunks' : e \in chunks \/ (e = d /\ c.k + 1 # c.hi)
    BY <1>4
  <2> QED BY <1>2, <1>5, <2>1, <2>2, <2>3 DEF ChunksOK
<1>7. PretestHasNoGap'
  <2> SUFFICES ASSUME ~ cancelled', NEW p \in 2 .. n, \A e \in chunks' : p \notin e.k .. e.hi - 1
               PROVE  comp(indices[p - 1], indices[p])
    BY <1>1, <1>2 DEF PretestHasNoGap
  <2>1. /\ ~ comp(indices[c.k], indices[c.k - 1]) /\ ~ cancelled
        /\ \/ c.k + 1 = c.hi /\ chunks' = chunks \ {c}
           \/ c.k + 1 # c.hi /\ chunks' = (chunks \ {c}) \cup {d}
    BY <1>4
  <2>2. CASE p = c.k
    <3>1. p \in 0 .. n /\ p - 1 \in 0 .. n /\ p # p - 1
      BY <1>3, <2>2
    <3>2. indices[p] \in 0 .. n /\ indices[p - 1] \in 0 .. n /\ indices[p] # indices[p - 1]
      BY <3>1 DEF IInv, Suffixes
    <3> QED BY <1>1, <2>1, <2>2, <3>2, CompOrder
  <2>3. CASE p # c.k
    <3>1. p \notin c.k .. c.hi - 1
      BY <1>3, <1>5, <2>1, <2>3
    <3>2. \A e \in chunks : p \notin e.k .. e.hi - 1
      BY <2>1, <3>1
    <3> QED BY <2>1, <3>2 DEF IInv, PretestHasNoGap
  <2> QED BY <2>2, <2>3
<1>8. ControlOK' /\ CheckOK'
  BY <1>1, <1>2, <1>4 DEF ControlOK, CheckOK
<1> QED BY <1>1, <1>6, <1>7, <1>8, ControlStep

\* The test ends: nothing to sort, or all of it.
LEMMA EndPretestStep == ASSUME IInv, EndPretest PROVE IInv'
<1>1. /\ text' = text /\ indices' = indices /\ k' = k /\ chunks' = chunks /\ cancelled' = cancelled
      /\ text \in Corpora /\ chunks = {} /\ ranges = {}
      /\ \/ pc' = "done" /\ ranges' = ranges
         \/ pc' = "quick_sort" /\ ranges' = {QuickSortRange(1, n)}
  BY DEF EndPretest, QuickSort, IInv, ControlOK
<1>2. (text \in Corpora)' = (text \in Corpora)
  BY <1>1, TextStays
<1>3. ControlOK' /\ CheckOK' /\ ChunksOK' /\ PretestHasNoGap'
  BY <1>1, <1>2 DEF ControlOK, CheckOK, ChunksOK, PretestHasNoGap
<1> QED BY <1>1, <1>3, ControlStep

\* A thread divides a range, or sorts it.
LEMMA SortRangesStep == ASSUME IInv, SortRanges PROVE IInv'
<1>1. /\ text' = text /\ pc' = pc /\ k' = k /\ chunks' = chunks /\ cancelled' = cancelled
      /\ pc = "quick_sort" /\ text \in Corpora /\ chunks = {}
  BY DEF SortRanges, IInv, ControlOK
<1>2. PICK r \in ranges : Split(r) \/ ScanDown(r) \/ ScanUp(r) \/ Partition(r) \/ SortRange(r)
  BY DEF SortRanges
<1>3. SortState
  BY <1>1 DEF SortState, IInv, RangesInOrder, InOrder
<1>4. SortStateAfter
  BY <1>2, <1>3, SplitStep, ScanDownStep, ScanUpStep, PartitionStep, SortRangeStep
<1>5. Suffixes(indices)' /\ RangesOK(indices, ranges)' /\ InOrder(indices, ranges)' /\ (text \in Corpora)'
  BY <1>1, <1>4, TextStays DEF SortStateAfter
<1>6. RangesInOrder'
  BY <1>5 DEF RangesInOrder, InOrder
<1>7. ControlOK' /\ CheckOK' /\ ChunksOK' /\ PretestHasNoGap'
  BY <1>1, <1>5 DEF ControlOK, CheckOK, ChunksOK, PretestHasNoGap
<1> QED BY <1>5, <1>6, <1>7 DEF IInv

\* A small vector is sorted at once.
LEMMA SortSeriallyStep == ASSUME IInv, SortSerially PROVE IInv'
<1>1. /\ text' = text /\ pc' = "done" /\ chunks' = {} /\ ranges' = {} /\ text \in Corpora
      /\ indices' = Sorted(indices, 1, n + 1)
  BY DEF SortSerially, IInv, ControlOK
<1>2. Suffixes(indices')
  <2>1. n \in Nat /\ 1 \in 1 .. n + 1 /\ n + 1 \in 1 .. n + 1
    BY <1>1, TextFacts
  <2> QED BY <1>1, <2>1, SortedShuffles DEF IInv
<1>3. Suffixes(indices)' /\ (text \in Corpora)'
  BY <1>1, <1>2, TextStays
<1>4. ControlOK' /\ CheckOK' /\ ChunksOK' /\ PretestHasNoGap' /\ RangesInOrder'
  BY <1>1, <1>3 DEF ControlOK, CheckOK, ChunksOK, PretestHasNoGap, RangesInOrder
<1>5. RangesOK(indices, ranges)'
  BY <1>1 DEF RangesOK
<1> QED BY <1>3, <1>4, <1>5 DEF IInv

\* Every step keeps the invariant.
LEMMA NextInv == IInv /\ [Next]_vars => IInv'
<1> SUFFICES ASSUME IInv, [Next]_vars PROVE IInv'
  OBVIOUS
<1>1. CASE SortSerially
  BY <1>1, SortSeriallyStep
<1>2. CASE Parallel
  <2>1. /\ text' = text /\ indices' = indices /\ k' = k /\ chunks' = chunks /\ cancelled' = cancelled
        /\ ranges' = ranges /\ pc = "sort" /\ pc' = "check" /\ n >= Grain
        /\ text \in Corpora /\ chunks = {} /\ ranges = {} /\ k = 1 /\ ~ cancelled
    BY <1>2 DEF Parallel, IInv, ControlOK
  <2>2. n' = n /\ (text \in Corpora)' /\ k' \in 1 .. 1 + SerialCutoff
    BY <2>1, TextStays, GrainAssumption
  <2>3. ControlOK' /\ ChunksOK' /\ PretestHasNoGap'
    BY <2>1, <2>2 DEF ControlOK, ChunksOK, PretestHasNoGap
  <2>4. CheckOK'
    BY <2>1, <2>2 DEF CheckOK
  <2> QED BY <2>1, <2>3, <2>4, ControlStep
<1>3. CASE CheckFirst
  BY <1>3, CheckFirstStep
<1>4. CASE StartPretest
  BY <1>4, StartPretestStep
<1>5. CASE Pretest
  BY <1>5, SplitChunkStep, TestCellStep DEF Pretest
<1>6. CASE EndPretest
  BY <1>6, EndPretestStep
<1>7. CASE SortRanges
  BY <1>7, SortRangesStep
<1>8. CASE EndQuickSort
  <2>1. /\ text' = text /\ indices' = indices /\ k' = k /\ chunks' = chunks /\ cancelled' = cancelled
        /\ ranges' = ranges /\ pc' = "done" /\ text \in Corpora /\ chunks = {} /\ ranges = {}
    BY <1>8 DEF EndQuickSort, IInv, ControlOK
  <2>2. (text \in Corpora)'
    BY <2>1, TextStays
  <2>3. ControlOK' /\ CheckOK' /\ ChunksOK' /\ PretestHasNoGap'
    BY <2>1, <2>2 DEF ControlOK, CheckOK, ChunksOK, PretestHasNoGap
  <2> QED BY <2>1, <2>3, ControlStep
<1>9. CASE UNCHANGED vars
  <2>1. /\ text' = text /\ indices' = indices /\ k' = k /\ chunks' = chunks /\ cancelled' = cancelled
        /\ ranges' = ranges /\ pc' = pc
    BY <1>9 DEF vars
  <2>2. /\ n' = n /\ (text \in Corpora)' = (text \in Corpora) /\ \A i, j : comp(i, j)' = comp(i, j)
    BY <2>1, TextStays
  <2>3. ControlOK' /\ CheckOK' /\ ChunksOK' /\ PretestHasNoGap'
    BY <2>1, <2>2 DEF IInv, ControlOK, CheckOK, ChunksOK, PretestHasNoGap
  <2> QED BY <2>1, <2>3, ControlStep
<1> QED BY <1>1, <1>2, <1>3, <1>4, <1>5, <1>6, <1>7, <1>8, <1>9 DEF Next, Done

\* IInv holds in every state of make_SA.
LEMMA InvariantHolds == Spec => []IInv
BY InitInv, NextInv, PTL DEF Spec
-----------------------------------------------------------------------------
\* Whatever the threads do, the vector keeps every suffix, and no two of them work on
\* the same cell (make_SA, inc/SuffixArrayNaive.hpp:72).
THEOREM ThreadsKeepApart == Spec => []TypeOK
<1>1. IInv => TypeOK
  <2> SUFFICES ASSUME IInv PROVE TypeOK
    OBVIOUS
  <2>1. text \in Corpora /\ pc \in {"sort", "check", "pretest", "quick_sort", "done"}
    BY DEF IInv, ControlOK
  <2>2. {indices[p] : p \in 0 .. n} = 0 .. n /\ indices[0] = n
    <3>1. Suffixes(indices)
      BY DEF IInv
    <3>2. {indices[p] : p \in 0 .. n} = 0 .. n
      BY <2>1, <3>1, NoneIsMissing
    <3> QED BY <3>1, <3>2 DEF Suffixes
  <2>3. \A c \in chunks : 2 <= c.lo /\ c.lo <= c.k /\ c.k < c.hi /\ c.hi <= n + 1
    BY DEF IInv, ChunksOK
  <2>4. \A r \in ranges : r.at \in {"ready", "down", "up"} /\ Cells(r) \subseteq 1 .. n
    <3> SUFFICES ASSUME NEW r \in ranges
                 PROVE  r.at \in {"ready", "down", "up"} /\ Cells(r) \subseteq 1 .. n
      OBVIOUS
    <3>1. RangeOK(r)
      BY DEF IInv, RangesOK
    <3> QED BY <2>1, <3>1, RangeCells DEF RangeOK, RangeType
  <2>5. \A r, s \in ranges : r # s => Cells(r) \cap Cells(s) = {}
    BY DEF IInv, RangesOK
  <2> QED BY <2>1, <2>2, <2>3, <2>4, <2>5 DEF TypeOK
<1> QED BY <1>1, InvariantHolds, PTL

\* The scans of split_range have no bounds check and do not need one
\* (parallel_sort.h:73-89).
THEOREM ScansNeedNoBounds == Spec => []ScansStayInside
<1>1. IInv => ScansStayInside
  <2> SUFFICES ASSUME IInv, NEW r \in ranges, r.at # "ready"
               PROVE  0 <= r.i /\ r.i <= r.j /\ r.j <= r.size
    BY DEF ScansStayInside
  <2>1. RangeOK(r) /\ Scanned(indices, r)
    BY DEF IInv, RangesOK
  <2>2. r.i \in Int /\ r.j \in Int /\ r.size \in Int /\ (r.at = "down" \/ r.at = "up")
    BY <2>1 DEF RangeOK, RangeType
  <2> QED BY <2>1, <2>2 DEF Scanned
<1> QED BY <1>1, InvariantHolds, PTL

\* A test nobody cancels has compared every cell with the one before it, however the
\* chunks were divided and taken (parallel_sort.h:141, 176-190).
THEOREM PretestMissesNothing == Spec => []PretestHasNoGap
<1>1. IInv => PretestHasNoGap
  BY DEF IInv
<1> QED BY <1>1, InvariantHolds, PTL

\* What the partitions have put in order stays in order, whatever threads do in the
\* ranges that are left (parallel_sort.h:91).
THEOREM PartitionsStayInOrder == Spec => []RangesInOrder
<1>1. IInv => RangesInOrder
  BY DEF IInv
<1> QED BY <1>1, InvariantHolds, PTL

\* -n and -np implement the contract of a construction algorithm: when make_SA returns,
\* the vector is the suffix array, for every corpus and number of threads.
THEOREM NaiveConstructionIsRight == Spec => SortsTheCorpus
<1> DEFINE out == IF pc = "done" THEN indices ELSE << >>
<1>1. Init => Contract!Init
  BY DEF Init, Contract!Init
<1>2. ASSUME IInv, [Next]_vars PROVE [Contract!Sort]_<<text, out>>
  <2>1. text' = text /\ text \in Corpora
    BY <1>2 DEF Next, SortSerially, Parallel, CheckFirst, StartPretest, Pretest, SplitChunk, TestCell,
                EndPretest, SortRanges, EndQuickSort, Done, vars, IInv, ControlOK
  <2>2. CASE pc = "done"
    <3>1. indices' = indices /\ pc' = pc
      BY <1>2, <2>2 DEF Next, SortSerially, Parallel, CheckFirst, StartPretest, Pretest,
                        EndPretest, SortRanges, EndQuickSort, Done, vars
    <3> QED BY <2>1, <3>1
  <2>3. CASE pc # "done" /\ pc' # "done"
    BY <2>1, <2>3
  <2>4. CASE pc # "done" /\ pc' = "done"
    <3>1. Suffixes(indices') /\ \A p, q \in 1 .. n : p < q => comp(indices'[p], indices'[q])
      <4>1. IInv'
        BY <1>2, NextInv
      <4>2. Suffixes(indices')
        BY <2>1, <4>1, TextStays DEF IInv
      <4>3. CASE SortSerially
        <5>1. n \in Nat /\ 1 \in 1 .. n + 1 /\ n + 1 \in 1 .. n + 1 /\ (n + 1) - 1 = n
          BY <2>1, TextFacts
        <5>2. indices' = Sorted(indices, 1, n + 1) /\ Suffixes(indices)
          BY <1>2, <4>3 DEF SortSerially, IInv
        <5>3. \A p, q \in 1 .. (n + 1) - 1 : p < q => comp(indices'[p], indices'[q])
          BY <2>1, <5>1, <5>2, SortedShuffles
        <5> QED BY <4>2, <5>1, <5>3
      <4>4. CASE EndPretest
        <5>1. indices' = indices /\ pc = "pretest" /\ chunks = {} /\ ~ cancelled
          BY <2>4, <4>4 DEF EndPretest, QuickSort, IsSorted
        <5>2. \A p \in 2 .. n : comp(indices[p - 1], indices[p])
          BY <1>2, <5>1 DEF IInv, PretestHasNoGap
        <5>3. \A p, q \in 1 .. n : p < q => comp(indices[p], indices[q])
          BY <1>2, <2>1, <5>2, NeighboursSuffice DEF IInv
        <5> QED BY <4>2, <5>1, <5>3
      <4>5. CASE EndQuickSort
        <5>1. indices' = indices /\ pc = "quick_sort" /\ ranges = {}
          BY <4>5 DEF EndQuickSort
        <5>2. \A p, q \in 1 .. n : p < q => comp(indices[p], indices[q])
          BY <1>2, <5>1 DEF IInv, RangesInOrder
        <5> QED BY <4>2, <5>1, <5>2
      <4> QED BY <1>2, <2>4, <4>3, <4>4, <4>5
                 DEF Next, Parallel, CheckFirst, QuickSort, StartPretest, Pretest, SplitChunk, TestCell,
                     SortRanges, Done, vars
    <3>2. IsSuffixArray(indices', text.data, text.size)
      BY <2>1, <3>1, OrderIsEnough
    <3>3. Contract!IsSuffixArray(indices', text.data, text.size)
      BY <3>2 DEF IsSuffixArray, SuffixLess, LexLess,
                  Contract!IsSuffixArray, Contract!SuffixLess, Contract!LexLess
    <3>4. out = << >> /\ out' = indices'
      BY <2>4
    <3> QED BY <2>1, <3>3, <3>4, SMTT(30) DEF Contract!Sort
  <2> QED BY <2>2, <2>3, <2>4, SMTT(30)
<1> QED BY <1>1, <1>2, InvariantHolds, PTL DEF Spec, SortsTheCorpus, Contract!Spec
=============================================================================
