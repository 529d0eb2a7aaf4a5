---------------------------- MODULE SuffixOrder_proofs ----------------------------
(***************************************************************************)
(* Facts about the order of suffixes that the proofs of the components     *)
(* share: it is a strict total order, and the rank of a suffix in a set of *)
(* suffixes determines it. LeastElement stands for induction.              *)
(***************************************************************************)
EXTENDS SuffixOrder, FunctionTheorems, FiniteSetTheorems, TLAPS

\* One symbol and the order one position to the right decide how a suffix compares
\* with its right neighbour: the recurrence of the loop of make_STypes.
LEMMA NeighbourOrder ==
  ASSUME NEW m \in Nat, NEW c \in [0 .. m - 1 -> Nat], NEW i \in 0 .. m - 2
  PROVE  SuffixLess(c, m, i, i + 1) <=>
           \/ c[i] < c[i + 1]
           \/ c[i] = c[i + 1] /\ SuffixLess(c, m, i + 1, i + 2)
<1>1. ASSUME SuffixLess(c, m, i, i + 1), ~ (c[i] < c[i + 1])
      PROVE  c[i] = c[i + 1] /\ SuffixLess(c, m, i + 1, i + 2)
  <2>1. PICK d \in 0 .. m - i :
          /\ i + 1 + d < m
          /\ \A e \in 0 .. d - 1 : c[i + e] = c[i + 1 + e]
          /\ i + d = m \/ c[i + d] < c[i + 1 + d]
    BY <1>1 DEF SuffixLess, LexLess
  <2>2. d # 0
    BY <2>1, <1>1
  <2>3. c[i] = c[i + 1]
    <3>1. c[i + 0] = c[i + 1 + 0]
      BY <2>1, <2>2, 0 \in 0 .. d - 1
    <3> QED BY <3>1
  <2>4. /\ d - 1 \in 0 .. m - (i + 1)
        /\ i + 2 + (d - 1) < m
        /\ c[i + 1 + (d - 1)] < c[i + 2 + (d - 1)]
    BY <2>1, <2>2
  <2>5. ASSUME NEW e \in 0 .. (d - 1) - 1
        PROVE  c[i + 1 + e] = c[i + 2 + e]
    <3>1. c[i + (e + 1)] = c[i + 1 + (e + 1)]
      BY <2>1, e + 1 \in 0 .. d - 1
    <3> QED BY <3>1
  <2> QED BY <2>3, <2>4, <2>5 DEF SuffixLess, LexLess
<1>2. ASSUME c[i] < c[i + 1]
      PROVE  SuffixLess(c, m, i, i + 1)
  <2>1. /\ 0 \in 0 .. m - i /\ i + 1 + 0 < m
        /\ \A e \in 0 .. 0 - 1 : c[i + e] = c[i + 1 + e]
        /\ c[i + 0] < c[i + 1 + 0]
    BY <1>2
  <2> QED BY <2>1 DEF SuffixLess, LexLess
<1>3. ASSUME c[i] = c[i + 1], SuffixLess(c, m, i + 1, i + 2)
      PROVE  SuffixLess(c, m, i, i + 1)
  <2>1. PICK d \in 0 .. m - (i + 1) :
          /\ i + 2 + d < m
          /\ \A e \in 0 .. d - 1 : c[i + 1 + e] = c[i + 2 + e]
          /\ i + 1 + d = m \/ c[i + 1 + d] < c[i + 2 + d]
    BY <1>3 DEF SuffixLess, LexLess
  <2>2. /\ d + 1 \in 0 .. m - i
        /\ i + 1 + (d + 1) < m
        /\ c[i + (d + 1)] < c[i + 1 + (d + 1)]
    BY <2>1
  <2>3. ASSUME NEW e \in 0 .. (d + 1) - 1
        PROVE  c[i + e] = c[i + 1 + e]
    <3>1. CASE e = 0
      BY <3>1, <1>3
    <3>2. CASE e # 0
      <4>1. c[i + 1 + (e - 1)] = c[i + 2 + (e - 1)]
        BY <2>1, <3>2, e - 1 \in 0 .. d - 1
      <4> QED BY <4>1
    <3> QED BY <3>1, <3>2
  <2> QED BY <2>2, <2>3 DEF SuffixLess, LexLess
<1> QED BY <1>1, <1>2, <1>3

\* The last symbol is larger than the empty suffix behind it.
LEMMA LastIsL ==
  ASSUME NEW m \in Nat, NEW c
  PROVE  ~ SuffixLess(c, m, m - 1, m)
BY DEF SuffixLess, LexLess

\* The lexicographic order is transitive, whatever the three strings are.
LEMMA LexTransitive ==
  ASSUME NEW m \in Int, NEW l \in Int, NEW z \in Int, NEW i \in Int, NEW j \in Int, NEW h \in Int,
         NEW u \in [0 .. m - 1 -> Int], NEW v \in [0 .. l - 1 -> Int],
         NEW w \in [0 .. z - 1 -> Int], 0 <= i, 0 <= j, 0 <= h,
         LexLess(u, i, m, v, j, l), LexLess(v, j, l, w, h, z)
  PROVE  LexLess(u, i, m, w, h, z)
<1>1. PICK d \in 0 .. m - i :
        /\ j + d < l
        /\ \A e \in 0 .. d - 1 : u[i + e] = v[j + e]
        /\ i + d = m \/ u[i + d] < v[j + d]
  BY DEF LexLess
<1>2. PICK c \in 0 .. l - j :
        /\ h + c < z
        /\ \A e \in 0 .. c - 1 : v[j + e] = w[h + e]
        /\ j + c = l \/ v[j + c] < w[h + c]
  BY DEF LexLess
<1> DEFINE b == IF d < c THEN d ELSE c
<1>3. b \in 0 .. m - i /\ h + b < z /\ j + b < l
  BY <1>1, <1>2
<1>4. \A e \in 0 .. b - 1 : u[i + e] = w[h + e]
  BY <1>1, <1>2
<1>5. ASSUME i + b # m PROVE u[i + b] < w[h + b]
  <2>1. i + b \in 0 .. m - 1 /\ j + b \in 0 .. l - 1 /\ h + b \in 0 .. z - 1
    BY <1>3, <1>5
  <2>2. u[i + b] \in Int /\ v[j + b] \in Int /\ w[h + b] \in Int
    BY <2>1
  <2>3. CASE d < c
    <3>1. b = d /\ b \in 0 .. c - 1
      BY <2>3
    <3>2. v[j + b] = w[h + b] /\ u[i + b] < v[j + b]
      BY <1>1, <1>2, <1>5, <3>1
    <3> QED BY <2>2, <3>2
  <2>4. CASE c < d
    <3>1. b = c /\ b \in 0 .. d - 1
      BY <2>4
    <3>2. u[i + b] = v[j + b] /\ v[j + b] < w[h + b]
      BY <1>1, <1>2, <1>3, <3>1
    <3> QED BY <2>2, <3>2
  <2>5. CASE c = d
    <3>1. u[i + b] < v[j + b] /\ v[j + b] < w[h + b]
      BY <1>1, <1>2, <1>3, <1>5, <2>5
    <3>2. \A p, q, r \in Int : p < q /\ q < r => p < r
      OBVIOUS
    <3> HIDE DEF b
    <3> QED BY <2>2, <3>1, <3>2
  <2>6. d < c \/ c < d \/ c = d
    OBVIOUS
  <2> HIDE DEF b
  <2> QED BY <2>3, <2>4, <2>5, <2>6
<1> HIDE DEF b
<1> QED BY <1>3, <1>4, <1>5 DEF LexLess
-----------------------------------------------------------------------------
\* A set of natural numbers has a least element: what an induction needs.
LEMMA LeastElement ==
  ASSUME NEW T \in SUBSET Nat, T # {}
  PROVE  \E m \in T : \A k \in T : m <= k
<1> DEFINE Up(k) == 0 .. k - 1
           F == {Up(k) : k \in T}
<1>1. F \subseteq FiniteSubsetsOf(Nat) /\ F # {}
  <2> SUFFICES ASSUME NEW k \in T PROVE Up(k) \subseteq Nat /\ IsFiniteSet(Up(k))
    BY DEF FiniteSubsetsOf
  <2> QED BY FS_Interval
<1>2. IsWellFoundedOn(StrictSubsetOrdering(Nat), FiniteSubsetsOf(Nat))
  BY FS_StrictSubsetOrderingWellFounded
<1> HIDE DEF F
<1>3. PICK x \in F : \A y \in F : ~ (<<y, x>> \in StrictSubsetOrdering(Nat))
  BY <1>1, <1>2, WFMin
<1> USE DEF F
<1>4. PICK m \in T : x = Up(m)
  OBVIOUS
<1>5. ASSUME NEW k \in T, k < m PROVE FALSE
  <2>1. Up(k) \subseteq Up(m) /\ Up(k) \subseteq Nat /\ Up(m) \subseteq Nat
    BY <1>5
  <2>2. k \in Up(m) /\ k \notin Up(k)
    BY <1>5
  <2> HIDE DEF Up
  <2>3. <<Up(k), Up(m)>> \in StrictSubsetOrdering(Nat)
    BY <2>1, <2>2 DEF StrictSubsetOrdering
  <2> QED BY <1>3, <1>4, <2>3
<1> QED BY <1>5

\* The order of the suffixes is strict ...
LEMMA SuffixIrreflexive ==
  ASSUME NEW m \in Nat, NEW t \in [0 .. m - 1 -> Int], NEW i \in 0 .. m
  PROVE  ~ SuffixLess(t, m, i, i)
<1> SUFFICES ASSUME NEW d \in 0 .. m - i, i + d < m, t[i + d] < t[i + d] PROVE FALSE
  BY DEF SuffixLess, LexLess
<1>1. t[i + d] \in Int
  OBVIOUS
<1> QED BY <1>1

\* ... transitive ...
LEMMA SuffixTransitive ==
  ASSUME NEW m \in Nat, NEW t \in [0 .. m - 1 -> Int],
         NEW i \in 0 .. m, NEW j \in 0 .. m, NEW h \in 0 .. m,
         SuffixLess(t, m, i, j), SuffixLess(t, m, j, h)
  PROVE  SuffixLess(t, m, i, h)
<1>1. /\ m \in Int /\ i \in Int /\ j \in Int /\ h \in Int /\ 0 <= i /\ 0 <= j /\ 0 <= h
      /\ LexLess(t, i, m, t, j, m) /\ LexLess(t, j, m, t, h, m)
  BY DEF SuffixLess
<1>2. LexLess(t, i, m, t, h, m)
  BY ONLY <1>1, t \in [0 .. m - 1 -> Int], LexTransitive
<1> QED BY <1>2 DEF SuffixLess

\* ... and asymmetric.
LEMMA SuffixAsymmetric ==
  ASSUME NEW m \in Nat, NEW t \in [0 .. m - 1 -> Int], NEW i \in 0 .. m, NEW j \in 0 .. m,
         SuffixLess(t, m, i, j)
  PROVE  ~ SuffixLess(t, m, j, i)
BY SuffixTransitive, SuffixIrreflexive

\* Two suffixes differ where one of them ends, at the latest.
LEMMA SuffixTotal ==
  ASSUME NEW m \in Nat, NEW t \in [0 .. m - 1 -> Int], NEW i \in 0 .. m, NEW j \in 0 .. m, i # j
  PROVE  SuffixLess(t, m, i, j) \/ SuffixLess(t, m, j, i)
<1> DEFINE T == {d \in Nat : i + d >= m \/ j + d >= m \/ t[i + d] # t[j + d]}
<1>1. m \in T
  OBVIOUS
<1>2. PICK d \in T : \A e \in T : d <= e
  BY <1>1, LeastElement
<1>3. \A e \in 0 .. d - 1 : i + e < m /\ j + e < m /\ t[i + e] = t[j + e]
  BY <1>2
<1>4. d \in Nat /\ (i + d >= m \/ j + d >= m \/ t[i + d] # t[j + d])
  OBVIOUS
<1> HIDE DEF T
<1>5. i + d <= m /\ j + d <= m
  <2>1. CASE d = 0
    BY <2>1
  <2>2. CASE d # 0
    <3>1. d - 1 \in 0 .. d - 1
      BY <1>4, <2>2
    <3>2. i + (d - 1) < m /\ j + (d - 1) < m
      BY <1>3, <3>1
    <3> QED BY <1>4, <3>2
  <2> QED BY <2>1, <2>2
<1>6. d \in 0 .. m - i /\ d \in 0 .. m - j
  BY <1>4, <1>5
<1>7. \A e \in 0 .. d - 1 : t[i + e] = t[j + e] /\ t[j + e] = t[i + e]
  BY <1>3
<1>8. ASSUME j + d < m, i + d = m \/ t[i + d] < t[j + d]
      PROVE  SuffixLess(t, m, i, j)
  BY <1>6, <1>7, <1>8 DEF SuffixLess, LexLess
<1>9. ASSUME i + d < m, j + d = m \/ t[j + d] < t[i + d]
      PROVE  SuffixLess(t, m, j, i)
  BY <1>6, <1>7, <1>9 DEF SuffixLess, LexLess
<1>10. ASSUME i + d < m, j + d < m
       PROVE  t[i + d] < t[j + d] \/ t[j + d] < t[i + d]
  <2>1. t[i + d] # t[j + d]
    BY <1>4, <1>10
  <2>2. i + d \in 0 .. m - 1 /\ j + d \in 0 .. m - 1
    BY <1>4, <1>10
  <2>3. t[i + d] \in Int /\ t[j + d] \in Int
    BY <2>2
  <2> QED BY <2>1, <2>3
<1>11. i + d < m \/ j + d < m
  BY <1>4, <1>5
<1> QED BY <1>4, <1>5, <1>8, <1>9, <1>10, <1>11

\* The empty suffix is the smallest one.
LEMMA EmptyIsLeast ==
  ASSUME NEW m \in Nat, NEW t, NEW j \in 0 .. m - 1
  PROVE  SuffixLess(t, m, m, j)
BY 0 \in 0 .. m - m DEF SuffixLess, LexLess

\* How many suffixes of S are smaller than s: what Sorted and SuffixArrayOf count.
Rank(t, m, S, s) == Cardinality({u \in S : SuffixLess(t, m, u, s)})

\* A suffix has a larger rank than those smaller than it, and every rank below the
\* size of S is that of a suffix.
LEMMA Ranks ==
  ASSUME NEW m \in Nat, NEW t \in [0 .. m - 1 -> Int], NEW S \in SUBSET (0 .. m)
  PROVE  /\ IsFiniteSet(S) /\ Cardinality(S) \in Nat
         /\ \A r, s \in S : SuffixLess(t, m, r, s) => Rank(t, m, S, r) < Rank(t, m, S, s)
         /\ \A s \in S : Rank(t, m, S, s) \in 0 .. Cardinality(S) - 1
         /\ \A q \in 0 .. Cardinality(S) - 1 : \E s \in S : Rank(t, m, S, s) = q
<1> DEFINE Below(s) == {u \in S : SuffixLess(t, m, u, s)}
           R == 0 .. Cardinality(S) - 1
           rank == [s \in S |-> Cardinality(Below(s))]
<1>1. IsFiniteSet(S) /\ Cardinality(S) \in Nat
  <2>1. IsFiniteSet(0 .. m)
    BY FS_Interval
  <2>2. IsFiniteSet(S)
    BY <2>1, FS_Subset
  <2> QED BY <2>2, FS_CardinalityType
<1>2. ASSUME NEW s \in S
      PROVE  /\ IsFiniteSet(Below(s)) /\ Cardinality(Below(s)) \in Nat
             /\ s \notin Below(s) /\ Below(s) \subseteq S
  BY <1>1, FS_Subset, FS_CardinalityType, SuffixIrreflexive
<1>3. ASSUME NEW r \in S, NEW s \in S, SuffixLess(t, m, r, s)
      PROVE  Cardinality(Below(r)) < Cardinality(Below(s))
  <2>1. Below(r) \subseteq Below(s)
    BY <1>3, SuffixTransitive
  <2>2. r \in Below(s) /\ r \notin Below(r)
    BY <1>2, <1>3
  <2> HIDE DEF Below
  <2>3. Cardinality(Below(r)) <= Cardinality(Below(s)) /\ Cardinality(Below(s)) # Cardinality(Below(r))
    BY <1>2, <2>1, <2>2, FS_Subset
  <2> QED BY <1>2, <2>3
<1>4. ASSUME NEW s \in S PROVE Cardinality(Below(s)) \in R
  <2> HIDE DEF Below
  <2>1. Cardinality(Below(s)) <= Cardinality(S) /\ Cardinality(S) # Cardinality(Below(s))
    BY <1>1, <1>2, FS_Subset
  <2> QED BY <1>1, <1>2, <2>1
<1>5. rank \in Injection(S, R)
  <2> SUFFICES ASSUME NEW r \in S, NEW s \in S, r # s PROVE rank[r] # rank[s]
    BY <1>4, Fun_IsInj
  <2>1. SuffixLess(t, m, r, s) \/ SuffixLess(t, m, s, r)
    BY SuffixTotal
  <2>2. Cardinality(Below(r)) \in Nat /\ Cardinality(Below(s)) \in Nat
    BY <1>2
  <2>3. rank[r] = Cardinality(Below(r)) /\ rank[s] = Cardinality(Below(s))
    OBVIOUS
  <2>4. Cardinality(Below(r)) < Cardinality(Below(s)) \/ Cardinality(Below(s)) < Cardinality(Below(r))
    BY <1>3, <2>1
  <2> HIDE DEF Below, rank
  <2> QED BY <2>2, <2>3, <2>4
<1>6. rank \in Surjection(S, R)
  <2> HIDE DEF rank
  <2> DEFINE c == Cardinality(S) - 1
  <2>1. c \in Int /\ (0 > c => Cardinality(S) = 0)
    BY <1>1
  <2>2. IsFiniteSet(R) /\ Cardinality(R) = Cardinality(S)
    <3>1. IsFiniteSet(0 .. c) /\ Cardinality(0 .. c) = IF 0 > c THEN 0 ELSE c - 0 + 1
      <4> HIDE DEF c
      <4> QED BY <2>1, FS_Interval
    <3> QED BY <1>1, <2>1, <3>1
  <2> HIDE DEF R
  <2> QED BY <1>5, <2>2, FS_Injection
<1>7. \A q \in R : \E s \in S : Cardinality(Below(s)) = q
  BY <1>6, Fun_SurjectionProperties DEF Surjection
<1> QED BY <1>1, <1>3, <1>4, <1>7 DEF Rank
-----------------------------------------------------------------------------
(***************************************************************************)
(* What induced sorting rests on, for every text. A level w is a record    *)
(* [n, cont, stypes, ...], as in the Stack of SAIS. The code of a position *)
(* is its symbol and its type, L below S; keys of suffixes are compared    *)
(* code by code, up to an LMS position (KeyLess). Without that limit this  *)
(* is the order of the suffixes (KeyIsLess, LessIsKey).                    *)
(***************************************************************************)

\* A text with the types of its suffixes.
TextOK(w) ==
  /\ w.n \in Nat \ {0}
  /\ w.cont \in [0 .. w.n - 1 -> Nat]
  /\ w.stypes \in [0 .. w.n -> BOOLEAN]
  /\ w.stypes[w.n]
  /\ \A i \in 0 .. w.n - 1 : w.stypes[i] <=> SuffixLess(w.cont, w.n, i, i + 1)

Less(w, i, j) == SuffixLess(w.cont, w.n, i, j)

LMS(w, i) == w.stypes[i] /\ ~ w.stypes[i - 1]

\* The symbol at a position; the end is smaller than all others.
Symbol(w, i) == IF i = w.n THEN -1 ELSE w.cont[i]

Code(w, i) == 2 * Symbol(w, i) + (IF w.stypes[i] THEN 1 ELSE 0)

\* Suffix i is smaller than suffix j in a position not behind the first LMS position
\* that is from or more positions to the right of i.
KeyLess(w, from, i, j) ==
  \E d \in 0 .. w.n :
    /\ i + d <= w.n /\ j + d <= w.n
    /\ \A e \in 0 .. d - 1 : Code(w, i + e) = Code(w, j + e) /\ (e >= from => ~ LMS(w, i + e))
    /\ Code(w, i + d) < Code(w, j + d)
-----------------------------------------------------------------------------
\* The order of codes is that of symbols, with L before S.
LEMMA CodeFacts ==
  ASSUME NEW w, TextOK(w), NEW i \in 0 .. w.n, NEW j \in 0 .. w.n
  PROVE  /\ Code(w, i) \in Int /\ Symbol(w, i) \in Int /\ Symbol(w, i) >= -1
         /\ Symbol(w, i) = -1 <=> i = w.n
         /\ Code(w, i) = Code(w, j) <=>
              Symbol(w, i) = Symbol(w, j) /\ (w.stypes[i] <=> w.stypes[j])
         /\ Code(w, i) < Code(w, j) <=>
              \/ Symbol(w, i) < Symbol(w, j)
              \/ Symbol(w, i) = Symbol(w, j) /\ ~ w.stypes[i] /\ w.stypes[j]
<1>1. ASSUME NEW x \in 0 .. w.n
      PROVE  /\ Symbol(w, x) \in Int /\ Symbol(w, x) >= -1
             /\ Symbol(w, x) = -1 <=> x = w.n
             /\ \E b \in {0, 1} : Code(w, x) = 2 * Symbol(w, x) + b /\ (b = 1 <=> w.stypes[x])
  <2>1. x # w.n => w.cont[x] \in Nat
    BY DEF TextOK
  <2> QED BY <2>1 DEF Symbol, Code
<1>2. PICK a \in {0, 1} : Code(w, i) = 2 * Symbol(w, i) + a /\ (a = 1 <=> w.stypes[i])
  BY <1>1
<1>3. PICK b \in {0, 1} : Code(w, j) = 2 * Symbol(w, j) + b /\ (b = 1 <=> w.stypes[j])
  BY <1>1
<1>4. Symbol(w, i) \in Int /\ Symbol(w, j) \in Int
  BY <1>1
<1>5. Code(w, i) = Code(w, j) <=> Symbol(w, i) = Symbol(w, j) /\ a = b
  <2>1. \A x, y \in Int : 2 * x + a = 2 * y + b => x = y /\ a = b
    OBVIOUS
  <2> QED BY <1>2, <1>3, <1>4, <2>1
<1>6. Code(w, i) < Code(w, j) <=>
        Symbol(w, i) < Symbol(w, j) \/ (Symbol(w, i) = Symbol(w, j) /\ a = 0 /\ b = 1)
  BY <1>2, <1>3, <1>4
<1>7. a = b <=> (w.stypes[i] <=> w.stypes[j])
  BY <1>2, <1>3
<1>8. (a = 0 <=> ~ w.stypes[i]) /\ (b = 1 <=> w.stypes[j])
  BY <1>2, <1>3
<1> QED BY <1>1, <1>2, <1>5, <1>6, <1>7, <1>8

\* The suffix with the smaller first symbol is smaller.
LEMMA SmallerSymbol ==
  ASSUME NEW w, TextOK(w), NEW i \in 0 .. w.n, NEW j \in 0 .. w.n, Symbol(w, i) < Symbol(w, j)
  PROVE  Less(w, i, j)
<1>1. w.n \in Nat /\ j # w.n
  BY CodeFacts DEF TextOK
<1>2. 0 \in 0 .. w.n - i /\ j + 0 < w.n /\ \A e \in 0 .. 0 - 1 : w.cont[i + e] = w.cont[j + e]
  BY <1>1
<1>3. i + 0 = w.n \/ w.cont[i + 0] < w.cont[j + 0]
  BY <1>1 DEF Symbol
<1> QED BY <1>2, <1>3 DEF Less, SuffixLess, LexLess

\* Suffixes that share their first symbols compare as what is left of them.
LEMMA SharedPrefix ==
  ASSUME NEW w, TextOK(w), NEW i \in 0 .. w.n, NEW j \in 0 .. w.n, NEW d \in Nat,
         i + d <= w.n, j + d <= w.n,
         \A e \in 0 .. d - 1 : Symbol(w, i + e) = Symbol(w, j + e)
  PROVE  Less(w, i, j) <=> Less(w, i + d, j + d)
<1>1. w.n \in Nat /\ w.cont \in [0 .. w.n - 1 -> Nat]
  BY DEF TextOK
<1>2. \A e \in 0 .. d - 1 : w.cont[i + e] = w.cont[j + e] /\ i + e \in 0 .. w.n - 1
  BY <1>1 DEF Symbol
<1>3. ASSUME Less(w, i, j) PROVE Less(w, i + d, j + d)
  <2>1. PICK x \in 0 .. w.n - i :
          /\ j + x < w.n
          /\ \A e \in 0 .. x - 1 : w.cont[i + e] = w.cont[j + e]
          /\ i + x = w.n \/ w.cont[i + x] < w.cont[j + x]
    BY <1>3 DEF Less, SuffixLess, LexLess
  <2>2. ~ (x < d)
    <3> SUFFICES ASSUME x < d PROVE FALSE
      OBVIOUS
    <3>1. w.cont[i + x] = w.cont[j + x] /\ i + x \in 0 .. w.n - 1
      BY <1>1, <1>2
    <3>2. w.cont[i + x] \in Nat
      BY <1>1, <3>1
    <3> QED BY <2>1, <3>1, <3>2
  <2>3. /\ x - d \in 0 .. w.n - (i + d)
        /\ (j + d) + (x - d) = j + x /\ (i + d) + (x - d) = i + x
    BY <1>1, <2>1, <2>2
  <2>4. ASSUME NEW e \in 0 .. (x - d) - 1 PROVE w.cont[i + d + e] = w.cont[j + d + e]
    <3>1. w.cont[i + (d + e)] = w.cont[j + (d + e)]
      BY <2>1, d + e \in 0 .. x - 1
    <3> QED BY <3>1
  <2> QED BY <2>1, <2>3, <2>4 DEF Less, SuffixLess, LexLess
<1>4. ASSUME Less(w, i + d, j + d) PROVE Less(w, i, j)
  <2>1. PICK x \in 0 .. w.n - (i + d) :
          /\ j + d + x < w.n
          /\ \A e \in 0 .. x - 1 : w.cont[i + d + e] = w.cont[j + d + e]
          /\ i + d + x = w.n \/ w.cont[i + d + x] < w.cont[j + d + x]
    BY <1>4 DEF Less, SuffixLess, LexLess
  <2>2. /\ d + x \in 0 .. w.n - i
        /\ j + d + x = j + (d + x) /\ i + d + x = i + (d + x)
    BY <1>1, <2>1
  <2>3. ASSUME NEW e \in 0 .. (d + x) - 1 PROVE w.cont[i + e] = w.cont[j + e]
    <3>1. CASE e < d
      BY <1>2, <3>1
    <3>2. CASE e >= d
      <4>1. w.cont[i + d + (e - d)] = w.cont[j + d + (e - d)]
        BY <2>1, <3>2, e - d \in 0 .. x - 1
      <4> QED BY <4>1
    <3> QED BY <3>1, <3>2
  <2> QED BY <2>1, <2>2, <2>3 DEF Less, SuffixLess, LexLess
<1> QED BY <1>3, <1>4

\* ... and so do their right neighbours, if the first symbols are the same.
LEMMA SharedSymbol ==
  ASSUME NEW w, TextOK(w), NEW i \in 0 .. w.n - 1, NEW j \in 0 .. w.n - 1,
         Symbol(w, i) = Symbol(w, j)
  PROVE  Less(w, i, j) <=> Less(w, i + 1, j + 1)
<1>1. w.n \in Nat
  BY DEF TextOK
<1>2. \A e \in 0 .. 1 - 1 : Symbol(w, i + e) = Symbol(w, j + e)
  BY <1>1
<1>3. i \in 0 .. w.n /\ j \in 0 .. w.n /\ i + 1 <= w.n /\ j + 1 <= w.n
  BY <1>1
<1> HIDE DEF Less
<1> QED BY <1>2, <1>3, SharedPrefix

\* The right neighbour of an L suffix begins with a smaller symbol, or is L as well.
LEMMA NextOfL ==
  ASSUME NEW w, TextOK(w), NEW x \in 0 .. w.n - 1, ~ w.stypes[x]
  PROVE  Symbol(w, x + 1) < Symbol(w, x) \/ (Symbol(w, x + 1) = Symbol(w, x) /\ ~ w.stypes[x + 1])
<1>1. w.n \in Nat /\ x + 1 \in 0 .. w.n /\ x \in 0 .. w.n
  BY DEF TextOK
<1>2. ~ Less(w, x, x + 1)
  BY DEF TextOK, Less
<1>3. ~ (Symbol(w, x) < Symbol(w, x + 1))
  BY <1>1, <1>2, SmallerSymbol
<1>4. Symbol(w, x) \in Int /\ Symbol(w, x + 1) \in Int
  BY <1>1, CodeFacts
<1>5. CASE Symbol(w, x + 1) = Symbol(w, x)
  <2>1. x + 1 # w.n
    BY <1>1, <1>5, CodeFacts
  <2>2. x + 1 \in 0 .. w.n - 1 /\ x + 1 + 1 \in 0 .. w.n
    BY <1>1, <2>1
  <2>3. Less(w, x, x + 1) <=> Less(w, x + 1, x + 1 + 1)
    BY <1>5, <2>2, SharedSymbol
  <2>4. ~ w.stypes[x + 1]
    BY <1>2, <2>2, <2>3 DEF TextOK, Less
  <2> QED BY <1>5, <2>4
<1> QED BY <1>3, <1>4, <1>5

\* The right neighbour of an S suffix begins with a larger symbol, or is S as well.
LEMMA NextOfS ==
  ASSUME NEW w, TextOK(w), NEW y \in 0 .. w.n - 1, w.stypes[y]
  PROVE  /\ y + 1 \in 0 .. w.n - 1
         /\ Symbol(w, y) < Symbol(w, y + 1) \/ (Symbol(w, y) = Symbol(w, y + 1) /\ w.stypes[y + 1])
<1>1. w.n \in Nat /\ y + 1 \in 0 .. w.n /\ y \in 0 .. w.n /\ w.cont \in [0 .. w.n - 1 -> Int]
  BY DEF TextOK
<1>2. Less(w, y, y + 1)
  BY DEF TextOK, Less
<1>3. ~ (Symbol(w, y + 1) < Symbol(w, y))
  <2> SUFFICES ASSUME Symbol(w, y + 1) < Symbol(w, y) PROVE FALSE
    OBVIOUS
  <2>1. Less(w, y + 1, y)
    BY <1>1, SmallerSymbol
  <2> QED BY <1>1, <1>2, <2>1, SuffixAsymmetric DEF Less
<1>4. Symbol(w, y) \in Int /\ Symbol(w, y + 1) \in Int /\ Symbol(w, y) >= -1 /\ Symbol(w, y) # -1
  BY <1>1, CodeFacts
<1>5. y + 1 # w.n
  BY <1>1, <1>3, <1>4, CodeFacts
<1>6. y + 1 \in 0 .. w.n - 1
  BY <1>1, <1>5
<1>7. CASE Symbol(w, y) = Symbol(w, y + 1)
  <2>1. y + 1 \in 0 .. w.n - 1 /\ y + 1 + 1 \in 0 .. w.n
    BY <1>1, <1>6
  <2>2. Less(w, y, y + 1) <=> Less(w, y + 1, y + 1 + 1)
    BY <1>7, <2>1, SharedSymbol
  <2>3. w.stypes[y + 1]
    BY <1>2, <2>1, <2>2 DEF TextOK, Less
  <2> QED BY <1>6, <1>7, <2>3
<1> QED BY <1>3, <1>4, <1>6, <1>7

\* Of two suffixes with the same first symbol an L suffix is smaller than an S suffix.
LEMMA LBeforeS ==
  ASSUME NEW w, TextOK(w), NEW i \in 0 .. w.n, NEW j \in 0 .. w.n,
         Symbol(w, i) = Symbol(w, j), ~ w.stypes[i], w.stypes[j]
  PROVE  Less(w, i, j)
<1> DEFINE Wrong(x, y) == /\ Symbol(w, x) = Symbol(w, y) /\ ~ w.stypes[x] /\ w.stypes[y]
                          /\ ~ Less(w, x, y)
           T == {z \in Nat : \E x, y \in 0 .. w.n : z = w.n - x /\ Wrong(x, y)}
<1>1. w.n \in Nat /\ w.cont \in [0 .. w.n - 1 -> Int]
  BY DEF TextOK
<1> SUFFICES ASSUME Wrong(i, j) PROVE FALSE
  OBVIOUS
<1>2. w.n - i \in T
  BY <1>1
<1>3. PICK z \in T : \A y \in T : z <= y
  BY <1>2, LeastElement
<1>4. PICK x \in 0 .. w.n, y \in 0 .. w.n : z = w.n - x /\ Wrong(x, y)
  OBVIOUS
<1>5. \A u, v \in 0 .. w.n : x < u => ~ Wrong(u, v)
  <2> SUFFICES ASSUME NEW u \in 0 .. w.n, NEW v \in 0 .. w.n, x < u, Wrong(u, v) PROVE FALSE
    OBVIOUS
  <2>1. w.n - u \in T
    <3>1. w.n - u \in Nat
      BY <1>1
    <3> HIDE DEF Wrong
    <3>2. \E p, q \in 0 .. w.n : w.n - u = w.n - p /\ Wrong(p, q)
      OBVIOUS
    <3> QED BY <3>1, <3>2
  <2>2. z <= w.n - u
    BY <1>3, <2>1
  <2> QED BY <1>1, <1>4, <2>2
<1> HIDE DEF T
<1>6. x \in 0 .. w.n - 1 /\ y \in 0 .. w.n - 1
  <2>1. x # w.n
    BY <1>4 DEF TextOK
  <2>2. Symbol(w, x) # -1
    BY <2>1, CodeFacts
  <2>3. y # w.n
    BY <1>4, <2>2, CodeFacts
  <2> QED BY <1>1, <2>1, <2>3
<1>7. x + 1 \in 0 .. w.n /\ y + 1 \in 0 .. w.n
  BY <1>1, <1>6
<1>8. Less(w, x, y) <=> Less(w, x + 1, y + 1)
  BY <1>4, <1>6, SharedSymbol
<1>9. Symbol(w, x + 1) < Symbol(w, x) \/ (Symbol(w, x + 1) = Symbol(w, x) /\ ~ w.stypes[x + 1])
  BY <1>4, <1>6, NextOfL
<1>10. Symbol(w, y) < Symbol(w, y + 1) \/ (Symbol(w, y) = Symbol(w, y + 1) /\ w.stypes[y + 1])
  BY <1>4, <1>6, NextOfS
<1>11. Less(w, x + 1, y + 1)
  <2>1. /\ Symbol(w, x) \in Int /\ Symbol(w, y) \in Int
        /\ Symbol(w, x + 1) \in Int /\ Symbol(w, y + 1) \in Int
    BY <1>7, CodeFacts
  <2>2. CASE Symbol(w, x + 1) = Symbol(w, x) /\ Symbol(w, y + 1) = Symbol(w, y)
    <3>1. Symbol(w, x + 1) = Symbol(w, y + 1) /\ ~ w.stypes[x + 1] /\ w.stypes[y + 1]
      BY <1>4, <1>9, <1>10, <2>1, <2>2
    <3>2. x < x + 1 /\ ~ Wrong(x + 1, y + 1)
      BY <1>5, <1>6, <1>7
    <3> QED BY <3>1, <3>2
  <2>3. CASE ~ (Symbol(w, x + 1) = Symbol(w, x) /\ Symbol(w, y + 1) = Symbol(w, y))
    <3>1. Symbol(w, x + 1) < Symbol(w, y + 1)
      BY <1>4, <1>9, <1>10, <2>1, <2>3
    <3> QED BY <1>7, <3>1, SmallerSymbol
  <2> QED BY <2>2, <2>3
<1> QED BY <1>4, <1>8, <1>11

\* A smaller code makes a smaller suffix.
LEMMA SmallerCode ==
  ASSUME NEW w, TextOK(w), NEW i \in 0 .. w.n, NEW j \in 0 .. w.n, Code(w, i) < Code(w, j)
  PROVE  Less(w, i, j)
BY CodeFacts, SmallerSymbol, LBeforeS

\* Whatever the limit, the order of the keys is that of the suffixes ...
LEMMA KeyIsLess ==
  ASSUME NEW w, TextOK(w), NEW from \in Nat, NEW i \in 0 .. w.n, NEW j \in 0 .. w.n,
         KeyLess(w, from, i, j)
  PROVE  Less(w, i, j)
<1>1. PICK d \in 0 .. w.n :
        /\ i + d <= w.n /\ j + d <= w.n
        /\ \A e \in 0 .. d - 1 : Code(w, i + e) = Code(w, j + e)
        /\ Code(w, i + d) < Code(w, j + d)
  BY DEF KeyLess
<1>2. w.n \in Nat
  BY DEF TextOK
<1>3. i + d \in 0 .. w.n /\ j + d \in 0 .. w.n
  BY <1>1, <1>2
<1>4. ASSUME NEW e \in 0 .. d - 1 PROVE Symbol(w, i + e) = Symbol(w, j + e)
  <2>1. i + e \in 0 .. w.n /\ j + e \in 0 .. w.n
    BY <1>2, <1>3
  <2> QED BY <1>1, <2>1, CodeFacts
<1>5. Less(w, i + d, j + d)
  BY <1>1, <1>3, SmallerCode
<1>6. d \in Nat /\ i + d <= w.n /\ j + d <= w.n
  BY <1>1, <1>2
<1> QED BY <1>4, <1>5, <1>6, SharedPrefix

\* ... and without a limit they are the same.
LEMMA LessIsKey ==
  ASSUME NEW w, TextOK(w), NEW i \in 0 .. w.n, NEW j \in 0 .. w.n, Less(w, i, j)
  PROVE  KeyLess(w, w.n, i, j)
<1> DEFINE T == {d \in Nat : i + d >= w.n \/ j + d >= w.n \/ Code(w, i + d) # Code(w, j + d)}
<1>1. w.n \in Nat /\ w.n \in T /\ w.cont \in [0 .. w.n - 1 -> Int]
  BY DEF TextOK
<1>2. PICK d \in T : \A e \in T : d <= e
  BY <1>1, LeastElement
<1>3. d \in Nat /\ d <= w.n
  BY <1>1, <1>2
<1>4. \A e \in 0 .. d - 1 : i + e < w.n /\ j + e < w.n /\ Code(w, i + e) = Code(w, j + e)
  BY <1>1, <1>2
<1>5. i + d <= w.n /\ j + d <= w.n
  <2>1. CASE d = 0
    BY <2>1
  <2>2. CASE d # 0
    <3>1. d - 1 \in 0 .. d - 1
      BY <1>3, <2>2
    <3>2. i + (d - 1) < w.n /\ j + (d - 1) < w.n
      BY <1>4, <3>1
    <3> QED BY <1>1, <1>3, <3>2
  <2> QED BY <2>1, <2>2
<1>6. i + d \in 0 .. w.n /\ j + d \in 0 .. w.n
  BY <1>1, <1>3, <1>5
<1>7. \A e \in 0 .. d - 1 : Symbol(w, i + e) = Symbol(w, j + e)
  <2> SUFFICES ASSUME NEW e \in 0 .. d - 1 PROVE Symbol(w, i + e) = Symbol(w, j + e)
    OBVIOUS
  <2>1. i + e \in 0 .. w.n /\ j + e \in 0 .. w.n
    BY <1>1, <1>6
  <2> QED BY <1>4, <2>1, CodeFacts
<1>8. Less(w, i + d, j + d)
  BY <1>3, <1>5, <1>7, SharedPrefix
<1>9. i # j
  BY <1>1, SuffixIrreflexive DEF Less
<1>10. Code(w, i + d) # Code(w, j + d)
  <2> SUFFICES ASSUME Code(w, i + d) = Code(w, j + d) PROVE FALSE
    OBVIOUS
  <2>1. i + d = w.n \/ j + d = w.n
    BY <1>1, <1>5
  <2>2. Symbol(w, i + d) = Symbol(w, j + d)
    BY <1>6, CodeFacts
  <2>3. i + d = w.n /\ j + d = w.n
    BY <1>6, <2>1, <2>2, CodeFacts
  <2> QED BY <1>1, <1>3, <1>9, <2>3
<1>11. ~ (Code(w, j + d) < Code(w, i + d))
  <2> SUFFICES ASSUME Code(w, j + d) < Code(w, i + d) PROVE FALSE
    OBVIOUS
  <2>1. Less(w, j + d, i + d)
    BY <1>6, SmallerCode
  <2> QED BY <1>1, <1>6, <1>8, <2>1, SuffixAsymmetric DEF Less
<1>12. Code(w, i + d) < Code(w, j + d)
  BY <1>6, <1>10, <1>11, CodeFacts
<1>13. ASSUME NEW e \in 0 .. d - 1 PROVE ~ (e >= w.n)
  BY <1>1, <1>3
<1>14. d \in 0 .. w.n
  BY <1>1, <1>3
<1> HIDE DEF T
<1> QED BY <1>4, <1>5, <1>12, <1>13, <1>14 DEF KeyLess

\* Keys compare by their first codes, and then like the keys of the right neighbours.
LEMMA KeyFirst ==
  ASSUME NEW w, TextOK(w), NEW from \in Nat, NEW i \in 0 .. w.n, NEW j \in 0 .. w.n,
         KeyLess(w, from, i, j)
  PROVE  \/ Code(w, i) < Code(w, j)
         \/ /\ Code(w, i) = Code(w, j)
            /\ i < w.n /\ j < w.n
            /\ from = 0 => ~ LMS(w, i)
            /\ KeyLess(w, from, i + 1, j + 1)
<1>1. PICK d \in 0 .. w.n :
        /\ i + d <= w.n /\ j + d <= w.n
        /\ \A e \in 0 .. d - 1 : Code(w, i + e) = Code(w, j + e) /\ (e >= from => ~ LMS(w, i + e))
        /\ Code(w, i + d) < Code(w, j + d)
  BY DEF KeyLess
<1>2. w.n \in Nat
  BY DEF TextOK
<1>3. CASE d = 0
  BY <1>1, <1>3
<1>4. CASE d # 0
  <2>1. 0 \in 0 .. d - 1 /\ i + 0 = i /\ j + 0 = j
    BY <1>2, <1>4
  <2>2. Code(w, i) = Code(w, j) /\ (from = 0 => ~ LMS(w, i))
    BY <1>1, <2>1
  <2>3. i < w.n /\ j < w.n
    BY <1>1, <1>2, <1>4
  <2>4. /\ d - 1 \in 0 .. w.n
        /\ i + 1 + (d - 1) = i + d /\ j + 1 + (d - 1) = j + d
    BY <1>2, <1>4
  <2>5. ASSUME NEW e \in 0 .. (d - 1) - 1
        PROVE  Code(w, i + 1 + e) = Code(w, j + 1 + e) /\ (e >= from => ~ LMS(w, i + 1 + e))
    <3>1. 1 + e \in 0 .. d - 1 /\ i + (1 + e) = i + 1 + e /\ j + (1 + e) = j + 1 + e
      BY <1>2, <2>4
    <3>2. e >= from => 1 + e >= from
      BY <1>2, <2>4
    <3> QED BY <1>1, <3>1, <3>2
  <2>6. KeyLess(w, from, i + 1, j + 1)
    BY <1>1, <2>4, <2>5 DEF KeyLess
  <2> QED BY <2>2, <2>3, <2>6
<1> QED BY <1>3, <1>4

\* The witness of a smaller key.
LEMMA KeyAt ==
  ASSUME NEW w, NEW from, NEW i, NEW j, NEW d \in 0 .. w.n, i + d <= w.n, j + d <= w.n,
         \A e \in 0 .. d - 1 : Code(w, i + e) = Code(w, j + e) /\ (e >= from => ~ LMS(w, i + e)),
         Code(w, i + d) < Code(w, j + d)
  PROVE  KeyLess(w, from, i, j)
BY DEF KeyLess

\* Behind the first position the keys are a weak order of the suffixes: what is between
\* is not equal to both.
LEMMA KeyBetween ==
  ASSUME NEW w, TextOK(w), NEW from \in Nat \ {0},
         NEW a \in 0 .. w.n, NEW b \in 0 .. w.n, NEW c \in 0 .. w.n, KeyLess(w, from, a, c)
  PROVE  KeyLess(w, from, a, b) \/ KeyLess(w, from, b, c)
<1>1. PICK d \in 0 .. w.n :
        /\ a + d <= w.n /\ c + d <= w.n
        /\ \A e \in 0 .. d - 1 : Code(w, a + e) = Code(w, c + e) /\ (e >= from => ~ LMS(w, a + e))
        /\ Code(w, a + d) < Code(w, c + d)
  BY DEF KeyLess
<1> DEFINE T == {e \in Nat : e > d \/ b + e > w.n \/ Code(w, a + e) # Code(w, b + e)}
<1>2. w.n \in Nat /\ d + 1 \in T
  BY <1>1 DEF TextOK
<1>3. PICK x \in T : \A e \in T : x <= e
  BY <1>2, LeastElement
<1>4. x \in Nat /\ x <= d + 1
  BY <1>2, <1>3
<1>5. \A e \in 0 .. x - 1 : e <= d /\ b + e <= w.n /\ Code(w, a + e) = Code(w, b + e)
  BY <1>2, <1>3
<1>6. x > d \/ b + x > w.n \/ Code(w, a + x) # Code(w, b + x)
  BY <1>3
<1> HIDE DEF T
<1>7. \A e \in 0 .. d : a + e \in 0 .. w.n /\ c + e \in 0 .. w.n
  BY <1>1, <1>2
<1>8. \A e \in 0 .. x - 1 : b + e \in 0 .. w.n
  BY <1>2, <1>5
<1>9. ASSUME NEW e \in 0 .. d - 1, e < x, e >= from PROVE ~ LMS(w, b + e)
  <2>1. e - 1 \in 0 .. x - 1 /\ e - 1 \in 0 .. d /\ e \in 0 .. x - 1 /\ e \in 0 .. d
    BY <1>4, <1>9
  <2>2. w.stypes[a + e] <=> w.stypes[b + e]
    <3>1. a + e \in 0 .. w.n /\ b + e \in 0 .. w.n /\ Code(w, a + e) = Code(w, b + e)
      BY <1>5, <1>7, <1>8, <2>1
    <3> QED BY <3>1, CodeFacts
  <2>3. w.stypes[a + (e - 1)] <=> w.stypes[b + (e - 1)]
    <3>1. /\ a + (e - 1) \in 0 .. w.n /\ b + (e - 1) \in 0 .. w.n
          /\ Code(w, a + (e - 1)) = Code(w, b + (e - 1))
      BY <1>5, <1>7, <1>8, <2>1
    <3> QED BY <3>1, CodeFacts
  <2>4. a + (e - 1) = (a + e) - 1 /\ b + (e - 1) = (b + e) - 1
    BY <2>1
  <2>5. ~ LMS(w, a + e)
    BY <1>1, <1>9
  <2> QED BY <2>2, <2>3, <2>4, <2>5 DEF LMS
<1>10. ASSUME x > d PROVE KeyLess(w, from, b, c)
  <2>1. \A e \in 0 .. d : e \in 0 .. x - 1
    BY <1>4, <1>10
  <2>2. b + d <= w.n /\ Code(w, a + d) = Code(w, b + d)
    BY <1>5, <2>1
  <2>3. ASSUME NEW e \in 0 .. d - 1
        PROVE  Code(w, b + e) = Code(w, c + e) /\ (e >= from => ~ LMS(w, b + e))
    <3>1. e \in 0 .. d /\ e < x
      BY <1>4, <1>10
    <3> QED BY <1>1, <1>5, <1>9, <2>1, <3>1
  <2> QED BY <1>1, <2>2, <2>3 DEF KeyLess
<1>11. ASSUME x <= d PROVE b + x <= w.n
  <2>1. CASE x = 0
    BY <1>2, <2>1
  <2>2. CASE x # 0
    <3>1. x - 1 \in 0 .. x - 1 /\ x - 1 \in 0 .. d
      BY <1>4, <1>11, <2>2
    <3>2. Code(w, a + (x - 1)) = Code(w, b + (x - 1)) /\ b + (x - 1) \in 0 .. w.n
      BY <1>5, <1>8, <3>1
    <3>3. a + (x - 1) \in 0 .. w.n /\ a + (x - 1) # w.n
      BY <1>1, <1>2, <1>4, <1>7, <1>11, <3>1
    <3>4. b + (x - 1) # w.n
      BY <3>2, <3>3, CodeFacts
    <3> QED BY <1>2, <1>4, <3>2, <3>4
  <2> QED BY <2>1, <2>2
<1>12. ASSUME x <= d PROVE KeyLess(w, from, a, b) \/ KeyLess(w, from, b, c)
  <2>1. x \in 0 .. w.n /\ x \in 0 .. d /\ b + x \in 0 .. w.n /\ Code(w, a + x) # Code(w, b + x)
    BY <1>2, <1>4, <1>6, <1>11, <1>12
  <2>2. a + x \in 0 .. w.n /\ c + x \in 0 .. w.n
    BY <1>7, <2>1
  <2>3. Code(w, a + x) \in Int /\ Code(w, b + x) \in Int /\ Code(w, c + x) \in Int
    BY <2>1, <2>2, CodeFacts
  <2>4. CASE Code(w, a + x) < Code(w, b + x)
    <3>1. \A e \in 0 .. x - 1 : Code(w, a + e) = Code(w, b + e) /\ (e >= from => ~ LMS(w, a + e))
      BY <1>1, <1>4, <1>5, <1>12
    <3>2. a + x <= w.n /\ b + x <= w.n
      BY <1>2, <2>1, <2>2
    <3> QED BY <2>1, <2>4, <3>1, <3>2, KeyAt
  <2>5. CASE Code(w, b + x) < Code(w, a + x)
    <3>1. Code(w, a + x) <= Code(w, c + x)
      BY <1>1, <1>4, <1>12, <2>3
    <3>2. Code(w, b + x) < Code(w, c + x)
      BY <2>3, <2>5, <3>1
    <3>3. ASSUME NEW e \in 0 .. x - 1
          PROVE  Code(w, b + e) = Code(w, c + e) /\ (e >= from => ~ LMS(w, b + e))
      <4>1. e \in 0 .. d - 1 /\ e < x
        BY <1>4, <1>12
      <4> QED BY <1>1, <1>5, <1>9, <4>1
    <3>4. b + x <= w.n /\ c + x <= w.n
      BY <1>2, <2>1, <2>2
    <3> QED BY <2>1, <3>2, <3>3, <3>4, KeyAt
  <2> QED BY <2>1, <2>3, <2>4, <2>5
<1> QED BY <1>4, <1>10, <1>12
-----------------------------------------------------------------------------
\* NextLMS and SameSubstring of a level.
SubEnd(w, i) ==
  CHOOSE e \in i .. w.n :
    /\ e = w.n \/ (e > i /\ LMS(w, e))
    /\ \A d \in i + 1 .. e - 1 : ~ LMS(w, d)

SameSub(w, a, b) ==
  LET len == SubEnd(w, a) - a
  IN  /\ SubEnd(w, b) - b = len
      /\ \A d \in 0 .. len - 1 : w.cont[a + d] = w.cont[b + d]

\* The last symbol is L, so that the empty suffix is a leftmost S suffix.
LEMMA EmptyIsLMS ==
  ASSUME NEW w, TextOK(w)
  PROVE  ~ w.stypes[w.n - 1] /\ LMS(w, w.n)
<1>1. w.n - 1 \in 0 .. w.n - 1 /\ w.n - 1 + 1 = w.n /\ w.n \in Nat
  BY DEF TextOK
<1>2. ~ SuffixLess(w.cont, w.n, w.n - 1, w.n)
  BY <1>1, LastIsL
<1> QED BY <1>1, <1>2 DEF TextOK, LMS

\* An LMS substring ends at the next LMS position.
LEMMA EndIs ==
  ASSUME NEW w, TextOK(w), NEW i \in 0 .. w.n - 1
  PROVE  /\ SubEnd(w, i) \in i + 1 .. w.n /\ LMS(w, SubEnd(w, i))
         /\ \A d \in i + 1 .. SubEnd(w, i) - 1 : ~ LMS(w, d)
<1> DEFINE P(e) == /\ e = w.n \/ (e > i /\ LMS(w, e))
                   /\ \A d \in i + 1 .. e - 1 : ~ LMS(w, d)
           T == {e \in Nat : e > i /\ LMS(w, e)}
<1>1. w.n \in Nat /\ w.n \in T
  BY EmptyIsLMS DEF TextOK
<1>2. PICK x \in T : \A e \in T : x <= e
  BY <1>1, LeastElement
<1>3. x \in i .. w.n /\ P(x)
  BY <1>1, <1>2
<1> HIDE DEF T
<1>4. SubEnd(w, i) = CHOOSE e \in i .. w.n : P(e)
  BY DEF SubEnd
<1>5. SubEnd(w, i) \in i .. w.n /\ P(SubEnd(w, i))
  <2> HIDE DEF P
  <2> QED BY <1>3, <1>4
<1> QED BY <1>1, <1>5, EmptyIsLMS

\* There is only one such position.
LEMMA EndIsUnique ==
  ASSUME NEW w, TextOK(w), NEW i \in 0 .. w.n - 1, NEW e \in i + 1 .. w.n,
         LMS(w, e), \A d \in i + 1 .. e - 1 : ~ LMS(w, d)
  PROVE  SubEnd(w, i) = e
<1>1. w.n \in Nat
  BY DEF TextOK
<1>2. SubEnd(w, i) \in Int /\ ~ (e < SubEnd(w, i)) /\ ~ (SubEnd(w, i) < e)
  BY <1>1, EndIs
<1> QED BY <1>1, <1>2

\* Two LMS positions none of which has the smaller key begin the same substring.
LEMMA SameKey ==
  ASSUME NEW w, TextOK(w), NEW a \in 0 .. w.n - 1, NEW b \in 0 .. w.n - 1,
         ~ KeyLess(w, 1, a, b), ~ KeyLess(w, 1, b, a)
  PROVE  SameSub(w, a, b)
<1> DEFINE T == {d \in Nat : \/ Code(w, a + d) # Code(w, b + d)
                             \/ d > 0 /\ (LMS(w, a + d) \/ LMS(w, b + d))}
           l == SubEnd(w, a) - a
<1>1. w.n \in Nat /\ SubEnd(w, a) \in a + 1 .. w.n /\ LMS(w, SubEnd(w, a))
  BY EndIs DEF TextOK
<1>2. l \in Nat /\ l > 0 /\ a + l = SubEnd(w, a) /\ l \in T
  BY <1>1
<1>3. PICK d \in T : \A e \in T : d <= e
  BY <1>2, LeastElement
<1>4. d \in Nat /\ a + d <= w.n
  BY <1>1, <1>2, <1>3
<1>5. \A e \in 0 .. d - 1 : /\ Code(w, a + e) = Code(w, b + e)
                            /\ e > 0 => ~ LMS(w, a + e) /\ ~ LMS(w, b + e)
  BY <1>3
<1>6. Code(w, a + d) # Code(w, b + d) \/ (d > 0 /\ (LMS(w, a + d) \/ LMS(w, b + d)))
  BY <1>3
<1> HIDE DEF T
<1>7. b + d <= w.n
  <2> DEFINE k == SubEnd(w, b) - b
  <2>1. SubEnd(w, b) \in b + 1 .. w.n /\ LMS(w, SubEnd(w, b)) /\ b + k = SubEnd(w, b)
    BY <1>1, EndIs
  <2> QED BY <1>1, <1>4, <1>5, <2>1
<1>8. a + d \in 0 .. w.n /\ b + d \in 0 .. w.n /\ d \in 0 .. w.n
  BY <1>1, <1>4, <1>7
<1>9. Code(w, a + d) = Code(w, b + d)
  <2>1. Code(w, a + d) \in Int /\ Code(w, b + d) \in Int
    BY <1>8, CodeFacts
  <2>2. \A e \in 0 .. d - 1 : /\ e >= 1 => ~ LMS(w, a + e) /\ ~ LMS(w, b + e)
                              /\ Code(w, a + e) = Code(w, b + e)
                              /\ Code(w, b + e) = Code(w, a + e)
    BY <1>4, <1>5
  <2>3. ~ (Code(w, a + d) < Code(w, b + d))
    BY <1>4, <1>7, <1>8, <2>2, KeyAt
  <2>4. ~ (Code(w, b + d) < Code(w, a + d))
    BY <1>4, <1>7, <1>8, <2>2, KeyAt
  <2> QED BY <2>1, <2>3, <2>4
<1>10. d > 0 /\ LMS(w, a + d) /\ LMS(w, b + d)
  <2>1. d > 0 /\ (LMS(w, a + d) \/ LMS(w, b + d))
    BY <1>6, <1>9
  <2>2. /\ d - 1 \in 0 .. d - 1 /\ a + (d - 1) = (a + d) - 1 /\ b + (d - 1) = (b + d) - 1
        /\ a + (d - 1) \in 0 .. w.n /\ b + (d - 1) \in 0 .. w.n
    BY <1>1, <1>4, <1>8, <2>1
  <2>3. w.stypes[a + d] <=> w.stypes[b + d]
    BY <1>8, <1>9, CodeFacts
  <2>4. w.stypes[a + (d - 1)] <=> w.stypes[b + (d - 1)]
    BY <1>5, <2>2, CodeFacts
  <2> QED BY <2>1, <2>2, <2>3, <2>4 DEF LMS
<1>11. ASSUME NEW x, x = a \/ x = b PROVE SubEnd(w, x) = x + d
  <2>1. x \in 0 .. w.n - 1 /\ x + d \in x + 1 .. w.n /\ LMS(w, x + d)
    BY <1>1, <1>4, <1>7, <1>10, <1>11
  <2>2. ASSUME NEW e \in x + 1 .. (x + d) - 1 PROVE ~ LMS(w, e)
    <3>1. e - x \in 0 .. d - 1 /\ e - x > 0 /\ x + (e - x) = e
      BY <1>4, <2>1
    <3> QED BY <1>5, <1>11, <3>1
  <2> QED BY <2>1, <2>2, EndIsUnique
<1>12. SubEnd(w, a) - a = d /\ SubEnd(w, b) - b = d
  BY <1>1, <1>4, <1>11
<1>13. ASSUME NEW e \in 0 .. d - 1 PROVE w.cont[a + e] = w.cont[b + e]
  <2>1. a + e \in 0 .. w.n /\ b + e \in 0 .. w.n /\ a + e # w.n /\ b + e # w.n
    BY <1>1, <1>4, <1>7
  <2>2. Symbol(w, a + e) = Symbol(w, b + e)
    BY <1>5, <2>1, CodeFacts
  <2> QED BY <2>1, <2>2 DEF Symbol
<1> QED BY <1>12, <1>13 DEF SameSub

\* The same substrings: the order is that of the LMS suffixes behind them.
LEMMA SameSubOrder ==
  ASSUME NEW w, TextOK(w), NEW a \in 0 .. w.n - 1, NEW b \in 0 .. w.n - 1, SameSub(w, a, b)
  PROVE  Less(w, a, b) <=> Less(w, SubEnd(w, a), SubEnd(w, b))
<1> DEFINE d == SubEnd(w, a) - a
<1>1. /\ w.n \in Nat /\ SubEnd(w, a) \in a + 1 .. w.n /\ SubEnd(w, b) \in b + 1 .. w.n
  BY EndIs DEF TextOK
<1>2. SubEnd(w, b) - b = d /\ \A e \in 0 .. d - 1 : w.cont[a + e] = w.cont[b + e]
  BY DEF SameSub
<1>3. d \in Nat /\ a + d = SubEnd(w, a) /\ b + d = SubEnd(w, b) /\ a + d <= w.n /\ b + d <= w.n
  BY <1>1, <1>2
<1>4. \A e \in 0 .. d - 1 : Symbol(w, a + e) = Symbol(w, b + e)
  BY <1>1, <1>2, <1>3 DEF Symbol
<1>5. a \in 0 .. w.n /\ b \in 0 .. w.n
  BY <1>1
<1>6. Less(w, a, b) <=> Less(w, a + d, b + d)
  BY <1>3, <1>4, <1>5, SharedPrefix
<1> QED BY <1>3, <1>6

\* SameSubstring is symmetric and transitive.
LEMMA SameSubEquivalence ==
  ASSUME NEW w, NEW a \in Int, NEW b \in Int, NEW c \in Int,
         SubEnd(w, a) \in Int, SubEnd(w, b) \in Int, SubEnd(w, c) \in Int, SameSub(w, a, b)
  PROVE  SameSub(w, b, a) /\ (SameSub(w, b, c) => SameSub(w, a, c))
BY DEF SameSub

\* The LMS positions of a level in text order, the empty suffix behind them.
LMSIndices(w, idc, s) ==
  /\ s \in Nat \ {0} /\ idc \in [0 .. s - 1 -> 1 .. w.n]
  /\ idc[s - 1] = w.n
  /\ \A x \in 0 .. s - 2 : idc[x] \in 1 .. w.n - 1 /\ LMS(w, idc[x]) /\ SubEnd(w, idc[x]) = idc[x + 1]
  /\ \A i \in 1 .. w.n : LMS(w, i) => \E x \in 0 .. s - 1 : idc[x] = i

\* The vector v of size s names the LMS substrings: equal names for equal substrings only,
\* other names in the order of the suffixes, the least one for the empty suffix alone.
NamesOK(w, idc, s, v) ==
  /\ v \in [0 .. s - 1 -> Nat]
  /\ v[s - 1] = 0 /\ \A x \in 0 .. s - 2 : v[x] > 0
  /\ \A x, y \in 0 .. s - 1 : v[x] < v[y] => Less(w, idc[x], idc[y])
  /\ \A x, y \in 0 .. s - 2 : v[x] = v[y] => SameSub(w, idc[x], idc[y])

\* The suffixes of the summary v are ordered as the LMS suffixes they stand for.
Faithful(w, idc, s, v) ==
  \A x, y \in 0 .. s - 1 : SuffixLess(v, s, x, y) <=> Less(w, idc[x], idc[y])

\* The summary orders its suffixes as the level orders its LMS suffixes, whatever the level.
LEMMA NamesAreFaithful ==
  ASSUME NEW w, TextOK(w), NEW idc, NEW s, LMSIndices(w, idc, s), NEW v, NamesOK(w, idc, s, v)
  PROVE  Faithful(w, idc, s, v)
<1> DEFINE Wrong(x, y) == SuffixLess(v, s, x, y) /\ ~ Less(w, idc[x], idc[y])
           T == {z \in Nat : \E x, y \in 0 .. s - 1 : z = s - x /\ Wrong(x, y)}
<1>1. /\ w.n \in Nat /\ w.cont \in [0 .. w.n - 1 -> Int]
      /\ s \in Nat \ {0} /\ v \in [0 .. s - 1 -> Int] /\ v \in [0 .. s - 1 -> Nat]
      /\ \A x \in 0 .. s - 1 : idc[x] \in 0 .. w.n
  BY DEF TextOK, LMSIndices, NamesOK
<1> HIDE DEF Wrong
<1>2. ASSUME NEW i \in 0 .. s - 1, NEW j \in 0 .. s - 1, Wrong(i, j) PROVE FALSE
  <2>1. s - i \in T
    <3>1. s - i \in Nat
      BY <1>1
    <3>2. \E x, y \in 0 .. s - 1 : s - i = s - x /\ Wrong(x, y)
      BY <1>2
    <3> QED BY <3>1, <3>2
  <2>2. PICK z \in T : \A y \in T : z <= y
    <3>1. T \in SUBSET Nat
      OBVIOUS
    <3> HIDE DEF T
    <3> QED BY <2>1, <3>1, LeastElement
  <2>3. PICK x \in 0 .. s - 1, y \in 0 .. s - 1 : z = s - x /\ Wrong(x, y)
    OBVIOUS
  <2>4. ASSUME NEW p \in 0 .. s - 1, NEW q \in 0 .. s - 1, x < p, Wrong(p, q) PROVE FALSE
    <3>1. s - p \in T
      BY <1>1, <2>4
    <3>2. z <= s - p
      BY <2>2, <3>1
    <3> QED BY <1>1, <2>3, <2>4, <3>2
  <2> HIDE DEF T
  <2>5. PICK d \in 0 .. s - x :
          /\ y + d < s
          /\ \A e \in 0 .. d - 1 : v[x + e] = v[y + e]
          /\ x + d = s \/ v[x + d] < v[y + d]
    BY <2>3 DEF Wrong, SuffixLess, LexLess
  <2>6. CASE d = 0
    <3>1. v[x] < v[y]
      BY <1>1, <2>3, <2>5, <2>6
    <3> QED BY <2>3, <3>1 DEF Wrong, NamesOK
  <2>7. CASE d # 0
    <3>1. v[x] = v[y]
      <4>1. 0 \in 0 .. d - 1 /\ x + 0 = x /\ y + 0 = y
        BY <1>1, <2>7
      <4> QED BY <2>5, <4>1
    <3>2. y # s - 1 /\ x # s - 1
      <4>1. y # s - 1
        BY <1>1, <2>5, <2>7
      <4>2. y \in 0 .. s - 2
        BY <1>1, <4>1
      <4>3. v[y] > 0 /\ v[s - 1] = 0
        BY <4>2 DEF NamesOK
      <4> QED BY <3>1, <4>1, <4>3
    <3>3. x \in 0 .. s - 2 /\ y \in 0 .. s - 2 /\ x + 1 \in 0 .. s - 1 /\ y + 1 \in 0 .. s - 1
      BY <1>1, <3>2
    <3>4. SuffixLess(v, s, x + 1, y + 1)
      <4>1. /\ d - 1 \in 0 .. s - (x + 1)
            /\ x + 1 + (d - 1) = x + d /\ y + 1 + (d - 1) = y + d
        BY <1>1, <2>7
      <4>2. ASSUME NEW e \in 0 .. (d - 1) - 1 PROVE v[x + 1 + e] = v[y + 1 + e]
        <5>1. 1 + e \in 0 .. d - 1 /\ x + (1 + e) = x + 1 + e /\ y + (1 + e) = y + 1 + e
          BY <1>1
        <5> QED BY <2>5, <5>1
      <4> QED BY <2>5, <4>1, <4>2 DEF SuffixLess, LexLess
    <3>5. Less(w, idc[x + 1], idc[y + 1])
      <4>1. x < x + 1
        BY <1>1
      <4>2. ~ Wrong(x + 1, y + 1)
        BY <2>4, <3>3, <4>1
      <4> QED BY <3>4, <4>2 DEF Wrong
    <3>6. /\ SameSub(w, idc[x], idc[y]) /\ idc[x] \in 0 .. w.n - 1 /\ idc[y] \in 0 .. w.n - 1
          /\ SubEnd(w, idc[x]) = idc[x + 1] /\ SubEnd(w, idc[y]) = idc[y + 1]
      BY SMTT(30), <1>1, <3>1, <3>3 DEF NamesOK, LMSIndices
    <3>7. Less(w, idc[x], idc[y])
      BY <3>5, <3>6, SameSubOrder
    <3> QED BY <2>3, <3>7 DEF Wrong
  <2> QED BY <2>6, <2>7
<1>3. ASSUME NEW x \in 0 .. s - 1, NEW y \in 0 .. s - 1, Less(w, idc[x], idc[y])
      PROVE  SuffixLess(v, s, x, y)
  <2> SUFFICES ASSUME ~ SuffixLess(v, s, x, y) PROVE FALSE
    OBVIOUS
  <2>1. idc[x] \in 0 .. w.n /\ idc[y] \in 0 .. w.n /\ x \in 0 .. s /\ y \in 0 .. s /\ s \in Nat
    BY <1>1
  <2>2. x # y
    BY <1>1, <1>3, <2>1, SuffixIrreflexive DEF Less
  <2>3. SuffixLess(v, s, y, x)
    BY <1>1, <2>1, <2>2, SuffixTotal
  <2>4. Less(w, idc[y], idc[x])
    BY <1>2, <2>3 DEF Wrong
  <2> QED BY <1>1, <1>3, <2>1, <2>4, SuffixAsymmetric DEF Less
<1> QED BY <1>2, <1>3 DEF Wrong, Faithful

-----------------------------------------------------------------------------
\* The buckets. The suffixes before, up to and in a bucket; the L and the S ones in it.
BucketOf(w, i) == w.cont[i] - w.sub

SmallerSymbols(w, b) == {i \in 0 .. w.n - 1 : BucketOf(w, i) < b}
UpTo(w, b) == {i \in 0 .. w.n - 1 : BucketOf(w, i) <= b}
Members(w, b) == {i \in 0 .. w.n - 1 : BucketOf(w, i) = b}
Ls(w, b) == {i \in Members(w, b) : ~ w.stypes[i]}
Ss(w, b) == {i \in Members(w, b) : w.stypes[i]}

\* What make_counts returns, for an alphabet that has all symbols.
CountsOK(w) ==
  /\ w.sub \in Int
  /\ \E m \in Nat : w.counts \in [0 .. m - 1 -> Nat]
  /\ \A i \in 0 .. w.n - 1 : BucketOf(w, i) \in DOMAIN w.counts
  /\ \A b \in DOMAIN w.counts : w.counts[b] = Cardinality(Members(w, b))

\* What make_buckets has made of the first k buckets.
BucketsTo(w, k) ==
  \A b \in 0 .. k - 1 :
    w.heads[b] = Cardinality(SmallerSymbols(w, b)) + 1 /\ w.tails[b] = Cardinality(UpTo(w, b))

BucketsOK(w) ==
  /\ w.heads \in [DOMAIN w.counts -> Int] /\ w.tails \in [DOMAIN w.counts -> Int]
  /\ \A b \in DOMAIN w.counts :
       w.heads[b] = Cardinality(SmallerSymbols(w, b)) + 1 /\ w.tails[b] = Cardinality(UpTo(w, b))

\* The last cell for an L suffix in a bucket.
Border(w, b) == w.heads[b] + Cardinality(Ls(w, b)) - 1

TextAndCounts(w) == TextOK(w) /\ CountsOK(w)
SlotsOK(w) == TextAndCounts(w) /\ BucketsOK(w)

\* The sizes of buckets and of their parts add up.
LEMMA BucketSets ==
  ASSUME NEW w, TextAndCounts(w), NEW b \in Int
  PROVE  /\ IsFiniteSet(SmallerSymbols(w, b)) /\ Cardinality(SmallerSymbols(w, b)) \in Nat
         /\ IsFiniteSet(UpTo(w, b)) /\ Cardinality(UpTo(w, b)) \in Nat
         /\ IsFiniteSet(Members(w, b)) /\ Cardinality(Members(w, b)) \in Nat
         /\ IsFiniteSet(Ls(w, b)) /\ Cardinality(Ls(w, b)) \in Nat
         /\ IsFiniteSet(Ss(w, b)) /\ Cardinality(Ss(w, b)) \in Nat
         /\ Cardinality(UpTo(w, b)) <= w.n
         /\ Cardinality(UpTo(w, b)) = Cardinality(SmallerSymbols(w, b)) + Cardinality(Members(w, b))
         /\ Cardinality(Members(w, b)) = Cardinality(Ls(w, b)) + Cardinality(Ss(w, b))
<1> DEFINE I == 0 .. w.n - 1
<1>1. w.n \in Nat \ {0} /\ \A i \in I : BucketOf(w, i) \in Int
  BY DEF TextAndCounts, TextOK, CountsOK
<1>2. IsFiniteSet(I) /\ Cardinality(I) = w.n
  <2>1. 0 \in Int /\ w.n - 1 \in Int /\ ~ (0 > w.n - 1) /\ (w.n - 1) - 0 + 1 = w.n
    BY <1>1
  <2> QED BY <2>1, FS_Interval
<1>3. ASSUME NEW T \in SUBSET I
      PROVE  IsFiniteSet(T) /\ Cardinality(T) \in Nat /\ Cardinality(T) <= w.n
  <2>1. IsFiniteSet(T) /\ Cardinality(T) <= Cardinality(I)
    BY <1>2, FS_Subset
  <2> QED BY <1>2, <2>1, FS_CardinalityType
<1>4. /\ SmallerSymbols(w, b) \in SUBSET I /\ UpTo(w, b) \in SUBSET I /\ Members(w, b) \in SUBSET I
      /\ Ls(w, b) \in SUBSET I /\ Ss(w, b) \in SUBSET I
  BY DEF SmallerSymbols, UpTo, Members, Ls, Ss
<1>5. ASSUME NEW S \in SUBSET I, NEW T \in SUBSET I, S \cap T = {}
      PROVE  Cardinality(S \cup T) = Cardinality(S) + Cardinality(T)
  <2>1. Cardinality(S \cup T) = Cardinality(S) + Cardinality(T) - Cardinality(S \cap T)
    BY <1>3, FS_Union
  <2>2. Cardinality(S \cap T) = 0 /\ Cardinality(S) \in Nat /\ Cardinality(T) \in Nat
    BY <1>3, <1>5, FS_EmptySet
  <2> QED BY <2>1, <2>2
<1>6. UpTo(w, b) = SmallerSymbols(w, b) \cup Members(w, b) /\ SmallerSymbols(w, b) \cap Members(w, b) = {}
  BY <1>1 DEF UpTo, SmallerSymbols, Members
<1>7. Members(w, b) = Ls(w, b) \cup Ss(w, b) /\ Ls(w, b) \cap Ss(w, b) = {}
  BY DEF Ls, Ss
<1>8. Cardinality(UpTo(w, b)) = Cardinality(SmallerSymbols(w, b)) + Cardinality(Members(w, b))
  BY <1>4, <1>5, <1>6
<1>9. Cardinality(Members(w, b)) = Cardinality(Ls(w, b)) + Cardinality(Ss(w, b))
  BY <1>4, <1>5, <1>7
<1> HIDE DEF I
<1> QED BY <1>3, <1>4, <1>8, <1>9

\* Buckets are apart, in the order of their symbols, and in each of them is room for
\* its L suffixes and behind them for its S suffixes.
LEMMA BucketFacts ==
  ASSUME NEW w, SlotsOK(w)
  PROVE  /\ w.n \in Nat \ {0}
         /\ \A i \in 0 .. w.n - 1 : BucketOf(w, i) \in DOMAIN w.counts
         /\ \A b \in DOMAIN w.counts :
              /\ b \in Nat
              /\ w.heads[b] \in Nat /\ w.tails[b] \in Nat /\ Border(w, b) \in Nat
              /\ 1 <= w.heads[b] /\ w.tails[b] <= w.n
              /\ w.heads[b] - 1 <= Border(w, b) /\ Border(w, b) <= w.tails[b]
              /\ Border(w, b) = w.heads[b] - 1 + Cardinality(Ls(w, b))
              /\ Border(w, b) = w.tails[b] - Cardinality(Ss(w, b))
         /\ \A b, c \in DOMAIN w.counts : b < c => w.tails[b] < w.heads[c]
<1>1. TextAndCounts(w) /\ w.n \in Nat \ {0} /\ \A i \in 0 .. w.n - 1 : BucketOf(w, i) \in DOMAIN w.counts
  BY DEF SlotsOK, TextAndCounts, TextOK, CountsOK
<1>2. \A b \in DOMAIN w.counts : b \in Nat
  BY <1>1 DEF TextAndCounts, CountsOK
<1>3. \A b \in DOMAIN w.counts :
        w.heads[b] = Cardinality(SmallerSymbols(w, b)) + 1 /\ w.tails[b] = Cardinality(UpTo(w, b))
  BY DEF SlotsOK, BucketsOK
<1>4. ASSUME NEW b \in DOMAIN w.counts
      PROVE  /\ w.heads[b] \in Nat /\ w.tails[b] \in Nat /\ Border(w, b) \in Nat
             /\ 1 <= w.heads[b] /\ w.tails[b] <= w.n
             /\ w.heads[b] - 1 <= Border(w, b) /\ Border(w, b) <= w.tails[b]
             /\ Border(w, b) = w.heads[b] - 1 + Cardinality(Ls(w, b))
             /\ Border(w, b) = w.tails[b] - Cardinality(Ss(w, b))
  <2> DEFINE x == Cardinality(SmallerSymbols(w, b))
             y == Cardinality(UpTo(w, b))
             z == Cardinality(Members(w, b))
             l == Cardinality(Ls(w, b))
             s == Cardinality(Ss(w, b))
  <2>1. /\ x \in Nat /\ y \in Nat /\ z \in Nat /\ l \in Nat /\ s \in Nat
        /\ y <= w.n /\ y = x + z /\ z = l + s
    BY <1>1, <1>2, BucketSets
  <2>2. w.heads[b] = x + 1 /\ w.tails[b] = y /\ Border(w, b) = w.heads[b] + l - 1
    BY <1>3 DEF Border
  <2> HIDE DEF x, y, z, l, s
  <2>3. /\ w.heads[b] \in Nat /\ w.tails[b] \in Nat /\ Border(w, b) \in Nat
        /\ 1 <= w.heads[b] /\ w.tails[b] <= w.n
        /\ w.heads[b] - 1 <= Border(w, b) /\ Border(w, b) <= w.tails[b]
        /\ Border(w, b) = w.heads[b] - 1 + l /\ Border(w, b) = w.tails[b] - s
    BY <2>1, <2>2
  <2> QED BY <2>3 DEF l, s
<1>5. ASSUME NEW b \in DOMAIN w.counts, NEW c \in DOMAIN w.counts, b < c
      PROVE  w.tails[b] < w.heads[c]
  <2>1. UpTo(w, b) \subseteq SmallerSymbols(w, c)
    BY <1>1, <1>2, <1>5 DEF UpTo, SmallerSymbols
  <2>2. Cardinality(UpTo(w, b)) <= Cardinality(SmallerSymbols(w, c))
    <3>1. c \in Int /\ IsFiniteSet(SmallerSymbols(w, c))
      BY <1>1, <1>2, BucketSets
    <3> QED BY <2>1, <3>1, FS_Subset
  <2>3. Cardinality(UpTo(w, b)) \in Nat /\ Cardinality(SmallerSymbols(w, c)) \in Nat
    BY <1>1, <1>2, BucketSets
  <2> QED BY <1>3, <2>2, <2>3
<1> QED BY <1>1, <1>2, <1>4, <1>5

\* Different members of a set without x leave room for x.
LEMMA RoomForOne ==
  ASSUME NEW lo \in Int, NEW hi \in Int, NEW X, IsFiniteSet(X), NEW x \in X, NEW a,
         \A p \in lo .. hi : a[p] \in X \ {x},
         \A p, q \in lo .. hi : a[p] = a[q] => p = q
  PROVE  hi - lo + 1 < Cardinality(X)
<1>1. IsFiniteSet(X \ {x}) /\ Cardinality(X \ {x}) = Cardinality(X) - 1
  BY FS_RemoveElement
<1>2. Cardinality(X) \in Nat /\ Cardinality(X \ {x}) \in Nat
  BY <1>1, FS_CardinalityType
<1> DEFINE f == [p \in lo .. hi |-> a[p]]
<1>3. f \in Injection(lo .. hi, X \ {x})
  <2>1. f \in [lo .. hi -> X \ {x}] /\ \A p, q \in lo .. hi : f[p] = f[q] => p = q
    OBVIOUS
  <2> HIDE DEF f
  <2> QED BY <2>1, Fun_IsInj
<1> HIDE DEF f
<1>4. Cardinality(lo .. hi) <= Cardinality(X \ {x})
  BY <1>1, <1>3, FS_Injection
<1>5. Cardinality(lo .. hi) = IF lo > hi THEN 0 ELSE hi - lo + 1
  BY FS_Interval
<1> QED BY <1>1, <1>2, <1>4, <1>5

-----------------------------------------------------------------------------
\* The cell p is for a suffix of the bucket and the type of j.
InZone(w, p, j) ==
  /\ w.heads[BucketOf(w, j)] <= p /\ p <= w.tails[BucketOf(w, j)]
  /\ IF w.stypes[j] THEN Border(w, BucketOf(w, j)) < p ELSE p <= Border(w, BucketOf(w, j))

\* Cells C of the suffix array a, in the order of the keys.
KeysSorted(w, from, a, C) == \A p, q \in C : p < q => ~ KeyLess(w, from, a[q], a[p])

\* Two suffixes of one zone have the same bucket, type and code.
LEMMA OneZone ==
  ASSUME NEW w, SlotsOK(w), NEW p \in Int, NEW x \in 0 .. w.n - 1, NEW y \in 0 .. w.n - 1,
         InZone(w, p, x), InZone(w, p, y)
  PROVE  BucketOf(w, x) = BucketOf(w, y) /\ (w.stypes[x] <=> w.stypes[y])
<1>1. BucketOf(w, x) \in DOMAIN w.counts /\ BucketOf(w, y) \in DOMAIN w.counts
  BY BucketFacts
<1>2. BucketOf(w, x) \in Nat /\ BucketOf(w, y) \in Nat
  BY <1>1, BucketFacts
<1>3. ASSUME NEW b \in DOMAIN w.counts, NEW c \in DOMAIN w.counts, b < c,
             w.heads[b] <= p, p <= w.tails[b], w.heads[c] <= p
      PROVE  FALSE
  <2>1. w.tails[b] < w.heads[c] /\ w.tails[b] \in Int /\ w.heads[c] \in Int
    BY <1>3, BucketFacts
  <2> QED BY <1>3, <2>1
<1>4. BucketOf(w, x) = BucketOf(w, y)
  BY <1>1, <1>2, <1>3 DEF InZone
<1>5. Border(w, BucketOf(w, x)) \in Nat
  BY <1>1, BucketFacts
<1> QED BY <1>4, <1>5 DEF InZone

\* Of two suffixes in cells of their zones the left one has no larger key, unless the
\* zones are the same.
LEMMA ZoneOrder ==
  ASSUME NEW w, SlotsOK(w), NEW from \in Nat, NEW p \in Int, NEW q \in Int, p < q,
         NEW x \in 0 .. w.n - 1, NEW y \in 0 .. w.n - 1, InZone(w, p, x), InZone(w, q, y),
         KeyLess(w, from, y, x)
  PROVE  /\ BucketOf(w, x) = BucketOf(w, y) /\ (w.stypes[x] <=> w.stypes[y])
         /\ x + 1 \in 0 .. w.n /\ y + 1 \in 0 .. w.n /\ KeyLess(w, from, y + 1, x + 1)
<1>1. TextOK(w) /\ w.n \in Nat /\ w.sub \in Int
  BY DEF SlotsOK, TextAndCounts, TextOK, CountsOK
<1>2. /\ BucketOf(w, x) \in DOMAIN w.counts /\ BucketOf(w, y) \in DOMAIN w.counts
      /\ BucketOf(w, x) \in Nat /\ BucketOf(w, y) \in Nat
  BY BucketFacts
<1>3. /\ x \in 0 .. w.n /\ y \in 0 .. w.n
      /\ Symbol(w, x) = BucketOf(w, x) + w.sub /\ Symbol(w, y) = BucketOf(w, y) + w.sub
  <2>1. w.cont[x] \in Nat /\ w.cont[y] \in Nat
    BY <1>1 DEF TextOK
  <2> QED BY <1>1, <2>1 DEF Symbol, BucketOf
<1>4. ~ (BucketOf(w, y) < BucketOf(w, x))
  <2> SUFFICES ASSUME BucketOf(w, y) < BucketOf(w, x) PROVE FALSE
    OBVIOUS
  <2>1. w.tails[BucketOf(w, y)] < w.heads[BucketOf(w, x)]
    BY <1>2, BucketFacts
  <2>2. w.tails[BucketOf(w, y)] \in Int /\ w.heads[BucketOf(w, x)] \in Int
    BY <1>2, BucketFacts
  <2>3. q <= w.tails[BucketOf(w, y)] /\ w.heads[BucketOf(w, x)] <= p
    BY DEF InZone
  <2> QED BY <2>1, <2>2, <2>3
<1>5. \/ Code(w, y) < Code(w, x)
      \/ Code(w, y) = Code(w, x) /\ y < w.n /\ x < w.n /\ KeyLess(w, from, y + 1, x + 1)
  BY <1>1, <1>3, KeyFirst
<1>6. BucketOf(w, x) = BucketOf(w, y)
  <2>1. Symbol(w, y) <= Symbol(w, x) /\ Symbol(w, x) \in Int /\ Symbol(w, y) \in Int
    BY <1>1, <1>3, <1>5, CodeFacts
  <2> QED BY <1>1, <1>2, <1>3, <1>4, <2>1
<1>7. ~ (~ w.stypes[y] /\ w.stypes[x])
  <2> SUFFICES ASSUME ~ w.stypes[y], w.stypes[x] PROVE FALSE
    OBVIOUS
  <2>1. Border(w, BucketOf(w, x)) \in Nat
    BY <1>2, BucketFacts
  <2>2. q <= Border(w, BucketOf(w, x)) /\ Border(w, BucketOf(w, x)) < p
    BY <1>6 DEF InZone
  <2> QED BY <2>1, <2>2
<1>8. ~ (Code(w, y) < Code(w, x))
  BY <1>1, <1>3, <1>6, <1>7, CodeFacts
<1>9. w.stypes[x] <=> w.stypes[y]
  BY <1>1, <1>3, <1>5, <1>8, CodeFacts
<1> QED BY <1>1, <1>5, <1>6, <1>8, <1>9

\* No key is smaller than that of the empty suffix.
LEMMA EmptyKey ==
  ASSUME NEW w, TextOK(w), NEW from \in Nat, NEW x \in 0 .. w.n
  PROVE  ~ KeyLess(w, from, x, w.n)
<1>1. w.n \in Nat /\ w.n \in 0 .. w.n
  BY DEF TextOK
<1>2. Symbol(w, w.n) = -1 /\ Symbol(w, x) >= -1 /\ Symbol(w, x) \in Int
  BY <1>1, CodeFacts
<1>3. Symbol(w, x) = Symbol(w, w.n) => x = w.n
  BY <1>1, <1>2, CodeFacts
<1>4. ~ (Code(w, x) < Code(w, w.n))
  BY <1>1, <1>2, <1>3, CodeFacts DEF TextOK
<1> QED BY <1>1, <1>4, KeyFirst

\* One more cell, in order with those there are.
LEMMA SortedPut ==
  ASSUME NEW w, TextOK(w), NEW from \in Nat, NEW a \in [0 .. w.n -> Int], NEW C \in SUBSET (0 .. w.n),
         KeysSorted(w, from, a, C), NEW P \in 0 .. w.n, P \notin C, NEW j \in 0 .. w.n,
         \A p \in C : p < P => ~ KeyLess(w, from, j, a[p]),
         \A p \in C : P < p => ~ KeyLess(w, from, a[p], j)
  PROVE  KeysSorted(w, from, [a EXCEPT ![P] = j], C \cup {P})
<1> DEFINE a2 == [a EXCEPT ![P] = j]
<1>1. a2[P] = j /\ \A p \in C : a2[p] = a[p]
  OBVIOUS
<1>2. w.n \in Nat
  BY DEF TextOK
<1> HIDE DEF a2
<1>3. ASSUME NEW p \in C \cup {P}, NEW q \in C \cup {P}, p < q
      PROVE  ~ KeyLess(w, from, a2[q], a2[p])
  <2>1. CASE p = P /\ q # P
    BY <1>1, <1>3, <2>1
  <2>2. CASE p # P /\ q = P
    BY <1>1, <1>3, <2>2
  <2>3. CASE p # P /\ q # P
    BY <1>1, <1>3, <2>3 DEF KeysSorted
  <2>4. CASE p = P /\ q = P
    BY <1>2, <1>3, <2>4
  <2> QED BY <2>1, <2>2, <2>3, <2>4
<1> QED BY <1>3 DEF KeysSorted, a2

-----------------------------------------------------------------------------
LMSs(w) == {i \in 1 .. w.n - 1 : LMS(w, i)}

VectorsOK(w, sl, a) ==
  /\ a \in [0 .. w.n -> Int]
  /\ sl \in [DOMAIN w.counts -> Int]

Used(w, a) == {p \in 0 .. w.n : a[p] \in 0 .. w.n}

\* Seeding has put the suffixes Q in the cells behind the slots.
SeedOK(w, from, sl, a, Q) ==
  /\ VectorsOK(w, sl, a)
  /\ Q \subseteq LMSs(w)
  /\ a[0] \notin 0 .. w.n
  /\ \A p \in 1 .. w.n :
       a[p] \in 0 .. w.n => a[p] \in Q /\ InZone(w, p, a[p]) /\ sl[BucketOf(w, a[p])] < p
  /\ \A b \in DOMAIN w.counts :
       /\ Border(w, b) <= sl[b] /\ sl[b] <= w.tails[b]
       /\ \A p \in sl[b] + 1 .. w.tails[b] : a[p] \in Q /\ BucketOf(w, a[p]) = b
  /\ \A p, q \in 1 .. w.n : a[p] = a[q] /\ a[p] \in 0 .. w.n => p = q
  /\ \A j \in Q : \E p \in 1 .. w.n : a[p] = j
  /\ KeysSorted(w, from, a, Used(w, a))

\* An S suffix that is not yet there finds a free cell at the tail of its bucket.
LEMMA RoomAtTail ==
  ASSUME NEW w, SlotsOK(w), NEW sl, NEW a, VectorsOK(w, sl, a),
         NEW j \in 0 .. w.n - 1, w.stypes[j], NEW b, b = BucketOf(w, j),
         Border(w, b) <= sl[b], sl[b] <= w.tails[b],
         \A p \in sl[b] + 1 .. w.tails[b] :
           a[p] \in 0 .. w.n - 1 /\ w.stypes[a[p]] /\ BucketOf(w, a[p]) = b /\ a[p] # j,
         \A p, q \in sl[b] + 1 .. w.tails[b] : a[p] = a[q] => p = q
  PROVE  /\ sl[b] \in 1 .. w.n /\ Border(w, b) < sl[b] /\ InZone(w, sl[b], j)
<1>1. b \in DOMAIN w.counts
  BY BucketFacts
<1>2. /\ w.n \in Nat /\ w.heads[b] \in Nat /\ w.tails[b] \in Nat /\ Border(w, b) \in Nat
      /\ w.tails[b] <= w.n /\ w.heads[b] - 1 <= Border(w, b)
      /\ Border(w, b) = w.tails[b] - Cardinality(Ss(w, b))
      /\ b \in Int /\ sl[b] \in Int
  BY <1>1, BucketFacts DEF VectorsOK
<1>3. IsFiniteSet(Ss(w, b)) /\ Cardinality(Ss(w, b)) \in Nat
  BY <1>2, BucketSets DEF SlotsOK
<1>4. j \in Ss(w, b) /\ \A p \in sl[b] + 1 .. w.tails[b] : a[p] \in Ss(w, b) \ {j}
  BY DEF Ss, Members
<1>5. w.tails[b] - (sl[b] + 1) + 1 < Cardinality(Ss(w, b))
  <2> DEFINE lo == sl[b] + 1
             hi == w.tails[b]
  <2>1. /\ lo \in Int /\ hi \in Int
        /\ \A p \in lo .. hi : a[p] \in Ss(w, b) \ {j}
        /\ \A p, q \in lo .. hi : a[p] = a[q] => p = q
    BY <1>2, <1>4
  <2>2. IsFiniteSet(Ss(w, b)) /\ j \in Ss(w, b)
    BY <1>3, <1>4
  <2> HIDE DEF lo, hi
  <2>3. hi - lo + 1 < Cardinality(Ss(w, b))
    BY ONLY <2>1, <2>2, RoomForOne
  <2> QED BY <2>3 DEF lo, hi
<1>6. Border(w, b) < sl[b]
  BY <1>2, <1>3, <1>5
<1> QED BY <1>2, <1>6 DEF InZone

\* guessSortLMS and LMSSort put one more suffix into a free cell, in its place.
LEMMA SeedStep ==
  ASSUME NEW w, SlotsOK(w), NEW from \in Nat, NEW sl, NEW a, NEW Q, SeedOK(w, from, sl, a, Q),
         NEW j \in LMSs(w), j \notin Q,
         \A i \in Q : BucketOf(w, i) = BucketOf(w, j) => ~ KeyLess(w, from, i, j),
         NEW b, b = BucketOf(w, j), NEW P, P = sl[b],
         NEW s2, s2 = [sl EXCEPT ![b] = @ - 1], NEW a2, a2 = [a EXCEPT ![P] = j]
  PROVE  P \in 1 .. w.n /\ a[P] \notin 0 .. w.n /\ SeedOK(w, from, s2, a2, Q \cup {j})
<1>1. /\ w.n \in Nat \ {0} /\ b \in DOMAIN w.counts /\ j \in 1 .. w.n - 1 /\ j \in 0 .. w.n - 1
      /\ w.stypes[j] /\ TextOK(w) /\ P \in Int
  BY BucketFacts DEF LMSs, LMS, SlotsOK, TextAndCounts, SeedOK, VectorsOK
<1>2. /\ VectorsOK(w, sl, a) /\ Q \subseteq LMSs(w) /\ a[0] \notin 0 .. w.n
      /\ \A i \in Q : i \in 0 .. w.n - 1 /\ i \in 0 .. w.n /\ w.stypes[i]
      /\ Border(w, b) <= P /\ P <= w.tails[b]
      /\ \A p \in P + 1 .. w.tails[b] : a[p] \in Q /\ BucketOf(w, a[p]) = b
      /\ \A p, q \in 1 .. w.n : a[p] = a[q] /\ a[p] \in 0 .. w.n => p = q
  BY <1>1 DEF SeedOK, LMSs, LMS
<1>3. P \in 1 .. w.n /\ Border(w, b) < P /\ InZone(w, P, j)
  <2>1. Border(w, b) \in Nat /\ w.tails[b] \in Nat /\ w.tails[b] <= w.n
    BY <1>1, BucketFacts
  <2>2. ASSUME NEW p \in P + 1 .. w.tails[b]
        PROVE  p \in 1 .. w.n /\ a[p] \in 0 .. w.n - 1 /\ a[p] # j /\ w.stypes[a[p]]
    <3>1. p \in 1 .. w.n
      BY <1>1, <1>2, <2>1
    <3>2. a[p] \in Q
      BY <1>2
    <3> QED BY <1>2, <3>1, <3>2
  <2>3. \A p, q \in P + 1 .. w.tails[b] : a[p] = a[q] => p = q
    BY <1>1, <1>2, <2>2
  <2> QED BY <1>1, <1>2, <2>2, <2>3, RoomAtTail
<1>4. a[P] \notin 0 .. w.n
  <2> SUFFICES ASSUME a[P] \in 0 .. w.n PROVE FALSE
    OBVIOUS
  <2>1. a[P] \in Q /\ InZone(w, P, a[P]) /\ sl[BucketOf(w, a[P])] < P
    BY <1>3 DEF SeedOK
  <2>2. BucketOf(w, a[P]) = b
    BY <1>1, <1>2, <1>3, <2>1, OneZone
  <2> QED BY <1>1, <2>1, <2>2
<1>5. /\ a2 \in [0 .. w.n -> Int] /\ a2[P] = j /\ \A p \in 0 .. w.n : p # P => a2[p] = a[p]
      /\ s2 \in [DOMAIN w.counts -> Int] /\ s2[b] = P - 1
      /\ \A c \in DOMAIN w.counts : c # b => s2[c] = sl[c]
  BY <1>1, <1>2, <1>3 DEF VectorsOK
<1>6. Used(w, a2) = Used(w, a) \cup {P} /\ P \notin Used(w, a)
  BY <1>1, <1>3, <1>4, <1>5 DEF Used
<1>7. KeysSorted(w, from, a2, Used(w, a2))
  <2>1. \A p \in Used(w, a) :
          p \in 1 .. w.n /\ a[p] \in Q /\ InZone(w, p, a[p]) /\ sl[BucketOf(w, a[p])] < p
    <3>1. \A p \in Used(w, a) : p \in 0 .. w.n /\ p # 0 /\ a[p] \in 0 .. w.n
      BY <1>2 DEF Used
    <3>2. \A p \in Used(w, a) : p \in 1 .. w.n
      BY <1>1, <3>1
    <3> QED BY <3>1, <3>2 DEF SeedOK
  <2>2. ASSUME NEW p \in Used(w, a), p < P PROVE ~ KeyLess(w, from, j, a[p])
    <3> SUFFICES ASSUME KeyLess(w, from, j, a[p]) PROVE FALSE
      OBVIOUS
    <3>1. a[p] \in 0 .. w.n - 1 /\ p \in Int /\ InZone(w, p, a[p])
      BY <1>2, <2>1
    <3>2. BucketOf(w, a[p]) = b
      BY <1>1, <1>3, <2>2, <3>1, ZoneOrder
    <3> QED BY <1>1, <2>1, <2>2, <3>1, <3>2
  <2>3. ASSUME NEW p \in Used(w, a), P < p PROVE ~ KeyLess(w, from, a[p], j)
    <3> SUFFICES ASSUME KeyLess(w, from, a[p], j) PROVE FALSE
      OBVIOUS
    <3>1. a[p] \in 0 .. w.n - 1 /\ p \in Int /\ InZone(w, p, a[p])
      BY <1>2, <2>1
    <3>2. BucketOf(w, a[p]) = b
      BY <1>1, <1>3, <2>3, <3>1, ZoneOrder
    <3> QED BY <1>1, <2>1, <3>2
  <2>4. KeysSorted(w, from, a, Used(w, a)) /\ Used(w, a) \in SUBSET (0 .. w.n) /\ j \in 0 .. w.n /\ P \in 0 .. w.n
    BY <1>1, <1>3 DEF SeedOK, Used
  <2>5. a \in [0 .. w.n -> Int]
    BY <1>2 DEF VectorsOK
  <2>6. KeysSorted(w, from, a2, Used(w, a) \cup {P})
    BY <1>1, <1>6, <2>2, <2>3, <2>4, <2>5, SortedPut
  <2> QED BY <1>6, <2>6
<1>8. ASSUME NEW p \in 1 .. w.n, a2[p] \in 0 .. w.n
      PROVE  a2[p] \in Q \cup {j} /\ InZone(w, p, a2[p]) /\ s2[BucketOf(w, a2[p])] < p
  <2>1. CASE p = P
    BY <1>1, <1>3, <1>5, <2>1
  <2>2. CASE p # P
    <3>1. a2[p] = a[p] /\ a[p] \in Q /\ InZone(w, p, a[p]) /\ sl[BucketOf(w, a[p])] < p
      BY <1>5, <1>8, <2>2 DEF SeedOK
    <3>2. BucketOf(w, a[p]) \in DOMAIN w.counts
      BY <1>2, <3>1, BucketFacts
    <3>3. s2[BucketOf(w, a[p])] = sl[BucketOf(w, a[p])] \/ BucketOf(w, a[p]) = b
      BY <1>5, <3>2
    <3> QED BY <1>1, <1>5, <3>1, <3>3
  <2> QED BY <2>1, <2>2
<1>9. ASSUME NEW c \in DOMAIN w.counts
      PROVE  /\ Border(w, c) <= s2[c] /\ s2[c] <= w.tails[c]
             /\ \A p \in s2[c] + 1 .. w.tails[c] : a2[p] \in Q \cup {j} /\ BucketOf(w, a2[p]) = c
  <2>1. Border(w, c) \in Nat /\ w.tails[c] \in Nat /\ w.tails[c] <= w.n
    BY BucketFacts
  <2>2. CASE c = b
    BY <1>1, <1>2, <1>3, <1>5, <2>1, <2>2
  <2>3. CASE c # b
    <3>1. /\ s2[c] = sl[c] /\ Border(w, c) <= sl[c] /\ sl[c] <= w.tails[c] /\ sl[c] \in Int
          /\ \A p \in sl[c] + 1 .. w.tails[c] : a[p] \in Q /\ BucketOf(w, a[p]) = c
      BY <1>2, <1>5, <2>3 DEF SeedOK, VectorsOK
    <3>2. ASSUME NEW p \in sl[c] + 1 .. w.tails[c] PROVE p \in 0 .. w.n /\ p # P
      <4>1. p \in 0 .. w.n
        BY <1>1, <2>1, <3>1
      <4>2. a[p] \in 0 .. w.n
        BY <1>2, <3>1
      <4> QED BY <1>4, <4>1, <4>2
    <3> QED BY <1>5, <3>1, <3>2
  <2> QED BY <2>2, <2>3
<1>10. \A p, q \in 1 .. w.n : a2[p] = a2[q] /\ a2[p] \in 0 .. w.n => p = q
  <2>1. \A p \in 1 .. w.n : p # P => a2[p] = a[p] /\ a[p] # j
    <3> SUFFICES ASSUME NEW p \in 1 .. w.n, p # P PROVE a2[p] = a[p] /\ a[p] # j
      OBVIOUS
    <3>1. a2[p] = a[p]
      BY <1>5
    <3>2. a[p] # j
      BY <1>1 DEF SeedOK
    <3> QED BY <3>1, <3>2
  <2> QED BY <1>2, <1>5, <2>1
<1>11. \A i \in Q \cup {j} : \E p \in 1 .. w.n : a2[p] = i
  <2>1. \A i \in Q : \E p \in 1 .. w.n : a[p] = i /\ i \in 0 .. w.n
    BY <1>2 DEF SeedOK
  <2> QED BY <1>3, <1>4, <1>5, <2>1
<1>12. a2[0] \notin 0 .. w.n
  BY <1>1, <1>2, <1>3, <1>5
<1>13. SeedOK(w, from, s2, a2, Q \cup {j})
  BY <1>2, <1>5, <1>7, <1>8, <1>9, <1>10, <1>11, <1>12 DEF SeedOK, VectorsOK
<1> QED BY <1>3, <1>4, <1>13

-----------------------------------------------------------------------------
\* LInduceSort before cell k: it has put the left neighbours of the suffixes in the cells
\* before k, if they are L, in front of the slots.
LPassOK(w, from, sl, a, k) ==
  /\ VectorsOK(w, sl, a)
  /\ k \in 0 .. w.n + 1
  /\ a[0] = w.n
  /\ \A p \in 1 .. w.n :
       a[p] \in 0 .. w.n =>
         /\ a[p] \in 0 .. w.n - 1 /\ InZone(w, p, a[p])
         /\ IF w.stypes[a[p]] THEN a[p] \in LMSs(w) ELSE p < sl[BucketOf(w, a[p])]
  /\ \A b \in DOMAIN w.counts :
       /\ w.heads[b] <= sl[b] /\ sl[b] <= Border(w, b) + 1
       /\ \A p \in w.heads[b] .. sl[b] - 1 : a[p] \in Ls(w, b)
  /\ \A p, q \in 1 .. w.n : a[p] = a[q] /\ a[p] \in 0 .. w.n => p = q
  /\ \A j \in LMSs(w) : \E p \in 1 .. w.n : a[p] = j
  /\ \A j \in 0 .. w.n - 1 :
       ~ w.stypes[j] => ((\E p \in 1 .. w.n : a[p] = j) <=> (\E p \in 0 .. k - 1 : a[p] = j + 1))
  /\ KeysSorted(w, from, a, Used(w, a))

\* The cells that hold what they will hold at the end of SInduceSort.
Settled(w, sl, a) ==
  {p \in 1 .. w.n : a[p] \in 0 .. w.n /\ (w.stypes[a[p]] => sl[BucketOf(w, a[p])] < p)}

\* SInduceSort before cell k: it has put the left neighbours of the suffixes in the cells
\* behind k, if they are S, behind the slots; the other S suffixes are LMS.
SPassOK(w, from, sl, a, k) ==
  /\ VectorsOK(w, sl, a)
  /\ k \in -1 .. w.n
  /\ a[0] = w.n
  /\ \A p \in 1 .. w.n :
       a[p] \in 0 .. w.n =>
         /\ a[p] \in 0 .. w.n - 1 /\ InZone(w, p, a[p])
         /\ p \in Settled(w, sl, a) \/ a[p] \in LMSs(w)
  /\ \A b \in DOMAIN w.counts :
       /\ Border(w, b) <= sl[b] /\ sl[b] <= w.tails[b]
       /\ \A p \in sl[b] + 1 .. w.tails[b] : a[p] \in Ss(w, b)
  /\ \A p, q \in Settled(w, sl, a) : a[p] = a[q] => p = q
  /\ \A j \in 0 .. w.n - 1 : ~ w.stypes[j] => \E p \in Settled(w, sl, a) : a[p] = j
  /\ \A j \in 0 .. w.n - 1 :
       w.stypes[j] =>
         ((\E p \in Settled(w, sl, a) : a[p] = j)
            <=> (\E p \in Settled(w, sl, a) : p > k /\ a[p] = j + 1))
  /\ KeysSorted(w, from, a, Settled(w, sl, a) \cup {0})

\* All suffixes in the order of their keys.
KeysInOrder(w, from, a) ==
  /\ a \in [0 .. w.n -> 0 .. w.n]
  /\ a[0] = w.n
  /\ \A p \in 1 .. w.n : a[p] \in 0 .. w.n - 1 /\ InZone(w, p, a[p])
  /\ \A j \in 0 .. w.n : \E p \in 0 .. w.n : a[p] = j
  /\ \A p, q \in 0 .. w.n : p < q => a[p] # a[q] /\ ~ KeyLess(w, from, a[q], a[p])

\* The LMS positions in the first k cells, the empty suffix among them.
ScannedLMS(w, a, k) == {i \in 1 .. w.n : LMS(w, i) /\ \E p \in 0 .. k - 1 : a[p] = i}

\* The naming loop before cell k. Equal names stand for equal substrings, other names for
\* other keys, in their order; bef, with the last name, has the largest key.
NamingTo(w, a, nam, top, bef, k) ==
  LET scan == ScannedLMS(w, a, k)
  IN  /\ k \in 1 .. w.n + 1
      /\ \A i \in 0 .. w.n : nam[i] \in 0 .. w.n <=> i \in scan
      /\ bef \in scan /\ nam[bef] = top /\ top \in Nat
      /\ \A i \in scan : nam[i] \in 0 .. top /\ (nam[i] = 0 <=> i = w.n) /\ ~ KeyLess(w, 1, bef, i)
      /\ \A x \in 0 .. top : \E i \in scan : nam[i] = x
      /\ \A i, j \in scan : nam[i] < nam[j] => KeyLess(w, 1, i, j)
      /\ \A i, j \in scan : nam[i] = nam[j] /\ i # w.n => SameSub(w, i, j)

\* The collecting loop before position k: v has the names of the LMS positions before k.
CollectTo(w, nam, idc, v, s, k) ==
  /\ s \in Nat /\ k \in 0 .. w.n + 1
  /\ idc \in [0 .. s - 1 -> Int] /\ v \in [0 .. s - 1 -> Int]
  /\ \A x \in 0 .. s - 1 :
       idc[x] \in 1 .. w.n /\ idc[x] < k /\ LMS(w, idc[x]) /\ v[x] = nam[idc[x]]
  /\ \A x \in 0 .. s - 2 : idc[x] < w.n /\ SubEnd(w, idc[x]) = idc[x + 1]
  /\ \A i \in 1 .. k - 1 : LMS(w, i) => \E x \in 0 .. s - 1 : idc[x] = i
  /\ s > 0 => 2 * s <= idc[s - 1] + 1 /\ \A d \in idc[s - 1] + 1 .. k - 1 : ~ LMS(w, d)

\* The vector v, of s + 1 cells, sorts the LMS suffixes of the level w.
SortsLMS(w, idc, s, v) ==
  /\ v \in [0 .. s -> Int]
  /\ \A p \in 1 .. s : v[p] \in 0 .. s - 1
  /\ v[1] = s - 1
  /\ \A x \in 0 .. s - 1 : \E p \in 1 .. s : v[p] = x
  /\ \A p, q \in 1 .. s : p < q => Less(w, idc[v[p]], idc[v[q]])

\* The text v of size s is the summary of the level w.
Summarizes(w, s, v) ==
  /\ LMSIndices(w, w.idc, s) /\ Faithful(w, w.idc, s, v)
  /\ 2 * s <= w.n + 1

-----------------------------------------------------------------------------
\* LInduceSort begins with the LMS suffixes at the tails and the empty suffix in cell 0.
LEMMA BeginL ==
  ASSUME NEW w, SlotsOK(w), NEW from \in Nat, NEW sl, NEW a, SeedOK(w, from, sl, a, LMSs(w)),
         NEW a2, a2 = [a EXCEPT ![0] = w.n]
  PROVE  LPassOK(w, from, w.heads, a2, 0)
<1>1. /\ w.n \in Nat \ {0} /\ TextOK(w)
      /\ w.heads \in [DOMAIN w.counts -> Int] /\ a \in [0 .. w.n -> Int]
  BY BucketFacts DEF SlotsOK, TextAndCounts, BucketsOK, SeedOK, VectorsOK
<1>2. a2 \in [0 .. w.n -> Int] /\ a2[0] = w.n /\ \A p \in 1 .. w.n : p \in 0 .. w.n /\ a2[p] = a[p]
  BY <1>1
<1>3. VectorsOK(w, w.heads, a2)
  BY <1>1, <1>2 DEF VectorsOK
<1>4. ASSUME NEW p \in 1 .. w.n, a2[p] \in 0 .. w.n
      PROVE  a2[p] \in LMSs(w) /\ a2[p] \in 0 .. w.n - 1 /\ InZone(w, p, a2[p]) /\ w.stypes[a2[p]]
  <2>1. a2[p] \in LMSs(w) /\ InZone(w, p, a2[p])
    BY <1>2, <1>4 DEF SeedOK
  <2> QED BY <1>1, <2>1 DEF LMSs, LMS
<1>5. ASSUME NEW b \in DOMAIN w.counts
      PROVE  /\ w.heads[b] <= w.heads[b] /\ w.heads[b] <= Border(w, b) + 1
             /\ \A p \in w.heads[b] .. w.heads[b] - 1 : a2[p] \in Ls(w, b)
  <2>1. w.heads[b] \in Nat /\ Border(w, b) \in Nat /\ w.heads[b] - 1 <= Border(w, b)
    BY BucketFacts
  <2> QED BY <2>1
<1>6. \A p, q \in 1 .. w.n : a2[p] = a2[q] /\ a2[p] \in 0 .. w.n => p = q
  BY <1>2 DEF SeedOK
<1>7. \A j \in LMSs(w) : \E p \in 1 .. w.n : a2[p] = j
  BY <1>2 DEF SeedOK
<1>8. ASSUME NEW j \in 0 .. w.n - 1, ~ w.stypes[j]
      PROVE  (\E p \in 1 .. w.n : a2[p] = j) <=> (\E p \in 0 .. 0 - 1 : a2[p] = j + 1)
  <2>1. ASSUME NEW p \in 1 .. w.n PROVE a2[p] # j
    <3>1. j \in 0 .. w.n
      BY <1>1
    <3> QED BY <1>4, <1>8, <3>1
  <2> QED BY <2>1
<1>9. KeysSorted(w, from, a2, Used(w, a2))
  <2>1. Used(w, a) \in SUBSET (0 .. w.n) /\ 0 \notin Used(w, a) /\ KeysSorted(w, from, a, Used(w, a))
    BY DEF Used, SeedOK
  <2>2. Used(w, a2) = Used(w, a) \cup {0}
    BY <1>1, <1>2, <2>1 DEF Used
  <2>3. \A p \in Used(w, a) : 0 < p /\ a[p] \in 0 .. w.n
    BY <1>1, <2>1 DEF Used
  <2>4. \A p \in Used(w, a) : 0 < p => ~ KeyLess(w, from, a[p], w.n)
    BY <1>1, <2>3, EmptyKey
  <2>5. \A p \in Used(w, a) : p < 0 => ~ KeyLess(w, from, w.n, a[p])
    BY <2>1, <2>3
  <2>6. 0 \in 0 .. w.n /\ w.n \in 0 .. w.n
    BY <1>1
  <2>7. KeysSorted(w, from, a2, Used(w, a) \cup {0})
    BY <1>1, <2>1, <2>4, <2>5, <2>6, SortedPut
  <2> QED BY <2>2, <2>7
<1>10. 0 \in 0 .. w.n + 1
  BY <1>1
<1> QED BY <1>2, <1>3, <1>4, <1>5, <1>6, <1>7, <1>8, <1>9, <1>10 DEF LPassOK

\* An L suffix that is not yet there finds a free cell at the head of its bucket.
LEMMA RoomAtHead ==
  ASSUME NEW w, SlotsOK(w), NEW sl, NEW a, VectorsOK(w, sl, a),
         NEW j \in 0 .. w.n - 1, ~ w.stypes[j], NEW b, b = BucketOf(w, j),
         w.heads[b] <= sl[b], sl[b] <= Border(w, b) + 1,
         \A p \in w.heads[b] .. sl[b] - 1 : a[p] \in Ls(w, b) /\ a[p] # j,
         \A p, q \in w.heads[b] .. sl[b] - 1 : a[p] = a[q] => p = q
  PROVE  sl[b] \in 1 .. w.n /\ sl[b] <= Border(w, b) /\ InZone(w, sl[b], j)
<1>1. b \in DOMAIN w.counts
  BY BucketFacts
<1>2. /\ w.n \in Nat /\ w.heads[b] \in Nat /\ w.tails[b] \in Nat /\ Border(w, b) \in Nat
      /\ 1 <= w.heads[b] /\ w.tails[b] <= w.n /\ Border(w, b) <= w.tails[b]
      /\ Border(w, b) = w.heads[b] - 1 + Cardinality(Ls(w, b))
      /\ b \in Int /\ sl[b] \in Int
  BY <1>1, BucketFacts DEF VectorsOK
<1>3. IsFiniteSet(Ls(w, b)) /\ Cardinality(Ls(w, b)) \in Nat
  BY <1>2, BucketSets DEF SlotsOK
<1>4. j \in Ls(w, b)
  BY DEF Ls, Members
<1>5. (sl[b] - 1) - w.heads[b] + 1 < Cardinality(Ls(w, b))
  <2> DEFINE lo == w.heads[b]
             hi == sl[b] - 1
  <2>1. /\ lo \in Int /\ hi \in Int
        /\ \A p \in lo .. hi : a[p] \in Ls(w, b) \ {j}
        /\ \A p, q \in lo .. hi : a[p] = a[q] => p = q
    BY <1>2
  <2>2. IsFiniteSet(Ls(w, b)) /\ j \in Ls(w, b)
    BY <1>3, <1>4
  <2> HIDE DEF lo, hi
  <2>3. hi - lo + 1 < Cardinality(Ls(w, b))
    BY ONLY <2>1, <2>2, RoomForOne
  <2> QED BY <2>3 DEF lo, hi
<1>6. sl[b] <= Border(w, b)
  BY <1>2, <1>3, <1>5
<1> QED BY <1>2, <1>6 DEF InZone

\* A suffix of a smaller bucket, or of the same bucket in front of the slot, is left of it.
LEMMA LeftOfHead ==
  ASSUME NEW w, SlotsOK(w), NEW j \in 0 .. w.n - 1, ~ w.stypes[j], j + 1 < w.n,
         NEW k \in Int, InZone(w, k, j + 1), NEW P \in Int, w.heads[BucketOf(w, j)] <= P,
         ~ w.stypes[j + 1] /\ BucketOf(w, j + 1) = BucketOf(w, j) => k < P
  PROVE  k < P
<1>1. TextOK(w) /\ w.n \in Nat /\ w.sub \in Int
  BY DEF SlotsOK, TextAndCounts, TextOK, CountsOK
<1>2. /\ j + 1 \in 0 .. w.n - 1 /\ j \in 0 .. w.n /\ j + 1 \in 0 .. w.n
      /\ j # w.n /\ j + 1 # w.n
  BY <1>1
<1>3. Symbol(w, j + 1) < Symbol(w, j) \/ (Symbol(w, j + 1) = Symbol(w, j) /\ ~ w.stypes[j + 1])
  BY <1>1, NextOfL
<1>4. /\ Symbol(w, j) \in Int /\ Symbol(w, j + 1) \in Int
      /\ BucketOf(w, j) = Symbol(w, j) - w.sub /\ BucketOf(w, j + 1) = Symbol(w, j + 1) - w.sub
  <2>1. Symbol(w, j) \in Int /\ Symbol(w, j + 1) \in Int
    BY <1>1, <1>2, CodeFacts
  <2> QED BY <1>2, <2>1 DEF Symbol, BucketOf
<1>5. CASE BucketOf(w, j + 1) < BucketOf(w, j)
  <2>1. BucketOf(w, j) \in DOMAIN w.counts /\ BucketOf(w, j + 1) \in DOMAIN w.counts
    BY <1>2, BucketFacts
  <2>2. w.tails[BucketOf(w, j + 1)] < w.heads[BucketOf(w, j)]
    BY <1>5, <2>1, BucketFacts
  <2>3. w.tails[BucketOf(w, j + 1)] \in Int /\ w.heads[BucketOf(w, j)] \in Int
    BY <2>1, BucketFacts
  <2>4. k <= w.tails[BucketOf(w, j + 1)]
    BY DEF InZone
  <2> QED BY <2>2, <2>3, <2>4
<1> QED BY <1>1, <1>3, <1>4, <1>5

\* LInduceSort does not write: the suffix scanned has no L neighbour on its left.
LEMMA LSkip ==
  ASSUME NEW w, SlotsOK(w), NEW from \in Nat, NEW sl, NEW a, NEW k \in 0 .. w.n,
         LPassOK(w, from, sl, a, k),
         \A j \in 0 .. w.n - 1 : ~ w.stypes[j] => a[k] # j + 1
  PROVE  LPassOK(w, from, sl, a, k + 1)
<1>1. w.n \in Nat
  BY BucketFacts
<1>2. \A p \in 0 .. (k + 1) - 1 : p = k \/ p \in 0 .. k - 1
  OBVIOUS
<1>3. \A p \in 0 .. k - 1 : p \in 0 .. (k + 1) - 1
  OBVIOUS
<1>4. \A j \in 0 .. w.n - 1 :
        ~ w.stypes[j] =>
          ((\E p \in 1 .. w.n : a[p] = j) <=> (\E p \in 0 .. (k + 1) - 1 : a[p] = j + 1))
  BY <1>2, <1>3 DEF LPassOK
<1>5. k + 1 \in 0 .. w.n + 1
  BY <1>1
<1> QED BY <1>4, <1>5 DEF LPassOK

\* LInduceSort puts the left neighbour of the suffix scanned into a free cell behind it.
LEMMA LPut ==
  ASSUME NEW w, SlotsOK(w), NEW from \in Nat, NEW sl, NEW a, NEW k \in 0 .. w.n,
         LPassOK(w, from, sl, a, k),
         NEW j \in 0 .. w.n - 1, ~ w.stypes[j], a[k] = j + 1,
         NEW b, b = BucketOf(w, j), NEW P, P = sl[b],
         NEW s2, s2 = [sl EXCEPT ![b] = @ + 1], NEW a2, a2 = [a EXCEPT ![P] = j]
  PROVE  P \in 1 .. w.n /\ a[P] \notin 0 .. w.n /\ LPassOK(w, from, s2, a2, k + 1)
<1>1. /\ w.n \in Nat \ {0} /\ b \in DOMAIN w.counts /\ b \in Nat /\ TextOK(w)
      /\ j \in 0 .. w.n /\ j + 1 \in 0 .. w.n
      /\ w.heads[b] \in Nat /\ Border(w, b) \in Nat /\ w.tails[b] \in Nat /\ 1 <= w.heads[b]
  BY BucketFacts DEF SlotsOK, TextAndCounts
<1>2. /\ a \in [0 .. w.n -> Int] /\ sl \in [DOMAIN w.counts -> Int] /\ a[0] = w.n
      /\ VectorsOK(w, sl, a) /\ P \in Int
      /\ w.heads[b] <= P /\ P <= Border(w, b) + 1
      /\ \A p \in w.heads[b] .. P - 1 : a[p] \in Ls(w, b)
      /\ \A p, q \in 1 .. w.n : a[p] = a[q] /\ a[p] \in 0 .. w.n => p = q
      /\ \A i \in LMSs(w) : \E p \in 1 .. w.n : a[p] = i
  BY <1>1 DEF LPassOK, VectorsOK
<1>3. ASSUME NEW p \in 1 .. w.n, a[p] \in 0 .. w.n
      PROVE  /\ a[p] \in 0 .. w.n - 1 /\ InZone(w, p, a[p])
             /\ IF w.stypes[a[p]] THEN a[p] \in LMSs(w) ELSE p < sl[BucketOf(w, a[p])]
  BY <1>3 DEF LPassOK
<1>4. ASSUME NEW i \in 0 .. w.n - 1, ~ w.stypes[i]
      PROVE  (\E p \in 1 .. w.n : a[p] = i) <=> (\E p \in 0 .. k - 1 : a[p] = i + 1)
  BY <1>4 DEF LPassOK
<1>5. ASSUME NEW p \in 0 .. w.n, a[p] = j + 1 PROVE p = k
  <2>1. CASE p = 0
    <3>1. j + 1 = w.n
      BY <1>2, <1>5, <2>1
    <3>2. ~ (k \in 1 .. w.n)
      BY <1>1, <1>3, <3>1
    <3> QED BY <1>1, <2>1, <3>2
  <2>2. CASE p # 0 /\ k = 0
    <3>1. j + 1 = w.n /\ p \in 1 .. w.n
      BY <1>1, <1>2, <2>2
    <3>2. FALSE
      BY <1>1, <1>3, <1>5, <3>1
    <3> QED BY <3>2
  <2>3. CASE p # 0 /\ k # 0
    <3>1. p \in 1 .. w.n /\ k \in 1 .. w.n /\ a[p] = a[k] /\ a[p] \in 0 .. w.n
      BY <1>1, <1>5, <2>3
    <3> QED BY <1>2, <3>1
  <2> QED BY <2>1, <2>2, <2>3
<1>6. ASSUME NEW p \in 1 .. w.n PROVE a[p] # j
  <2> SUFFICES ASSUME a[p] = j PROVE FALSE
    OBVIOUS
  <2>1. PICK q \in 0 .. k - 1 : a[q] = j + 1
    BY <1>4
  <2>2. q \in 0 .. w.n /\ q # k
    BY <1>1
  <2> QED BY <1>5, <2>1, <2>2
<1>7. P \in 1 .. w.n /\ P <= Border(w, b) /\ InZone(w, P, j)
  <2>1. Border(w, b) <= w.tails[b] /\ w.tails[b] <= w.n
    BY <1>1, BucketFacts
  <2>2. ASSUME NEW p \in w.heads[b] .. P - 1 PROVE p \in 1 .. w.n
    <3>1. P \in Int /\ w.heads[b] \in Int /\ P - 1 <= Border(w, b)
      BY <1>1, <1>2
    <3>2. w.heads[b] <= p /\ p <= P - 1 /\ p \in Int
      BY <3>1
    <3> QED BY <1>1, <2>1, <3>1, <3>2
  <2>3. \A p \in w.heads[b] .. P - 1 : a[p] \in Ls(w, b) /\ a[p] # j /\ a[p] \in 0 .. w.n
    <3> SUFFICES ASSUME NEW p \in w.heads[b] .. P - 1
                 PROVE  a[p] \in Ls(w, b) /\ a[p] # j /\ a[p] \in 0 .. w.n
      OBVIOUS
    <3>1. p \in 1 .. w.n /\ a[p] \in Ls(w, b)
      BY <1>2, <2>2
    <3>2. a[p] \in 0 .. w.n
      BY <1>1, <3>1 DEF Ls, Members
    <3> QED BY <1>6, <3>1, <3>2
  <2>4. \A p, q \in w.heads[b] .. P - 1 : a[p] = a[q] => p = q
    BY <1>2, <2>2, <2>3
  <2>5. /\ VectorsOK(w, sl, a) /\ w.heads[b] <= sl[b] /\ sl[b] <= Border(w, b) + 1
        /\ \A p \in w.heads[b] .. sl[b] - 1 : a[p] \in Ls(w, b) /\ a[p] # j
        /\ \A p, q \in w.heads[b] .. sl[b] - 1 : a[p] = a[q] => p = q
    BY <1>2, <2>3, <2>4
  <2>6. sl[b] \in 1 .. w.n /\ sl[b] <= Border(w, b) /\ InZone(w, sl[b], j)
    BY <2>5, RoomAtHead
  <2> QED BY <2>6
<1>8. a[P] \notin 0 .. w.n
  <2> SUFFICES ASSUME a[P] \in 0 .. w.n PROVE FALSE
    OBVIOUS
  <2>1. /\ a[P] \in 0 .. w.n - 1 /\ InZone(w, P, a[P])
        /\ ~ w.stypes[a[P]] => P < sl[BucketOf(w, a[P])]
    BY <1>3, <1>7
  <2>2. BucketOf(w, a[P]) = b /\ ~ w.stypes[a[P]]
    BY <1>2, <1>7, <2>1, OneZone
  <2> QED BY <1>2, <2>1, <2>2
<1>9. k < P
  <2>1. CASE k = 0
    BY <1>1, <1>2, <2>1
  <2>2. CASE k # 0
    <3>1. k \in 1 .. w.n /\ k \in Int
      BY <1>1, <2>2
    <3>2. /\ j + 1 \in 0 .. w.n - 1 /\ InZone(w, k, j + 1)
          /\ ~ w.stypes[j + 1] => k < sl[BucketOf(w, j + 1)]
      BY <1>1, <1>3, <3>1
    <3>3. j + 1 < w.n /\ w.heads[BucketOf(w, j)] <= P
      BY <1>1, <1>2, <3>2
    <3> QED BY <1>2, <3>1, <3>2, <3>3, LeftOfHead
  <2> QED BY <2>1, <2>2
<1>10. /\ a2 \in [0 .. w.n -> Int] /\ a2[P] = j /\ \A p \in 0 .. w.n : p # P => a2[p] = a[p]
       /\ s2 \in [DOMAIN w.counts -> Int] /\ s2[b] = P + 1
       /\ \A c \in DOMAIN w.counts : c # b => s2[c] = sl[c]
  BY <1>1, <1>2, <1>7
<1>11. a2[0] = w.n
  BY <1>1, <1>2, <1>7, <1>10
<1>12. ASSUME NEW p \in 1 .. w.n, a2[p] \in 0 .. w.n
       PROVE  /\ a2[p] \in 0 .. w.n - 1 /\ InZone(w, p, a2[p])
              /\ IF w.stypes[a2[p]] THEN a2[p] \in LMSs(w) ELSE p < s2[BucketOf(w, a2[p])]
  <2>1. CASE p = P
    BY SMTT(30), <1>1, <1>2, <1>7, <1>10, <2>1
  <2>2. CASE p # P
    <3>1. a2[p] = a[p] /\ p \in 0 .. w.n
      BY <1>10, <2>2
    <3>2. /\ a[p] \in 0 .. w.n - 1 /\ InZone(w, p, a[p])
          /\ IF w.stypes[a[p]] THEN a[p] \in LMSs(w) ELSE p < sl[BucketOf(w, a[p])]
      BY <1>3, <1>12, <3>1
    <3>3. BucketOf(w, a[p]) \in DOMAIN w.counts
      BY <3>2, BucketFacts
    <3>4. s2[BucketOf(w, a[p])] = sl[BucketOf(w, a[p])] \/
            (BucketOf(w, a[p]) = b /\ s2[b] = sl[b] + 1)
      BY <1>10, <3>3
    <3>5. p < sl[BucketOf(w, a[p])] => p < s2[BucketOf(w, a[p])]
      BY <1>2, <3>3, <3>4
    <3> QED BY <3>1, <3>2, <3>5
  <2> QED BY <2>1, <2>2
<1>13. ASSUME NEW c \in DOMAIN w.counts
       PROVE  /\ w.heads[c] <= s2[c] /\ s2[c] <= Border(w, c) + 1
              /\ \A p \in w.heads[c] .. s2[c] - 1 : a2[p] \in Ls(w, c)
  <2>1. /\ w.heads[c] \in Nat /\ 1 <= w.heads[c] /\ Border(w, c) \in Nat
        /\ Border(w, c) <= w.tails[c] /\ w.tails[c] \in Nat /\ w.tails[c] <= w.n
    BY BucketFacts
  <2>2. /\ w.heads[c] <= sl[c] /\ sl[c] <= Border(w, c) + 1 /\ sl[c] \in Int
        /\ \A p \in w.heads[c] .. sl[c] - 1 : a[p] \in Ls(w, c)
    BY <1>2 DEF LPassOK
  <2>3. ASSUME NEW p \in w.heads[c] .. sl[c] - 1 PROVE a2[p] \in Ls(w, c)
    <3>1. p \in 0 .. w.n /\ a[p] \in Ls(w, c)
      BY <1>1, <2>1, <2>2
    <3>2. a[p] \in 0 .. w.n
      BY <1>1, <3>1 DEF Ls, Members
    <3> QED BY <1>8, <1>10, <3>1, <3>2
  <2>4. CASE c = b
    <3>1. j \in Ls(w, b)
      BY DEF Ls, Members
    <3>2. s2[c] = sl[c] + 1 /\ sl[c] = P
      BY <1>2, <1>10, <2>4
    <3>3. ASSUME NEW p \in w.heads[c] .. s2[c] - 1 PROVE a2[p] \in Ls(w, c)
      <4>1. p = P \/ p \in w.heads[c] .. sl[c] - 1
        BY <2>1, <2>2, <3>2
      <4> QED BY <1>10, <2>3, <2>4, <3>1, <4>1
    <3> QED BY <1>7, <2>1, <2>2, <2>4, <3>2, <3>3
  <2>5. CASE c # b
    BY <1>10, <2>2, <2>3, <2>5
  <2> QED BY <2>4, <2>5
<1>14. \A p, q \in 1 .. w.n : a2[p] = a2[q] /\ a2[p] \in 0 .. w.n => p = q
  <2>1. \A p \in 1 .. w.n : p # P => a2[p] = a[p] /\ a2[p] # j
    BY <1>6, <1>10
  <2> QED BY <1>2, <1>7, <1>10, <2>1
<1>15. \A i \in LMSs(w) : \E p \in 1 .. w.n : a2[p] = i
  <2> SUFFICES ASSUME NEW i \in LMSs(w) PROVE \E p \in 1 .. w.n : a2[p] = i
    OBVIOUS
  <2>1. PICK p \in 1 .. w.n : a[p] = i
    BY <1>2
  <2>2. i \in 0 .. w.n
    BY <1>1 DEF LMSs
  <2>3. p # P
    BY <1>8, <2>1, <2>2
  <2> QED BY <1>10, <2>1, <2>3
<1>16. ASSUME NEW i \in 0 .. w.n - 1, ~ w.stypes[i]
       PROVE  (\E p \in 1 .. w.n : a2[p] = i) <=> (\E p \in 0 .. (k + 1) - 1 : a2[p] = i + 1)
  <2>1. \A p \in 0 .. (k + 1) - 1 : p \in 0 .. w.n /\ p # P /\ a2[p] = a[p] /\ (p = k \/ p \in 0 .. k - 1)
    BY <1>1, <1>9, <1>10
  <2>2. k \in 0 .. (k + 1) - 1 /\ \A p \in 0 .. k - 1 : p \in 0 .. (k + 1) - 1
    BY <1>1
  <2>3. CASE i = j
    <3>1. a2[P] = i /\ a2[k] = i + 1
      BY <1>10, <2>1, <2>2, <2>3
    <3> QED BY <1>7, <2>2, <3>1
  <2>4. CASE i # j
    <3>1. (\E p \in 1 .. w.n : a2[p] = i) <=> (\E p \in 1 .. w.n : a[p] = i)
      <4>1. i \in 0 .. w.n
        BY <1>1
      <4>2. \A p \in 1 .. w.n : a2[p] = i <=> a[p] = i
        BY <1>8, <1>10, <2>4, <4>1
      <4> QED BY <4>2
    <3>2. a[k] # i + 1
      BY <1>1, <2>4
    <3>3. (\E p \in 0 .. (k + 1) - 1 : a2[p] = i + 1) <=> (\E p \in 0 .. k - 1 : a[p] = i + 1)
      BY <2>1, <2>2, <3>2
    <3> QED BY <1>4, <1>16, <3>1, <3>3
  <2> QED BY <2>3, <2>4
<1>17. KeysSorted(w, from, a2, Used(w, a2))
  <2>1. Used(w, a2) = Used(w, a) \cup {P} /\ P \notin Used(w, a)
    BY <1>1, <1>7, <1>8, <1>10 DEF Used
  <2>2. /\ KeysSorted(w, from, a, Used(w, a)) /\ Used(w, a) \in SUBSET (0 .. w.n)
        /\ j \in 0 .. w.n /\ P \in 0 .. w.n /\ k \in Used(w, a)
    BY <1>1, <1>7 DEF LPassOK, Used
  <2>3. ASSUME NEW p \in Used(w, a), p < P PROVE ~ KeyLess(w, from, j, a[p])
    <3>1. p \in 0 .. w.n /\ a[p] \in 0 .. w.n
      BY DEF Used
    <3>2. CASE p = 0
      BY <1>1, <1>2, <3>2, EmptyKey
    <3>3. CASE p # 0
      <4> SUFFICES ASSUME KeyLess(w, from, j, a[p]) PROVE FALSE
        OBVIOUS
      <4>1. p \in 1 .. w.n /\ a[p] \in 0 .. w.n - 1 /\ p \in Int /\ InZone(w, p, a[p])
        BY <1>3, <3>1, <3>3
      <4>2. /\ w.stypes[a[p]] <=> w.stypes[j]
            /\ KeyLess(w, from, j + 1, a[p] + 1)
        BY SMTT(30), <1>2, <1>7, <2>3, <4>1, ZoneOrder
      <4>3. PICK q \in 0 .. k - 1 : a[q] = a[p] + 1
        BY <1>4, <4>1, <4>2
      <4>4. q \in Used(w, a) /\ q < k
        <5>1. q \in 0 .. w.n /\ a[p] + 1 \in 0 .. w.n /\ q < k
          BY <1>1, <4>1
        <5> QED BY <4>3, <5>1 DEF Used
      <4>5. ~ KeyLess(w, from, a[k], a[q])
        BY <2>2, <4>4 DEF KeysSorted
      <4> QED BY <4>2, <4>3, <4>5
    <3> QED BY <3>2, <3>3
  <2>4. ASSUME NEW p \in Used(w, a), P < p PROVE ~ KeyLess(w, from, a[p], j)
    <3> SUFFICES ASSUME KeyLess(w, from, a[p], j) PROVE FALSE
      OBVIOUS
    <3>1. p \in 1 .. w.n /\ a[p] \in 0 .. w.n /\ p \in Int
      BY <1>1, <1>7, <2>4 DEF Used
    <3>2. /\ a[p] \in 0 .. w.n - 1 /\ InZone(w, p, a[p])
          /\ ~ w.stypes[a[p]] => p < sl[BucketOf(w, a[p])]
      BY <1>3, <3>1
    <3>3. BucketOf(w, a[p]) = b /\ ~ w.stypes[a[p]]
      BY SMTT(30), <1>2, <1>7, <2>4, <3>1, <3>2, ZoneOrder
    <3> QED BY <1>2, <2>4, <3>1, <3>2, <3>3
  <2>5. KeysSorted(w, from, a2, Used(w, a) \cup {P})
    BY <1>1, <1>2, <2>1, <2>2, <2>3, <2>4, SortedPut
  <2> QED BY <2>1, <2>5
<1>18. VectorsOK(w, s2, a2) /\ k + 1 \in 0 .. w.n + 1
  BY SMTT(30), <1>1, <1>10 DEF VectorsOK
<1>19. LPassOK(w, from, s2, a2, k + 1)
  BY <1>11, <1>12, <1>13, <1>14, <1>15, <1>16, <1>17, <1>18 DEF LPassOK
<1> QED BY <1>7, <1>8, <1>19

\* LInduceSort has put every L suffix.
LEMMA AllLsPut ==
  ASSUME NEW w, SlotsOK(w), NEW from \in Nat, NEW sl, NEW a,
         NEW k \in Int, k > w.n, LPassOK(w, from, sl, a, k), NEW j \in 0 .. w.n - 1, ~ w.stypes[j]
  PROVE  \E p \in 1 .. w.n : a[p] = j
<1> DEFINE Wrong(x) == ~ w.stypes[x] /\ ~ \E p \in 1 .. w.n : a[p] = x
           T == {z \in Nat : \E x \in 0 .. w.n - 1 : z = w.n - x /\ Wrong(x)}
<1>1. w.n \in Nat \ {0} /\ TextOK(w)
  BY BucketFacts DEF SlotsOK, TextAndCounts
<1>2. /\ a[0] = w.n
      /\ \A i \in LMSs(w) : \E p \in 1 .. w.n : a[p] = i
      /\ \A i \in 0 .. w.n - 1 :
           ~ w.stypes[i] =>
             ((\E p \in 1 .. w.n : a[p] = i) <=> (\E p \in 0 .. k - 1 : a[p] = i + 1))
  BY DEF LPassOK
<1> SUFFICES ASSUME Wrong(j) PROVE FALSE
  OBVIOUS
<1>3. w.n - j \in T
  BY <1>1
<1>4. PICK z \in T : \A y \in T : z <= y
  BY <1>3, LeastElement
<1>5. PICK x \in 0 .. w.n - 1 : z = w.n - x /\ Wrong(x)
  OBVIOUS
<1>6. ASSUME x + 1 \in 0 .. w.n - 1, Wrong(x + 1) PROVE FALSE
  <2>1. w.n - (x + 1) \in T
    <3>1. x + 1 \in 0 .. w.n - 1 /\ Wrong(x + 1) /\ w.n - (x + 1) \in Nat
      BY <1>1, <1>6
    <3> HIDE DEF Wrong
    <3> QED BY <3>1
  <2>2. z <= w.n - (x + 1)
    BY <1>4, <2>1
  <2> QED BY <1>1, <1>5, <2>2
<1> HIDE DEF T
<1>7. \A p \in 0 .. w.n : a[p] # x + 1
  <2>1. \A p \in 0 .. w.n : p \in 0 .. k - 1
    BY <1>1
  <2> QED BY <1>2, <1>5, <2>1
<1>8. x + 1 # w.n
  BY <1>1, <1>2, <1>7
<1>9. x + 1 \in 0 .. w.n - 1 /\ \A p \in 1 .. w.n : a[p] # x + 1
  BY <1>1, <1>7, <1>8
<1>10. w.stypes[x + 1]
  BY <1>6, <1>9
<1>11. x + 1 \in LMSs(w)
  <2>1. x + 1 \in 1 .. w.n - 1 /\ (x + 1) - 1 = x
    BY <1>9
  <2> QED BY <1>5, <1>10, <2>1 DEF LMSs, LMS
<1> QED BY <1>2, <1>9, <1>11

\* The codes at an LMS position itself only matter for the limit if it is the first one.
LEMMA KeyFromOne ==
  ASSUME NEW w, NEW i \in 0 .. w.n, NEW j \in 0 .. w.n, ~ LMS(w, i), KeyLess(w, 1, i, j)
  PROVE  KeyLess(w, 0, i, j)
<1>1. PICK d \in 0 .. w.n :
        /\ i + d <= w.n /\ j + d <= w.n
        /\ \A e \in 0 .. d - 1 : Code(w, i + e) = Code(w, j + e) /\ (e >= 1 => ~ LMS(w, i + e))
        /\ Code(w, i + d) < Code(w, j + d)
  BY DEF KeyLess
<1>2. i + 0 = i
  OBVIOUS
<1>3. ASSUME NEW e \in 0 .. d - 1
      PROVE  Code(w, i + e) = Code(w, j + e) /\ (e >= 0 => ~ LMS(w, i + e))
  <2>1. CASE e = 0
    BY <1>1, <1>2, <2>1
  <2>2. CASE e # 0
    BY <1>1, <2>2
  <2> QED BY <2>1, <2>2
<1> QED BY <1>1, <1>3, KeyAt

\* SInduceSort begins with all L suffixes in their places.
LEMMA BeginS ==
  ASSUME NEW w, SlotsOK(w), NEW from \in Nat, NEW to, to = from \/ (from = 0 /\ to = 1),
         NEW sl, NEW a, NEW k \in Int, k > w.n, LPassOK(w, from, sl, a, k)
  PROVE  SPassOK(w, to, w.tails, a, w.n)
<1> DEFINE C == Settled(w, w.tails, a)
<1>1. /\ w.n \in Nat \ {0} /\ TextOK(w)
      /\ w.tails \in [DOMAIN w.counts -> Int] /\ a \in [0 .. w.n -> Int] /\ a[0] = w.n
  BY BucketFacts DEF SlotsOK, TextAndCounts, BucketsOK, LPassOK, VectorsOK
<1>2. ASSUME NEW p \in 1 .. w.n, a[p] \in 0 .. w.n
      PROVE  a[p] \in 0 .. w.n - 1 /\ InZone(w, p, a[p]) /\ (w.stypes[a[p]] => a[p] \in LMSs(w))
  BY <1>2 DEF LPassOK
<1>3. C = {p \in 1 .. w.n : a[p] \in 0 .. w.n /\ ~ w.stypes[a[p]]}
  <2> SUFFICES ASSUME NEW p \in 1 .. w.n, a[p] \in 0 .. w.n
               PROVE  (w.stypes[a[p]] => w.tails[BucketOf(w, a[p])] < p) <=> ~ w.stypes[a[p]]
    BY DEF Settled
  <2>1. a[p] \in 0 .. w.n - 1 /\ InZone(w, p, a[p])
    BY <1>2
  <2>2. p <= w.tails[BucketOf(w, a[p])]
    BY <2>1 DEF InZone
  <2>3. w.tails[BucketOf(w, a[p])] \in Int
    BY <2>1, BucketFacts
  <2> QED BY <2>2, <2>3
<1>4. VectorsOK(w, w.tails, a) /\ w.n \in -1 .. w.n
  BY <1>1 DEF VectorsOK
<1>5. ASSUME NEW p \in 1 .. w.n, a[p] \in 0 .. w.n
      PROVE  /\ a[p] \in 0 .. w.n - 1 /\ InZone(w, p, a[p])
             /\ p \in C \/ a[p] \in LMSs(w)
  BY <1>2, <1>3, <1>5
<1>6. ASSUME NEW b \in DOMAIN w.counts
      PROVE  /\ Border(w, b) <= w.tails[b] /\ w.tails[b] <= w.tails[b]
             /\ \A p \in w.tails[b] + 1 .. w.tails[b] : a[p] \in Ss(w, b)
  <2>1. Border(w, b) <= w.tails[b] /\ w.tails[b] \in Nat
    BY BucketFacts
  <2> QED BY <2>1
<1>7. \A p, q \in C : a[p] = a[q] => p = q
  BY <1>3 DEF LPassOK
<1>8. \A j \in 0 .. w.n - 1 : ~ w.stypes[j] => \E p \in C : a[p] = j
  <2> SUFFICES ASSUME NEW j \in 0 .. w.n - 1, ~ w.stypes[j] PROVE \E p \in C : a[p] = j
    OBVIOUS
  <2>1. PICK p \in 1 .. w.n : a[p] = j
    BY AllLsPut
  <2>2. a[p] \in 0 .. w.n
    BY <1>1, <2>1
  <2> QED BY <1>3, <2>1, <2>2
<1>9. \A j \in 0 .. w.n - 1 :
        w.stypes[j] =>
          ((\E p \in C : a[p] = j) <=> (\E p \in C : p > w.n /\ a[p] = j + 1))
  <2>1. \A p \in C : ~ (p > w.n) /\ ~ w.stypes[a[p]]
    BY <1>1, <1>3
  <2> QED BY <2>1
<1>10. KeysSorted(w, to, a, C \cup {0})
  <2> SUFFICES ASSUME NEW p \in C \cup {0}, NEW q \in C \cup {0}, p < q, KeyLess(w, to, a[q], a[p])
               PROVE  FALSE
    BY DEF KeysSorted
  <2>1. p \in Used(w, a) /\ q \in Used(w, a) /\ q \in C
    <3>1. 0 \in Used(w, a)
      BY <1>1 DEF Used
    <3>2. C \subseteq Used(w, a) /\ \A x \in C : x \in 1 .. w.n
      BY <1>1, <1>3 DEF Used
    <3> QED BY <3>1, <3>2
  <2>2. ~ KeyLess(w, from, a[q], a[p])
    BY <2>1 DEF LPassOK, KeysSorted
  <2>3. to = 1 /\ from = 0
    BY <2>2
  <2>4. ~ LMS(w, a[q]) /\ a[q] \in 0 .. w.n /\ a[p] \in 0 .. w.n
    BY <1>3, <2>1 DEF LMS, Used
  <2> QED BY <2>2, <2>3, <2>4, KeyFromOne
<1> HIDE DEF C
<1> QED BY <1>1, <1>4, <1>5, <1>6, <1>7, <1>8, <1>9, <1>10 DEF SPassOK, C

\* A suffix of a larger bucket, or of the same bucket behind the slot, is right of it.
LEMMA RightOfTail ==
  ASSUME NEW w, SlotsOK(w), NEW j \in 0 .. w.n - 1, w.stypes[j],
         NEW k \in Int, InZone(w, k, j + 1), NEW P \in Int, P <= w.tails[BucketOf(w, j)],
         w.stypes[j + 1] /\ BucketOf(w, j + 1) = BucketOf(w, j) => P < k
  PROVE  P < k
<1>1. TextOK(w) /\ w.n \in Nat /\ w.sub \in Int
  BY DEF SlotsOK, TextAndCounts, TextOK, CountsOK
<1>2. /\ j + 1 \in 0 .. w.n - 1
      /\ Symbol(w, j) < Symbol(w, j + 1) \/ (Symbol(w, j) = Symbol(w, j + 1) /\ w.stypes[j + 1])
  BY <1>1, NextOfS
<1>3. /\ j \in 0 .. w.n /\ j + 1 \in 0 .. w.n /\ j # w.n /\ j + 1 # w.n
  BY <1>1, <1>2
<1>4. /\ Symbol(w, j) \in Int /\ Symbol(w, j + 1) \in Int
      /\ BucketOf(w, j) = Symbol(w, j) - w.sub /\ BucketOf(w, j + 1) = Symbol(w, j + 1) - w.sub
  <2>1. Symbol(w, j) \in Int /\ Symbol(w, j + 1) \in Int
    BY <1>1, <1>3, CodeFacts
  <2> QED BY <1>3, <2>1 DEF Symbol, BucketOf
<1>5. CASE BucketOf(w, j) < BucketOf(w, j + 1)
  <2>1. BucketOf(w, j) \in DOMAIN w.counts /\ BucketOf(w, j + 1) \in DOMAIN w.counts
    BY <1>2, BucketFacts
  <2>2. w.tails[BucketOf(w, j)] < w.heads[BucketOf(w, j + 1)]
    BY <1>5, <2>1, BucketFacts
  <2>3. w.tails[BucketOf(w, j)] \in Int /\ w.heads[BucketOf(w, j + 1)] \in Int
    BY <2>1, BucketFacts
  <2>4. w.heads[BucketOf(w, j + 1)] <= k
    BY DEF InZone
  <2> QED BY <2>2, <2>3, <2>4
<1> QED BY <1>1, <1>2, <1>4, <1>5

\* SInduceSort does not write: the suffix scanned has no S neighbour on its left.
LEMMA SSkip ==
  ASSUME NEW w, SlotsOK(w), NEW from \in Nat, NEW sl, NEW a, NEW k \in 0 .. w.n,
         SPassOK(w, from, sl, a, k),
         \A j \in 0 .. w.n - 1 : w.stypes[j] => a[k] # j + 1
  PROVE  SPassOK(w, from, sl, a, k - 1)
<1> DEFINE C == Settled(w, sl, a)
<1>1. \A p \in C : p \in Int /\ (p > k - 1 <=> p = k \/ p > k)
  BY DEF Settled
<1>2. \A j \in 0 .. w.n - 1 :
        w.stypes[j] =>
          ((\E p \in C : a[p] = j) <=> (\E p \in C : p > k /\ a[p] = j + 1))
  BY DEF SPassOK
<1> HIDE DEF C
<1>3. \A j \in 0 .. w.n - 1 :
        w.stypes[j] =>
          ((\E p \in C : a[p] = j) <=> (\E p \in C : p > k - 1 /\ a[p] = j + 1))
  BY <1>1, <1>2
<1>4. k - 1 \in -1 .. w.n
  BY BucketFacts
<1> QED BY <1>3, <1>4 DEF SPassOK, C

\* SInduceSort puts the left neighbour of the suffix scanned into a cell before it, where
\* there is at most an LMS suffix that is to be put again.
LEMMA SPut ==
  ASSUME NEW w, SlotsOK(w), NEW from \in Nat, NEW sl, NEW a, NEW k \in 0 .. w.n,
         SPassOK(w, from, sl, a, k),
         NEW j \in 0 .. w.n - 1, w.stypes[j], a[k] = j + 1,
         NEW b, b = BucketOf(w, j), NEW P, P = sl[b],
         NEW s2, s2 = [sl EXCEPT ![b] = @ - 1], NEW a2, a2 = [a EXCEPT ![P] = j]
  PROVE  /\ P \in 1 .. w.n /\ (a[P] \in 0 .. w.n => a[P] \in LMSs(w))
         /\ SPassOK(w, from, s2, a2, k - 1)
<1> DEFINE C == Settled(w, sl, a)
           D == Settled(w, s2, a2)
<1>1. /\ w.n \in Nat \ {0} /\ b \in DOMAIN w.counts /\ b \in Nat /\ TextOK(w)
      /\ j \in 0 .. w.n /\ j + 1 \in 0 .. w.n
      /\ w.heads[b] \in Nat /\ Border(w, b) \in Nat /\ w.tails[b] \in Nat /\ w.tails[b] <= w.n
  BY BucketFacts DEF SlotsOK, TextAndCounts
<1>2. /\ a \in [0 .. w.n -> Int] /\ sl \in [DOMAIN w.counts -> Int] /\ a[0] = w.n
      /\ VectorsOK(w, sl, a) /\ P \in Int
      /\ Border(w, b) <= P /\ P <= w.tails[b]
      /\ \A p \in P + 1 .. w.tails[b] : a[p] \in Ss(w, b)
      /\ \A p, q \in C : a[p] = a[q] => p = q
  BY <1>1 DEF SPassOK, VectorsOK
<1>3. ASSUME NEW p \in 1 .. w.n, a[p] \in 0 .. w.n
      PROVE  a[p] \in 0 .. w.n - 1 /\ InZone(w, p, a[p]) /\ (p \in C \/ a[p] \in LMSs(w))
  BY <1>3 DEF SPassOK
<1>4. ASSUME NEW i \in 0 .. w.n - 1, w.stypes[i]
      PROVE  (\E p \in C : a[p] = i) <=> (\E p \in C : p > k /\ a[p] = i + 1)
  BY <1>4 DEF SPassOK
<1>5. \A p \in C : /\ p \in 1 .. w.n /\ p \in Int /\ a[p] \in 0 .. w.n - 1 /\ InZone(w, p, a[p])
                   /\ w.stypes[a[p]] => sl[BucketOf(w, a[p])] < p
  BY <1>3 DEF Settled
<1>6. \A p \in 1 .. w.n : a[p] \in 0 .. w.n /\ (w.stypes[a[p]] => sl[BucketOf(w, a[p])] < p) => p \in C
  BY DEF Settled
<1> HIDE DEF C
<1>7. j + 1 \in 0 .. w.n - 1
  BY <1>1, NextOfS
<1>8. k \in 1 .. w.n /\ k \in C
  <2>1. k # 0
    BY <1>1, <1>2, <1>7
  <2>2. k \in 1 .. w.n /\ a[k] \in 0 .. w.n
    BY <1>1, <2>1
  <2>3. a[k] \notin LMSs(w)
    <3>1. (j + 1) - 1 = j
      OBVIOUS
    <3> QED BY <3>1 DEF LMSs, LMS
  <2> QED BY <1>3, <2>2, <2>3
<1>9. ASSUME NEW p \in C PROVE a[p] # j
  <2> SUFFICES ASSUME a[p] = j PROVE FALSE
    OBVIOUS
  <2>1. PICK q \in C : q > k /\ a[q] = j + 1
    BY <1>4
  <2>2. q = k
    BY <1>2, <1>8, <2>1
  <2> QED BY <2>1, <2>2
<1>10. ASSUME NEW c \in DOMAIN w.counts
       PROVE  /\ Border(w, c) <= sl[c] /\ sl[c] <= w.tails[c] /\ sl[c] \in Int
              /\ Border(w, c) \in Nat /\ w.tails[c] \in Nat /\ w.tails[c] <= w.n
              /\ \A p \in sl[c] + 1 .. w.tails[c] : a[p] \in Ss(w, c) /\ p \in C
  <2>1. /\ Border(w, c) <= sl[c] /\ sl[c] <= w.tails[c] /\ sl[c] \in Int
        /\ Border(w, c) \in Nat /\ w.tails[c] \in Nat /\ w.tails[c] <= w.n
    BY <1>1, <1>2, BucketFacts DEF SPassOK
  <2>2. ASSUME NEW p \in sl[c] + 1 .. w.tails[c] PROVE a[p] \in Ss(w, c) /\ p \in C
    <3>1. a[p] \in Ss(w, c)
      BY DEF SPassOK
    <3>2. p \in 1 .. w.n /\ p > sl[c]
      BY <1>1, <2>1
    <3>3. a[p] \in 0 .. w.n /\ BucketOf(w, a[p]) = c
      BY <1>1, <3>1 DEF Ss, Members
    <3> QED BY <1>6, <2>1, <3>1, <3>2, <3>3
  <2> QED BY <2>1, <2>2
<1>11. P \in 1 .. w.n /\ Border(w, b) < P /\ InZone(w, P, j)
  <2>1. ASSUME NEW p \in sl[b] + 1 .. w.tails[b]
        PROVE  a[p] \in 0 .. w.n - 1 /\ w.stypes[a[p]] /\ BucketOf(w, a[p]) = b /\ a[p] # j
    <3>1. a[p] \in Ss(w, b) /\ p \in C
      BY <1>1, <1>10
    <3> QED BY <1>5, <1>9, <3>1 DEF Ss, Members
  <2>2. \A p, q \in sl[b] + 1 .. w.tails[b] : a[p] = a[q] => p = q
    BY <1>1, <1>2, <1>10
  <2>3. VectorsOK(w, sl, a) /\ Border(w, b) <= sl[b] /\ sl[b] <= w.tails[b]
    BY <1>2
  <2>4. sl[b] \in 1 .. w.n /\ Border(w, b) < sl[b] /\ InZone(w, sl[b], j)
    BY <2>1, <2>2, <2>3, RoomAtTail
  <2> QED BY <2>4
<1>12. P \notin C
  <2> SUFFICES ASSUME P \in C PROVE FALSE
    OBVIOUS
  <2>1. a[P] \in 0 .. w.n - 1 /\ InZone(w, P, a[P]) /\ (w.stypes[a[P]] => sl[BucketOf(w, a[P])] < P)
    BY <1>5
  <2>2. BucketOf(w, a[P]) = b /\ w.stypes[a[P]]
    BY <1>2, <1>11, <2>1, OneZone
  <2> QED BY <1>2, <2>1, <2>2
<1>13. P < k
  <2>1. InZone(w, k, j + 1) /\ (w.stypes[j + 1] => sl[BucketOf(w, j + 1)] < k)
    BY <1>5, <1>8
  <2>2. k \in Int /\ P <= w.tails[BucketOf(w, j)]
    BY <1>2
  <2> QED BY <1>2, <2>1, <2>2, RightOfTail
<1>14. /\ a2 \in [0 .. w.n -> Int] /\ a2[P] = j /\ \A p \in 0 .. w.n : p # P => a2[p] = a[p]
       /\ s2 \in [DOMAIN w.counts -> Int] /\ s2[b] = P - 1
       /\ \A c \in DOMAIN w.counts : c # b => s2[c] = sl[c]
  BY SMTT(30), <1>1, <1>2, <1>11
<1>15. ASSUME NEW p \in 1 .. w.n, p # P PROVE p \in D <=> p \in C
  <2>1. a2[p] = a[p]
    BY <1>1, <1>14, <1>15
  <2>2. CASE a[p] \notin 0 .. w.n
    BY <2>1, <2>2 DEF Settled, C
  <2>3. CASE a[p] \in 0 .. w.n
    <3>1. a[p] \in 0 .. w.n - 1
      BY <1>3, <2>3
    <3>2. BucketOf(w, a[p]) \in DOMAIN w.counts
      BY <3>1, BucketFacts
    <3>3. CASE BucketOf(w, a[p]) # b
      BY <1>14, <2>1, <3>2, <3>3 DEF Settled, C
    <3>4. CASE BucketOf(w, a[p]) = b
      <4>1. s2[b] < p <=> sl[b] < p
        BY <1>2, <1>14, <1>15
      <4> QED BY <2>1, <3>4, <4>1 DEF Settled, C
    <3> QED BY <3>3, <3>4
  <2> QED BY <2>2, <2>3
<1>16. P \in D
  <2>1. s2[b] < P
    BY <1>2, <1>14
  <2> QED BY <1>1, <1>11, <1>14, <2>1 DEF Settled
<1>17. D = C \cup {P} /\ \A p \in D : p \in 1 .. w.n
  <2>1. \A p \in D : p \in 1 .. w.n
    BY DEF Settled
  <2> HIDE DEF D
  <2> QED BY <1>5, <1>11, <1>15, <1>16, <2>1
<1> HIDE DEF D
<1>18. \A p \in C : p # P /\ a2[p] = a[p] /\ p \in D
  BY <1>5, <1>12, <1>14, <1>17
<1>19. a2[0] = w.n
  BY <1>1, <1>2, <1>11, <1>14
<1>20. ASSUME NEW p \in 1 .. w.n, a2[p] \in 0 .. w.n
       PROVE  a2[p] \in 0 .. w.n - 1 /\ InZone(w, p, a2[p]) /\ (p \in D \/ a2[p] \in LMSs(w))
  <2>1. CASE p = P
    BY <1>11, <1>14, <1>16, <2>1
  <2>2. CASE p # P
    <3>1. a2[p] = a[p]
      BY <1>14, <2>2
    <3> QED BY <1>3, <1>17, <1>20, <3>1
  <2> QED BY <2>1, <2>2
<1>21. ASSUME NEW c \in DOMAIN w.counts
       PROVE  /\ Border(w, c) <= s2[c] /\ s2[c] <= w.tails[c]
              /\ \A p \in s2[c] + 1 .. w.tails[c] : a2[p] \in Ss(w, c)
  <2>1. \A p \in sl[c] + 1 .. w.tails[c] : a2[p] \in Ss(w, c)
    BY <1>10, <1>18
  <2>2. CASE c = b
    <3>1. s2[c] = sl[c] - 1 /\ sl[c] = P
      BY <1>2, <1>14, <2>2
    <3>2. ASSUME NEW p \in s2[c] + 1 .. w.tails[c] PROVE a2[p] \in Ss(w, c)
      <4>1. p = P \/ p \in sl[c] + 1 .. w.tails[c]
        BY <1>10, <3>1
      <4>2. j \in Ss(w, b)
        BY DEF Ss, Members
      <4> QED BY <1>14, <2>1, <2>2, <4>1, <4>2
    <3> QED BY <1>10, <1>11, <2>2, <3>1, <3>2
  <2>3. CASE c # b
    BY <1>10, <1>14, <2>1, <2>3
  <2> QED BY <2>2, <2>3
<1>22. \A p, q \in D : a2[p] = a2[q] => p = q
  BY <1>2, <1>9, <1>14, <1>17, <1>18
<1>23. \A i \in 0 .. w.n - 1 : ~ w.stypes[i] => \E p \in D : a2[p] = i
  <2>1. \A i \in 0 .. w.n - 1 : ~ w.stypes[i] => \E p \in C : a[p] = i
    BY DEF SPassOK, C
  <2> QED BY <1>18, <2>1
<1>24. ASSUME NEW i \in 0 .. w.n - 1, w.stypes[i]
       PROVE  (\E p \in D : a2[p] = i) <=> (\E p \in D : p > k - 1 /\ a2[p] = i + 1)
  <2>1. \A p \in C : p \in Int /\ (p > k - 1 <=> p = k \/ p > k)
    BY <1>5, <1>8
  <2>2. ~ (P > k - 1)
    BY <1>8, <1>11, <1>13
  <2>3. CASE i = j
    <3>1. P \in D /\ a2[P] = i
      BY <1>14, <1>17, <2>3
    <3>2. k \in D /\ k > k - 1 /\ a2[k] = i + 1
      BY <1>8, <1>18, <2>1, <2>3
    <3> QED BY <3>1, <3>2
  <2>4. CASE i # j
    <3>1. (\E p \in D : a2[p] = i) <=> (\E p \in C : a[p] = i)
      BY <1>14, <1>17, <1>18, <2>4
    <3>2. a[k] # i + 1
      BY <1>1, <2>4
    <3>3. (\E p \in D : p > k - 1 /\ a2[p] = i + 1) <=> (\E p \in C : p > k /\ a[p] = i + 1)
      BY <1>17, <1>18, <2>1, <2>2, <3>2
    <3> QED BY <1>4, <1>24, <3>1, <3>3
  <2> QED BY <2>3, <2>4
<1>25. KeysSorted(w, from, a2, D \cup {0})
  <2>1. /\ KeysSorted(w, from, a, C \cup {0}) /\ C \cup {0} \in SUBSET (0 .. w.n)
        /\ P \in 0 .. w.n /\ P \notin C \cup {0}
    BY <1>1, <1>5, <1>11, <1>12 DEF SPassOK, C
  <2>2. ASSUME NEW p \in C \cup {0}, p < P PROVE ~ KeyLess(w, from, j, a[p])
    <3>1. CASE p = 0
      BY <1>1, <1>2, <3>1, EmptyKey
    <3>2. CASE p # 0
      <4> SUFFICES ASSUME KeyLess(w, from, j, a[p]) PROVE FALSE
        OBVIOUS
      <4>1. /\ p \in Int /\ a[p] \in 0 .. w.n - 1 /\ InZone(w, p, a[p])
            /\ w.stypes[a[p]] => sl[BucketOf(w, a[p])] < p
        BY <1>5, <3>2
      <4>2. BucketOf(w, a[p]) = b /\ w.stypes[a[p]]
        BY SMTT(30), <1>2, <1>11, <2>2, <4>1, ZoneOrder
      <4> QED BY <1>2, <2>2, <4>1, <4>2
    <3> QED BY <3>1, <3>2
  <2>3. ASSUME NEW p \in C \cup {0}, P < p PROVE ~ KeyLess(w, from, a[p], j)
    <3> SUFFICES ASSUME KeyLess(w, from, a[p], j) PROVE FALSE
      OBVIOUS
    <3>1. p \in C
      BY <1>11, <2>3
    <3>2. /\ p \in Int /\ a[p] \in 0 .. w.n - 1 /\ InZone(w, p, a[p])
      BY <1>5, <3>1
    <3>3. (w.stypes[j] <=> w.stypes[a[p]]) /\ KeyLess(w, from, a[p] + 1, j + 1)
      BY SMTT(30), <1>2, <1>11, <2>3, <3>2, ZoneOrder
    <3>4. PICK q \in C : q > k /\ a[q] = a[p] + 1
      BY <1>4, <3>1, <3>2, <3>3
    <3>5. k < q
      BY <1>5, <3>4
    <3>6. ~ KeyLess(w, from, a[q], a[k])
      BY <1>8, <2>1, <3>5 DEF KeysSorted
    <3> QED BY <3>3, <3>4, <3>6
  <2>4. KeysSorted(w, from, a2, (C \cup {0}) \cup {P})
    <3> DEFINE Z == C \cup {0}
    <3>1. Z \in SUBSET (0 .. w.n) /\ KeysSorted(w, from, a, Z) /\ P \notin Z
      BY <2>1
    <3>2. \A p \in Z : p < P => ~ KeyLess(w, from, j, a[p])
      BY <2>2
    <3>3. \A p \in Z : P < p => ~ KeyLess(w, from, a[p], j)
      BY <2>3
    <3> HIDE DEF Z
    <3>4. KeysSorted(w, from, a2, Z \cup {P})
      BY <1>1, <1>2, <2>1, <3>1, <3>2, <3>3, SortedPut
    <3> QED BY <3>4 DEF Z
  <2>5. (C \cup {0}) \cup {P} = D \cup {0}
    BY <1>17
  <2> QED BY <2>4, <2>5
<1>26. VectorsOK(w, s2, a2) /\ k - 1 \in -1 .. w.n
  BY <1>1, <1>14 DEF VectorsOK
<1>27. SPassOK(w, from, s2, a2, k - 1)
  BY <1>19, <1>20, <1>21, <1>22, <1>23, <1>24, <1>25, <1>26 DEF SPassOK, D
<1>28. a[P] \in 0 .. w.n => a[P] \in LMSs(w)
  BY <1>3, <1>11, <1>12
<1> QED BY <1>11, <1>27, <1>28

\* As many cells as there are suffixes are all cells.
LEMMA NoCellLeft ==
  ASSUME NEW m \in Nat \ {0}, NEW C \in SUBSET (1 .. m), NEW a,
         \A p \in C : a[p] \in 0 .. m - 1,
         \A j \in 0 .. m - 1 : \E p \in C : a[p] = j
  PROVE  C = 1 .. m
<1> DEFINE f == [p \in C |-> a[p]]
           J == 0 .. m - 1
<1>1. IsFiniteSet(1 .. m) /\ Cardinality(1 .. m) = m
  <2>1. 1 \in Int /\ m \in Int /\ ~ (1 > m) /\ m - 1 + 1 = m
    OBVIOUS
  <2> QED BY <2>1, FS_Interval
<1>2. Cardinality(J) = m
  <2>1. 0 \in Int /\ m - 1 \in Int /\ ~ (0 > m - 1) /\ (m - 1) - 0 + 1 = m
    OBVIOUS
  <2> QED BY <2>1, FS_Interval
<1>3. IsFiniteSet(C) /\ Cardinality(C) \in Nat /\ Cardinality(C) <= m
  BY <1>1, FS_Subset, FS_CardinalityType
<1>4. f \in Surjection(C, J)
  <2>1. f \in [C -> J] /\ \A j \in J : \E p \in C : f[p] = j
    OBVIOUS
  <2> HIDE DEF f, J
  <2> QED BY <2>1, Fun_IsSurj
<1> HIDE DEF f, J
<1>5. Cardinality(J) <= Cardinality(C)
  BY <1>3, <1>4, FS_Surjection
<1>6. Cardinality(C) = Cardinality(1 .. m)
  BY <1>1, <1>2, <1>3, <1>5
<1> QED BY <1>1, <1>6, FS_Subset

\* SInduceSort has put every S suffix.
LEMMA AllSsPut ==
  ASSUME NEW w, SlotsOK(w), NEW from \in Nat, NEW sl, NEW a, SPassOK(w, from, sl, a, -1),
         NEW j \in 0 .. w.n - 1
  PROVE  \E p \in Settled(w, sl, a) : a[p] = j
<1> DEFINE C == Settled(w, sl, a)
           Wrong(x) == ~ \E p \in C : a[p] = x
           T == {z \in Nat : \E x \in 0 .. w.n - 1 : z = w.n - x /\ Wrong(x)}
<1>1. w.n \in Nat \ {0} /\ TextOK(w)
  BY BucketFacts DEF SlotsOK, TextAndCounts
<1>2. /\ \A p \in C : p > -1
      /\ \A i \in 0 .. w.n - 1 : ~ w.stypes[i] => \E p \in C : a[p] = i
      /\ \A i \in 0 .. w.n - 1 :
           w.stypes[i] => ((\E p \in C : a[p] = i) <=> (\E p \in C : p > -1 /\ a[p] = i + 1))
  <2>1. \A p \in C : p > -1
    BY DEF Settled
  <2> QED BY <2>1 DEF SPassOK
<1> HIDE DEF C
<1> SUFFICES ASSUME Wrong(j) PROVE FALSE
  BY DEF C
<1>3. w.n - j \in T
  BY <1>1
<1>4. PICK z \in T : \A y \in T : z <= y
  BY <1>3, LeastElement
<1>5. PICK x \in 0 .. w.n - 1 : z = w.n - x /\ Wrong(x)
  OBVIOUS
<1>6. ASSUME x + 1 \in 0 .. w.n - 1, Wrong(x + 1) PROVE FALSE
  <2>1. w.n - (x + 1) \in T
    <3>1. x + 1 \in 0 .. w.n - 1 /\ Wrong(x + 1) /\ w.n - (x + 1) \in Nat
      BY <1>1, <1>6
    <3> HIDE DEF Wrong
    <3> QED BY <3>1
  <2>2. z <= w.n - (x + 1)
    BY <1>4, <2>1
  <2> QED BY <1>1, <1>5, <2>2
<1> HIDE DEF T
<1>7. w.stypes[x]
  BY <1>2, <1>5
<1>8. x + 1 \in 0 .. w.n - 1
  BY <1>1, <1>7, NextOfS
<1>9. ~ Wrong(x + 1)
  BY <1>6, <1>8
<1> QED BY <1>2, <1>5, <1>7, <1>9

\* At the end of the two passes every suffix is in one cell, in the order of the keys.
LEMMA PassesSort ==
  ASSUME NEW w, SlotsOK(w), NEW from \in Nat, NEW sl, NEW a, SPassOK(w, from, sl, a, -1)
  PROVE  KeysInOrder(w, from, a)
<1> DEFINE C == Settled(w, sl, a)
<1>1. /\ w.n \in Nat \ {0} /\ TextOK(w)
      /\ a \in [0 .. w.n -> Int] /\ a[0] = w.n
      /\ KeysSorted(w, from, a, C \cup {0})
      /\ \A p, q \in C : a[p] = a[q] => p = q
  BY BucketFacts DEF SlotsOK, TextAndCounts, SPassOK, VectorsOK
<1>2. ASSUME NEW p \in C PROVE p \in 1 .. w.n /\ a[p] \in 0 .. w.n - 1 /\ InZone(w, p, a[p])
  <2>1. p \in 1 .. w.n /\ a[p] \in 0 .. w.n
    BY DEF Settled
  <2> QED BY <2>1 DEF SPassOK
<1>3. \A j \in 0 .. w.n - 1 : \E p \in C : a[p] = j
  BY AllSsPut
<1> HIDE DEF C
<1>4. C = 1 .. w.n
  <2>1. w.n \in Nat \ {0} /\ C \in SUBSET (1 .. w.n) /\ \A p \in C : a[p] \in 0 .. w.n - 1
    BY <1>1, <1>2
  <2> DEFINE m == w.n
  <2> HIDE DEF m
  <2>2. /\ m \in Nat \ {0} /\ C \in SUBSET (1 .. m) /\ \A p \in C : a[p] \in 0 .. m - 1
        /\ \A j \in 0 .. m - 1 : \E p \in C : a[p] = j
    BY <1>3, <2>1 DEF m
  <2>3. C = 1 .. m
    BY ONLY <2>2, NoCellLeft
  <2> QED BY <2>3 DEF m
<1>5. ASSUME NEW p \in 0 .. w.n, p # 0 PROVE p \in C
  BY <1>1, <1>4, <1>5
<1>6. a \in [0 .. w.n -> 0 .. w.n]
  <2>1. \A p \in 0 .. w.n : a[p] \in 0 .. w.n
    BY <1>1, <1>2, <1>5
  <2> QED BY <1>1, <2>1
<1>7. ASSUME NEW j \in 0 .. w.n PROVE \E p \in 0 .. w.n : a[p] = j
  <2>1. CASE j = w.n
    BY <1>1, <2>1
  <2>2. CASE j # w.n
    <3>1. j \in 0 .. w.n - 1
      BY <1>1, <2>2
    <3>2. PICK p \in C : a[p] = j
      BY <1>3, <3>1
    <3>3. p \in 0 .. w.n
      BY <1>1, <1>2
    <3> QED BY <3>2, <3>3
  <2> QED BY <2>1, <2>2
<1>8. ASSUME NEW p \in 0 .. w.n, NEW q \in 0 .. w.n, p < q
      PROVE  a[p] # a[q] /\ ~ KeyLess(w, from, a[q], a[p])
  <2>1. q \in C /\ p \in C \cup {0} /\ q \in C \cup {0}
    BY <1>1, <1>5, <1>8
  <2>2. ~ KeyLess(w, from, a[q], a[p])
    BY <1>1, <1>8, <2>1 DEF KeysSorted
  <2>3. a[p] # a[q]
    <3>1. CASE p = 0
      BY <1>1, <1>2, <2>1, <3>1
    <3>2. CASE p # 0
      BY <1>1, <1>5, <1>8, <2>1, <3>2
    <3> QED BY <3>1, <3>2
  <2> QED BY <2>2, <2>3
<1> QED BY <1>1, <1>2, <1>4, <1>6, <1>7, <1>8 DEF KeysInOrder

-----------------------------------------------------------------------------
\* Different suffixes are ordered by their keys, if these have no limit.
LEMMA KeysDecide ==
  ASSUME NEW w, TextOK(w), NEW i \in 0 .. w.n, NEW j \in 0 .. w.n, i # j,
         ~ KeyLess(w, w.n, j, i)
  PROVE  Less(w, i, j)
<1>1. w.n \in Nat /\ w.cont \in [0 .. w.n - 1 -> Int]
  BY DEF TextOK
<1>2. ~ Less(w, j, i)
  BY LessIsKey
<1> QED BY <1>1, <1>2, SuffixTotal DEF Less

\* No suffix has a smaller key than itself.
LEMMA KeyIrreflexive ==
  ASSUME NEW w, TextOK(w), NEW from \in Nat, NEW i \in 0 .. w.n
  PROVE  ~ KeyLess(w, from, i, i)
<1>1. w.n \in Nat /\ w.cont \in [0 .. w.n - 1 -> Int]
  BY DEF TextOK
<1>2. ~ Less(w, i, i)
  BY <1>1, SuffixIrreflexive DEF Less
<1> QED BY <1>2, KeyIsLess

\* The substring of the empty suffix is empty, and no other is.
LEMMA EndOfEmpty ==
  ASSUME NEW w, TextOK(w), NEW j \in 0 .. w.n - 1
  PROVE  ~ SameSub(w, w.n, j)
<1>1. w.n \in Nat
  BY DEF TextOK
<1> DEFINE P(e) == /\ e = w.n \/ (e > w.n /\ LMS(w, e))
                   /\ \A d \in w.n + 1 .. e - 1 : ~ LMS(w, d)
<1>2. SubEnd(w, w.n) = CHOOSE e \in w.n .. w.n : P(e)
  BY DEF SubEnd
<1>3. P(w.n) /\ \A e \in w.n .. w.n : e = w.n
  BY <1>1
<1>4. SubEnd(w, w.n) = w.n
  <2> HIDE DEF P
  <2>1. w.n \in w.n .. w.n
    BY <1>1
  <2> QED BY <1>2, <1>3, <2>1
<1>5. SubEnd(w, j) \in j + 1 .. w.n
  BY EndIs
<1> QED BY <1>1, <1>4, <1>5 DEF SameSub

\* summarizeSA begins with a name for the empty suffix.
LEMMA BeginNames ==
  ASSUME NEW w, TextOK(w), NEW a, KeysInOrder(w, 1, a), NEW inv, inv \notin 0 .. w.n,
         NEW nam, nam = [i \in 0 .. w.n |-> IF i = a[0] THEN 0 ELSE inv]
  PROVE  NamingTo(w, a, nam, 0, a[0], 1)
<1>1. w.n \in Nat \ {0} /\ a[0] = w.n
  BY DEF TextOK, KeysInOrder
<1>2. ScannedLMS(w, a, 1) = {w.n}
  <2>1. \A i : (\E p \in 0 .. 1 - 1 : a[p] = i) <=> i = w.n
    BY <1>1
  <2>2. w.n \in 1 .. w.n /\ LMS(w, w.n)
    BY <1>1, EmptyIsLMS
  <2> QED BY <2>1, <2>2 DEF ScannedLMS
<1>3. nam[w.n] = 0 /\ \A i \in 0 .. w.n : i # w.n => nam[i] = inv
  BY <1>1
<1>4. ~ KeyLess(w, 1, w.n, w.n)
  BY <1>1, KeyIrreflexive
<1>5. /\ 1 \in 1 .. w.n + 1 /\ 0 \in 0 .. w.n /\ \A x \in 0 .. 0 : x = 0
      /\ 0 \in Nat /\ 0 \in 0 .. 0
  BY <1>1
<1> DEFINE S == ScannedLMS(w, a, 1)
<1>6. /\ \A i \in 0 .. w.n : nam[i] \in 0 .. w.n <=> i \in S
      /\ a[0] \in S /\ nam[a[0]] = 0
      /\ \A i \in S : nam[i] \in 0 .. 0 /\ (nam[i] = 0 <=> i = w.n) /\ ~ KeyLess(w, 1, a[0], i)
      /\ \A x \in 0 .. 0 : \E i \in S : nam[i] = x
      /\ \A i, j \in S : nam[i] < nam[j] => KeyLess(w, 1, i, j)
      /\ \A i, j \in S : nam[i] = nam[j] /\ i # w.n => SameSub(w, i, j)
  BY <1>1, <1>2, <1>3, <1>4, <1>5
<1> HIDE DEF S
<1> QED BY <1>5, <1>6 DEF NamingTo, S

\* The naming loop at a suffix that is not LMS.
LEMMA NameSkip ==
  ASSUME NEW w, TextOK(w), NEW a, KeysInOrder(w, 1, a), NEW k \in 1 .. w.n, NEW nam, NEW top, NEW bef,
         NamingTo(w, a, nam, top, bef, k), ~ (a[k] \in 1 .. w.n - 1 /\ LMS(w, a[k]))
  PROVE  NamingTo(w, a, nam, top, bef, k + 1)
<1>1. w.n \in Nat \ {0} /\ k + 1 \in 1 .. w.n + 1
  BY DEF TextOK
<1>2. a[k] \in 0 .. w.n /\ a[k] # w.n
  <2>1. 0 \in 0 .. w.n /\ k \in 0 .. w.n /\ 0 < k
    BY <1>1
  <2>2. a[0] = w.n /\ a[0] # a[k] /\ a[k] \in 0 .. w.n
    BY <2>1 DEF KeysInOrder
  <2> QED BY <2>2
<1>3. ~ (a[k] \in 1 .. w.n /\ LMS(w, a[k]))
  BY <1>1, <1>2
<1>4. ScannedLMS(w, a, k + 1) = ScannedLMS(w, a, k)
  <2>1. \A p \in 0 .. (k + 1) - 1 : p = k \/ p \in 0 .. k - 1
    BY <1>1
  <2>2. \A p \in 0 .. k - 1 : p \in 0 .. (k + 1) - 1
    BY <1>1
  <2> QED BY <1>3, <2>1, <2>2 DEF ScannedLMS
<1> QED BY <1>1, <1>4 DEF NamingTo

\* The naming loop at an LMS suffix.
LEMMA NamePut ==
  ASSUME NEW w, TextOK(w), NEW a, KeysInOrder(w, 1, a), NEW k \in 1 .. w.n,
         NEW nam \in [0 .. w.n -> Int], NEW top, NEW bef, NamingTo(w, a, nam, top, bef, k),
         NEW j, j = a[k], j \in 1 .. w.n - 1, LMS(w, j),
         NEW t2, t2 = IF SameSub(w, bef, j) THEN top ELSE top + 1, t2 <= w.n,
         NEW n2, n2 = [nam EXCEPT ![j] = t2]
  PROVE  NamingTo(w, a, n2, t2, j, k + 1)
<1> DEFINE S == ScannedLMS(w, a, k)
           R == ScannedLMS(w, a, k + 1)
           new == ~ SameSub(w, bef, j)
<1>1. /\ w.n \in Nat \ {0} /\ k + 1 \in 1 .. w.n + 1 /\ j \in 0 .. w.n /\ j \in 1 .. w.n /\ j # w.n
      /\ j \in 0 .. w.n - 1 /\ k \in 0 .. w.n
  BY DEF TextOK
<1>2. /\ \A i \in 0 .. w.n : nam[i] \in 0 .. w.n <=> i \in S
      /\ bef \in S /\ nam[bef] = top /\ top \in Nat
      /\ \A i \in S : nam[i] \in 0 .. top /\ (nam[i] = 0 <=> i = w.n) /\ ~ KeyLess(w, 1, bef, i)
      /\ \A x \in 0 .. top : \E i \in S : nam[i] = x
      /\ \A i, h \in S : nam[i] < nam[h] => KeyLess(w, 1, i, h)
      /\ \A i, h \in S : nam[i] = nam[h] /\ i # w.n => SameSub(w, i, h)
  BY DEF NamingTo
<1>3. ASSUME NEW i \in S
      PROVE  /\ i \in 1 .. w.n /\ i \in 0 .. w.n /\ i # j
             /\ ~ KeyLess(w, 1, j, i)
             /\ i # w.n => i \in 0 .. w.n - 1 /\ SubEnd(w, i) \in Int
  <2>1. i \in 1 .. w.n /\ \E p \in 0 .. k - 1 : a[p] = i
    BY DEF ScannedLMS
  <2>2. PICK p \in 0 .. k - 1 : a[p] = i
    BY <2>1
  <2>3. p \in 0 .. w.n /\ k \in 0 .. w.n /\ p < k
    BY <1>1
  <2>4. a[p] # a[k] /\ ~ KeyLess(w, 1, a[k], a[p])
    BY <2>3 DEF KeysInOrder
  <2>5. i # w.n => i \in 0 .. w.n - 1
    BY <1>1, <2>1
  <2>6. i # w.n => SubEnd(w, i) \in Int
    BY <1>1, <2>5, EndIs
  <2>7. i \in 0 .. w.n
    BY <1>1, <2>1
  <2> QED BY <2>1, <2>2, <2>4, <2>5, <2>6, <2>7
<1>4. R = S \cup {j}
  <2>1. \A p \in 0 .. (k + 1) - 1 : p = k \/ p \in 0 .. k - 1
    BY <1>1
  <2>2. k \in 0 .. (k + 1) - 1 /\ \A p \in 0 .. k - 1 : p \in 0 .. (k + 1) - 1
    BY <1>1
  <2> QED BY <1>1, <2>1, <2>2 DEF ScannedLMS
<1> HIDE DEF S, R
<1>5. n2[j] = t2 /\ \A i \in S : n2[i] = nam[i] /\ i # j
  BY <1>1, <1>3
<1>6. bef \in 0 .. w.n /\ (~ new => bef # w.n) /\ (bef # w.n => top > 0)
  <2>1. ~ new => bef # w.n
    BY <1>1, EndOfEmpty
  <2> QED BY <1>2, <1>3, <2>1
<1>7. new => KeyLess(w, 1, bef, j)
  <2> SUFFICES ASSUME new PROVE KeyLess(w, 1, bef, j)
    OBVIOUS
  <2>1. CASE bef = w.n
    <3>1. 0 \in 0 .. w.n /\ w.n + 0 <= w.n /\ j + 0 <= w.n /\ j + 0 = j /\ w.n + 0 = w.n
      BY <1>1
    <3>2. Code(w, w.n) < Code(w, j)
      <4>1. w.n \in 0 .. w.n /\ Symbol(w, w.n) = -1 /\ Symbol(w, j) >= -1 /\ Symbol(w, j) # -1
        BY <1>1, CodeFacts
      <4>2. Symbol(w, j) \in Int
        BY <1>1, CodeFacts
      <4>3. Symbol(w, w.n) < Symbol(w, j)
        BY <4>1, <4>2
      <4> QED BY <1>1, <4>1, <4>3, CodeFacts
    <3>3. KeyLess(w, 1, w.n, j)
      BY <3>1, <3>2, KeyAt
    <3> QED BY <2>1, <3>3
  <2>2. CASE bef # w.n
    <3>1. bef \in 0 .. w.n - 1 /\ ~ KeyLess(w, 1, j, bef)
      BY <1>2, <1>3, <2>2
    <3> QED BY <1>1, <3>1, SameKey
  <2> QED BY <2>1, <2>2
<1>8. ASSUME NEW i \in S, nam[i] < t2 PROVE KeyLess(w, 1, i, j)
  <2>1. i \in 0 .. w.n /\ 1 \in Nat \ {0}
    BY <1>3
  <2>2. CASE new
    <3>1. KeyLess(w, 1, bef, j) /\ ~ KeyLess(w, 1, bef, i)
      BY <1>2, <1>7, <2>2
    <3> QED BY <1>1, <1>6, <2>1, <3>1, KeyBetween
  <2>3. CASE ~ new
    <3>1. KeyLess(w, 1, i, bef) /\ ~ KeyLess(w, 1, j, bef)
      BY <1>2, <1>3, <1>8, <2>3
    <3> QED BY <1>1, <1>6, <2>1, <3>1, KeyBetween
  <2> QED BY <2>2, <2>3
<1>9. ASSUME NEW i \in S, nam[i] = t2 PROVE i # w.n /\ SameSub(w, i, j) /\ SameSub(w, j, i)
  <2>1. ~ new
    <3>1. nam[i] \in 0 .. top /\ top \in Nat
      BY <1>2
    <3> QED BY <1>9, <3>1
  <2>2. nam[i] = nam[bef] /\ bef # w.n /\ i # w.n
    BY <1>2, <1>6, <1>9, <2>1
  <2>3. SameSub(w, i, bef) /\ SameSub(w, bef, j)
    BY <1>2, <2>1, <2>2
  <2>4. SubEnd(w, i) \in Int /\ SubEnd(w, bef) \in Int /\ SubEnd(w, j) \in Int
    <3>1. SubEnd(w, j) \in j + 1 .. w.n
      BY <1>1, EndIs
    <3> QED BY <1>1, <1>2, <1>3, <2>2, <3>1
  <2>5. i \in Int /\ bef \in Int /\ j \in Int
    BY <1>1, <1>2, <1>3
  <2>6. SameSub(w, i, j)
    BY <2>3, <2>4, <2>5, SameSubEquivalence
  <2>7. SameSub(w, j, i)
    BY <2>4, <2>5, <2>6, SameSubEquivalence
  <2> QED BY <2>2, <2>6, <2>7
<1>10. t2 \in Nat /\ t2 \in 0 .. w.n /\ t2 # 0 /\ top <= t2 /\ t2 <= top + 1
  <2>1. t2 = top \/ t2 = top + 1
    OBVIOUS
  <2>2. ~ new => top > 0 /\ t2 = top
    BY <1>6
  <2>3. new => t2 = top + 1
    OBVIOUS
  <2> QED BY <1>1, <1>2, <2>1, <2>2, <2>3
<1>11. SameSub(w, j, j) /\ ~ KeyLess(w, 1, j, j)
  <2>1. SameSub(w, j, j)
    BY DEF SameSub
  <2> QED BY <1>1, <2>1, KeyIrreflexive
<1> HIDE DEF new
<1>12. ASSUME NEW i \in 0 .. w.n PROVE n2[i] \in 0 .. w.n <=> i \in R
  <2>1. CASE i = j
    BY <1>4, <1>5, <1>10, <2>1
  <2>2. CASE i # j
    BY <1>2, <1>4, <2>2
  <2> QED BY <2>1, <2>2
<1>13. j \in R /\ n2[j] = t2
  BY <1>4, <1>5
<1>14. ASSUME NEW i \in R
       PROVE  n2[i] \in 0 .. t2 /\ (n2[i] = 0 <=> i = w.n) /\ ~ KeyLess(w, 1, j, i)
  <2>1. CASE i = j
    BY <1>1, <1>5, <1>10, <1>11, <2>1
  <2>2. CASE i # j
    <3>1. i \in S /\ n2[i] = nam[i] /\ nam[i] \in 0 .. top
      BY <1>2, <1>4, <1>5, <2>2
    <3>2. nam[i] \in 0 .. t2
      BY <1>2, <1>10, <3>1
    <3> QED BY <1>2, <1>3, <3>1, <3>2
  <2> QED BY <2>1, <2>2
<1>15. ASSUME NEW x \in 0 .. t2 PROVE \E i \in R : n2[i] = x
  <2>1. CASE x = t2
    BY <1>13, <2>1
  <2>2. CASE x # t2
    <3>1. x \in 0 .. top
      BY <1>2, <1>10, <2>2
    <3> QED BY <1>2, <1>4, <1>5, <3>1
  <2> QED BY <2>1, <2>2
<1>16. ASSUME NEW i \in R, NEW h \in R, n2[i] < n2[h] PROVE KeyLess(w, 1, i, h)
  <2>1. CASE i = j
    <3>1. n2[i] = t2 /\ n2[h] \in 0 .. t2
      BY <1>5, <1>14, <2>1
    <3> QED BY <1>10, <1>16, <3>1
  <2>2. CASE i # j /\ h = j
    BY <1>4, <1>5, <1>8, <1>16, <2>2
  <2>3. CASE i # j /\ h # j
    BY <1>2, <1>4, <1>5, <1>16, <2>3
  <2> QED BY <2>1, <2>2, <2>3
<1>17. ASSUME NEW i \in R, NEW h \in R, n2[i] = n2[h], i # w.n PROVE SameSub(w, i, h)
  <2>1. CASE i = j /\ h = j
    BY <1>11, <2>1
  <2>2. CASE i = j /\ h # j
    BY <1>4, <1>5, <1>9, <1>17, <2>2
  <2>3. CASE i # j /\ h = j
    BY <1>4, <1>5, <1>9, <1>17, <2>3
  <2>4. CASE i # j /\ h # j
    BY <1>2, <1>4, <1>5, <1>17, <2>4
  <2> QED BY <2>1, <2>2, <2>3, <2>4
<1> QED BY <1>1, <1>10, <1>12, <1>13, <1>14, <1>15, <1>16, <1>17 DEF NamingTo, R

-----------------------------------------------------------------------------
\* Two LMS positions are not neighbours.
LEMMA ApartLMS ==
  ASSUME NEW w, NEW i \in Int, NEW j \in Int, i < j, LMS(w, i), LMS(w, j)
  PROVE  i + 2 <= j
<1>1. i # j - 1
  BY DEF LMS
<1> QED BY <1>1

\* The collecting loop begins with nothing.
LEMMA BeginCollecting ==
  ASSUME NEW w, TextOK(w), NEW nam
  PROVE  CollectTo(w, nam, << >>, << >>, 0, 0)
<1>1. w.n \in Nat
  BY DEF TextOK
<1>2. << >> \in [0 .. 0 - 1 -> Int]
  OBVIOUS
<1> QED BY <1>1, <1>2 DEF CollectTo

\* The collecting loop at a position that is not LMS.
LEMMA CollectSkip ==
  ASSUME NEW w, TextOK(w), NEW nam, NEW idc, NEW v, NEW s, NEW k \in 0 .. w.n,
         CollectTo(w, nam, idc, v, s, k), k > 0 => ~ LMS(w, k)
  PROVE  CollectTo(w, nam, idc, v, s, k + 1)
<1>1. w.n \in Nat /\ s \in Nat
  BY DEF TextOK, CollectTo
<1>2. ASSUME NEW i \in 1 .. k + 1 - 1, LMS(w, i) PROVE \E x \in 0 .. s - 1 : idc[x] = i
  <2>1. i # k /\ i \in 1 .. k - 1
    BY <1>2
  <2> QED BY <1>2, <2>1 DEF CollectTo
<1>3. \A x \in 0 .. s - 1 : idc[x] \in 1 .. w.n /\ idc[x] < k
  BY DEF CollectTo
<1>4. ASSUME s > 0, NEW d \in idc[s - 1] + 1 .. k + 1 - 1 PROVE ~ LMS(w, d)
  <2>1. s - 1 \in 0 .. s - 1
    BY <1>1, <1>4
  <2>2. idc[s - 1] \in 1 .. w.n /\ idc[s - 1] < k
    BY <1>3, <2>1
  <2>3. CASE d = k
    BY <2>2, <2>3
  <2>4. CASE d # k
    <3>1. d \in idc[s - 1] + 1 .. k - 1
      BY <1>4, <2>2, <2>4
    <3> QED BY <1>4, <3>1 DEF CollectTo
  <2> QED BY <2>3, <2>4
<1>5. \A x \in 0 .. s - 1 : idc[x] < k + 1
  BY <1>1, <1>3
<1>6. k + 1 \in 0 .. w.n + 1
  BY <1>1
<1> QED BY <1>2, <1>4, <1>5, <1>6 DEF CollectTo

\* The collecting loop at an LMS position.
LEMMA CollectPut ==
  ASSUME NEW w, TextOK(w), NEW nam, NEW idc, NEW v, NEW s, NEW k \in 1 .. w.n,
         CollectTo(w, nam, idc, v, s, k), LMS(w, k), nam[k] \in Int,
         NEW i2, i2 = [r \in 0 .. s |-> IF r = s THEN k ELSE idc[r]],
         NEW v2, v2 = [r \in 0 .. s |-> IF r = s THEN nam[k] ELSE v[r]],
         NEW s2, s2 = s + 1
  PROVE  CollectTo(w, nam, i2, v2, s2, k + 1)
<1>1. w.n \in Nat /\ s \in Nat /\ s2 \in Nat /\ s2 - 1 = s /\ s2 - 2 = s - 1
  BY DEF TextOK, CollectTo
<1>2. \A x \in 0 .. s - 1 :
        idc[x] \in 1 .. w.n /\ idc[x] < k /\ LMS(w, idc[x]) /\ v[x] = nam[idc[x]]
  BY DEF CollectTo
<1>3. idc \in [0 .. s - 1 -> Int] /\ v \in [0 .. s - 1 -> Int]
  BY DEF CollectTo
<1>4. \A x \in 0 .. s - 1 : i2[x] = idc[x] /\ v2[x] = v[x]
  BY <1>1
<1>5. i2[s] = k /\ v2[s] = nam[k]
  BY <1>1
<1>6. i2 \in [0 .. s -> Int] /\ v2 \in [0 .. s -> Int]
  BY <1>1, <1>3
<1> HIDE DEF LMS
<1>7. ASSUME NEW x \in 0 .. s
      PROVE  i2[x] \in 1 .. w.n /\ i2[x] < k + 1 /\ LMS(w, i2[x]) /\ v2[x] = nam[i2[x]]
  <2>1. CASE x = s
    BY <1>1, <1>5, <2>1
  <2>2. CASE x # s
    <3>1. x \in 0 .. s - 1
      BY <1>1, <2>2
    <3> QED BY <1>1, <1>2, <1>4, <3>1
  <2> QED BY <2>1, <2>2
<1>8. ASSUME NEW x \in 0 .. s - 1
      PROVE  i2[x] < w.n /\ SubEnd(w, i2[x]) = i2[x + 1]
  <2>1. i2[x] = idc[x] /\ idc[x] \in 1 .. w.n /\ idc[x] < k
    BY <1>2, <1>4
  <2>2. CASE x = s - 1
    <3>1. \A d \in idc[s - 1] + 1 .. k - 1 : ~ LMS(w, d)
      BY <1>1, <2>2 DEF CollectTo
    <3>2. idc[x] \in 0 .. w.n - 1 /\ k \in idc[x] + 1 .. w.n
      BY <1>1, <2>1
    <3>3. \A d \in idc[x] + 1 .. k - 1 : ~ LMS(w, d)
      BY <2>2, <3>1
    <3>4. SubEnd(w, idc[x]) = k
      BY <3>2, <3>3, EndIsUnique
    <3>5. x + 1 = s
      BY <1>1, <2>2
    <3> QED BY <1>1, <1>5, <2>1, <3>4, <3>5
  <2>3. CASE x # s - 1
    <3>1. x \in 0 .. s - 2 /\ x + 1 \in 0 .. s - 1
      BY <1>1, <2>3
    <3>2. idc[x] < w.n /\ SubEnd(w, idc[x]) = idc[x + 1]
      BY <3>1 DEF CollectTo
    <3> QED BY <1>4, <2>1, <3>1, <3>2
  <2> QED BY <2>2, <2>3
<1>9. ASSUME NEW i \in 1 .. k + 1 - 1, LMS(w, i) PROVE \E x \in 0 .. s : i2[x] = i
  <2>1. CASE i = k
    <3>1. s \in 0 .. s
      BY <1>1
    <3> QED BY <1>5, <2>1, <3>1
  <2>2. CASE i # k
    <3>1. i \in 1 .. k - 1
      BY <2>2
    <3>2. PICK x \in 0 .. s - 1 : idc[x] = i
      BY <1>9, <3>1 DEF CollectTo
    <3>3. x \in 0 .. s /\ i2[x] = i
      BY <1>1, <1>4, <3>2
    <3> QED BY <3>3
  <2> QED BY <2>1, <2>2
<1>10. 2 * s2 <= k + 1
  <2>1. CASE s = 0
    BY <2>1
  <2>2. CASE s # 0
    <3>1. s - 1 \in 0 .. s - 1 /\ s > 0
      BY <1>1, <2>2
    <3>2. idc[s - 1] \in Int /\ idc[s - 1] < k /\ LMS(w, idc[s - 1])
      BY <1>2, <3>1
    <3>3. 2 * s <= idc[s - 1] + 1
      BY <3>1 DEF CollectTo
    <3>4. idc[s - 1] + 2 <= k
      BY <3>2, ApartLMS
    <3> QED BY <1>1, <3>2, <3>3, <3>4
  <2> QED BY <2>1, <2>2
<1>11. \A d \in i2[s] + 1 .. k + 1 - 1 : ~ LMS(w, d)
  BY <1>5
<1>12. k + 1 \in 0 .. w.n + 1
  BY <1>1
<1> HIDE DEF SubEnd
<1>13. /\ i2 \in [0 .. s2 - 1 -> Int] /\ v2 \in [0 .. s2 - 1 -> Int]
       /\ \A x \in 0 .. s2 - 1 :
            i2[x] \in 1 .. w.n /\ i2[x] < k + 1 /\ LMS(w, i2[x]) /\ v2[x] = nam[i2[x]]
       /\ \A x \in 0 .. s2 - 2 : i2[x] < w.n /\ SubEnd(w, i2[x]) = i2[x + 1]
       /\ \A i \in 1 .. k + 1 - 1 : LMS(w, i) => \E x \in 0 .. s2 - 1 : i2[x] = i
  BY <1>1, <1>6, <1>7, <1>8, <1>9
<1>14. 2 * s2 <= i2[s2 - 1] + 1 /\ \A d \in i2[s2 - 1] + 1 .. k + 1 - 1 : ~ LMS(w, d)
  BY <1>1, <1>5, <1>10, <1>11
<1>15. s2 \in Nat /\ k + 1 \in 0 .. w.n + 1
  BY <1>1, <1>12
<1> QED BY ONLY <1>13, <1>14, <1>15 DEF CollectTo

\* At the end of the naming loop the positions with a name are the LMS positions.
LEMMA AllScanned ==
  ASSUME NEW w, TextOK(w), NEW a, KeysInOrder(w, 1, a), NEW k \in Int, k > w.n, NEW i \in 1 .. w.n
  PROVE  i \in ScannedLMS(w, a, k) <=> LMS(w, i)
<1>1. w.n \in Nat
  BY DEF TextOK
<1>2. PICK p \in 0 .. w.n : a[p] = i
  BY <1>1 DEF KeysInOrder
<1>3. p \in 0 .. k - 1
  BY <1>1
<1> HIDE DEF LMS
<1> QED BY <1>2, <1>3 DEF ScannedLMS

\* At the end of the collecting loop the summary is a text that names the LMS substrings,
\* of at most half the size of the level.
LEMMA Collected ==
  ASSUME NEW w, TextOK(w), NEW a, KeysInOrder(w, 1, a), NEW k \in Int, k > w.n,
         NEW nam, NEW top, NEW bef, NamingTo(w, a, nam, top, bef, k),
         NEW idc, NEW v, NEW s, CollectTo(w, nam, idc, v, s, k)
  PROVE  /\ LMSIndices(w, idc, s) /\ NamesOK(w, idc, s, v) /\ 2 * s <= w.n + 1
         /\ v \in [0 .. s - 1 -> 0 .. top] /\ top \in Nat
         /\ \A x \in 0 .. top : \E y \in 0 .. s - 1 : v[y] = x
<1> DEFINE scan == ScannedLMS(w, a, k)
<1>1. w.n \in Nat \ {0} /\ k = w.n + 1 /\ s \in Nat /\ top \in Nat
  <2>1. w.n \in Nat \ {0}
    BY DEF TextOK
  <2>2. k \in 0 .. w.n + 1 /\ s \in Nat
    BY DEF CollectTo
  <2>3. top \in Nat
    BY DEF NamingTo
  <2> QED BY <2>1, <2>2, <2>3
<1>2. \A i \in 1 .. w.n : i \in scan <=> LMS(w, i)
  BY AllScanned
<1>3. \A i \in scan : i \in 1 .. w.n
  BY DEF ScannedLMS
<1>4. w.n \in scan
  BY <1>1, <1>2, EmptyIsLMS
<1> HIDE DEF scan
<1>5. /\ \A i \in scan : nam[i] \in 0 .. top /\ (nam[i] = 0 <=> i = w.n)
      /\ \A x \in 0 .. top : \E i \in scan : nam[i] = x
      /\ \A i, j \in scan : nam[i] < nam[j] => KeyLess(w, 1, i, j)
      /\ \A i, j \in scan : nam[i] = nam[j] /\ i # w.n => SameSub(w, i, j)
  BY DEF NamingTo, scan
<1>6. \A x \in 0 .. s - 1 : idc[x] \in 1 .. w.n /\ LMS(w, idc[x]) /\ v[x] = nam[idc[x]]
  BY DEF CollectTo
<1>7. \A x \in 0 .. s - 2 : idc[x] < w.n /\ SubEnd(w, idc[x]) = idc[x + 1]
  BY DEF CollectTo
<1> HIDE DEF LMS, SubEnd, SameSub, KeyLess, Less
<1>8. \A i \in 1 .. w.n : LMS(w, i) => \E x \in 0 .. s - 1 : idc[x] = i
  <2>1. k - 1 = w.n
    BY <1>1
  <2> QED BY <2>1 DEF CollectTo
<1>9. PICK z \in 0 .. s - 1 : idc[z] = w.n
  BY <1>1, <1>2, <1>4, <1>8
<1>10. z = s - 1 /\ s # 0
  <2>1. z \notin 0 .. s - 2
    <3>1. z \in 0 .. s - 2 => idc[z] < w.n
      BY <1>7
    <3> QED BY <1>1, <1>9, <3>1
  <2> QED BY <1>1, <2>1
<1>11. idc[s - 1] = w.n
  BY <1>9, <1>10
<1>12. idc \in [0 .. s - 1 -> 1 .. w.n]
  <2>1. idc \in [0 .. s - 1 -> Int]
    BY DEF CollectTo
  <2> QED BY <1>6, <2>1
<1>13. LMSIndices(w, idc, s)
  <2>1. ASSUME NEW x \in 0 .. s - 2 PROVE idc[x] \in 1 .. w.n - 1 /\ LMS(w, idc[x]) /\ SubEnd(w, idc[x]) = idc[x + 1]
    <3>1. x \in 0 .. s - 1
      BY <1>1
    <3>2. idc[x] \in 1 .. w.n /\ LMS(w, idc[x]) /\ idc[x] < w.n /\ SubEnd(w, idc[x]) = idc[x + 1]
      BY <1>6, <1>7, <3>1
    <3> QED BY <1>1, <3>2
  <2> QED BY <1>1, <1>8, <1>10, <1>11, <1>12, <2>1 DEF LMSIndices
<1>14. \A x \in 0 .. s - 1 : idc[x] \in scan /\ v[x] = nam[idc[x]] /\ v[x] \in 0 .. top
  BY <1>2, <1>5, <1>6
<1>15. v \in [0 .. s - 1 -> 0 .. top]
  <2>1. v \in [0 .. s - 1 -> Int]
    BY DEF CollectTo
  <2> QED BY <1>14, <2>1
<1>16. v[s - 1] = 0
  BY <1>1, <1>5, <1>10, <1>11, <1>14
<1>17. ASSUME NEW x \in 0 .. s - 2 PROVE v[x] > 0 /\ idc[x] # w.n /\ idc[x] \in scan /\ v[x] = nam[idc[x]]
  <2>1. x \in 0 .. s - 1
    BY <1>1
  <2>2. idc[x] # w.n
    BY <1>1, <1>7, <2>1
  <2>3. idc[x] \in scan /\ v[x] = nam[idc[x]] /\ v[x] \in 0 .. top
    BY <1>14, <2>1
  <2>4. v[x] # 0
    BY <1>5, <2>2, <2>3
  <2> QED BY <1>1, <2>2, <2>3, <2>4
<1>18. ASSUME NEW x \in 0 .. s - 1, NEW y \in 0 .. s - 1, v[x] < v[y]
       PROVE  Less(w, idc[x], idc[y])
  <2>1. /\ idc[x] \in scan /\ v[x] = nam[idc[x]]
        /\ idc[y] \in scan /\ v[y] = nam[idc[y]]
    BY <1>14
  <2>2. KeyLess(w, 1, idc[x], idc[y])
    BY <1>5, <1>18, <2>1
  <2>3. idc[x] \in 0 .. w.n /\ idc[y] \in 0 .. w.n
    BY <1>1, <1>3, <2>1
  <2> QED BY <2>2, <2>3, KeyIsLess
<1>19. ASSUME NEW x \in 0 .. s - 2, NEW y \in 0 .. s - 2, v[x] = v[y]
       PROVE  SameSub(w, idc[x], idc[y])
  BY <1>5, <1>17, <1>19
<1>20. v \in [0 .. s - 1 -> Nat]
  BY <1>1, <1>15
<1>21. NamesOK(w, idc, s, v)
  BY <1>16, <1>17, <1>18, <1>19, <1>20 DEF NamesOK
<1>22. \A x \in 0 .. top : \E y \in 0 .. s - 1 : v[y] = x
  <2> TAKE x \in 0 .. top
  <2>1. PICK i \in scan : nam[i] = x
    BY <1>5
  <2>2. PICK y \in 0 .. s - 1 : idc[y] = i
    BY <1>2, <1>3, <1>8, <2>1
  <2> QED BY <1>14, <2>1, <2>2
<1>23. 2 * s <= w.n + 1
  <2>1. s > 0 => 2 * s <= idc[s - 1] + 1
    BY DEF CollectTo
  <2> QED BY <1>1, <1>10, <1>11, <2>1
<1> QED BY <1>1, <1>13, <1>15, <1>21, <1>22, <1>23

-----------------------------------------------------------------------------
\* make_counts has a cell for every symbol, if the alphabet is as large as it is said to be.
LEMMA CountsAre ==
  ASSUME NEW w, TextOK(w), w.sub \in Int, NEW m \in Int,
         w.counts = [c \in 0 .. m - 1 |-> Cardinality({i \in 0 .. w.n - 1 : BucketOf(w, i) = c})],
         \A i \in 0 .. w.n - 1 : BucketOf(w, i) \in 0 .. m - 1
  PROVE  CountsOK(w)
<1>1. w.n \in Nat \ {0}
  BY DEF TextOK
<1>2. m \in Nat
  <2>1. 0 \in 0 .. w.n - 1
    BY <1>1
  <2>2. BucketOf(w, 0) \in 0 .. m - 1
    BY <2>1
  <2> QED BY <2>2
<1>3. \A c : Cardinality(Members(w, c)) \in Nat
  <2> TAKE c
  <2>1. IsFiniteSet(0 .. w.n - 1)
    BY <1>1, FS_Interval
  <2>2. IsFiniteSet(Members(w, c))
    BY <2>1, FS_Subset DEF Members
  <2> QED BY <2>2, FS_CardinalityType
<1>4. w.counts = [c \in 0 .. m - 1 |-> Cardinality(Members(w, c))]
  BY DEF Members
<1> HIDE DEF Members, BucketOf
<1>5. w.counts \in [0 .. m - 1 -> Nat]
  BY <1>3, <1>4
<1>6. DOMAIN w.counts = 0 .. m - 1
  BY <1>4
<1> QED BY <1>2, <1>4, <1>5, <1>6 DEF CountsOK

\* What make_buckets adds up for the next bucket.
LEMMA NextBucket ==
  ASSUME NEW w, TextAndCounts(w), NEW k \in DOMAIN w.counts, BucketsTo(w, k),
         NEW sum, sum = IF k = 0 THEN 0 ELSE w.tails[k - 1]
  PROVE  /\ sum = Cardinality(SmallerSymbols(w, k))
         /\ sum + w.counts[k] = Cardinality(UpTo(w, k))
<1>1. k \in Nat /\ \A i \in 0 .. w.n - 1 : BucketOf(w, i) \in Nat
  BY DEF TextAndCounts, CountsOK
<1>2. sum = Cardinality(SmallerSymbols(w, k))
  <2>1. CASE k = 0
    <3>1. SmallerSymbols(w, k) = {}
      BY <1>1, <2>1 DEF SmallerSymbols
    <3> QED BY <2>1, <3>1, FS_EmptySet
  <2>2. CASE k # 0
    <3>1. SmallerSymbols(w, k) = UpTo(w, k - 1)
      <4> HIDE DEF BucketOf
      <4> QED BY <1>1, <2>2 DEF SmallerSymbols, UpTo
    <3>2. k - 1 \in 0 .. k - 1
      BY <1>1, <2>2
    <3>3. w.tails[k - 1] = Cardinality(UpTo(w, k - 1))
      BY <3>2 DEF BucketsTo
    <3> QED BY <2>2, <3>1, <3>3
  <2> QED BY <2>1, <2>2
<1>3. w.counts[k] = Cardinality(Members(w, k))
  BY DEF TextAndCounts, CountsOK
<1>4. Cardinality(UpTo(w, k)) = Cardinality(SmallerSymbols(w, k)) + Cardinality(Members(w, k))
  BY <1>1, BucketSets
<1> QED BY <1>2, <1>3, <1>4

\* make_buckets pushes the next bucket.
LEMMA MoreBuckets ==
  ASSUME NEW w, TextAndCounts(w), NEW k \in DOMAIN w.counts, BucketsTo(w, k),
         NEW sum, sum = IF k = 0 THEN 0 ELSE w.tails[k - 1],
         NEW u, u.n = w.n, u.cont = w.cont, u.sub = w.sub,
         u.heads = [r \in 0 .. k |-> IF r = k THEN sum + 1 ELSE w.heads[r]],
         u.tails = [r \in 0 .. k |-> IF r = k THEN sum + w.counts[k] ELSE w.tails[r]]
  PROVE  /\ BucketsTo(u, k + 1)
         /\ w.heads \in [0 .. k - 1 -> Int] => u.heads \in [0 .. k -> Int]
         /\ w.tails \in [0 .. k - 1 -> Int] => u.tails \in [0 .. k -> Int]
<1>1. k \in Nat
  BY DEF TextAndCounts, CountsOK
<1>2. \A b : SmallerSymbols(u, b) = SmallerSymbols(w, b) /\ UpTo(u, b) = UpTo(w, b)
  BY DEF SmallerSymbols, UpTo, BucketOf
<1>3. /\ sum = Cardinality(SmallerSymbols(w, k)) /\ sum \in Int
      /\ sum + w.counts[k] = Cardinality(UpTo(w, k)) /\ sum + w.counts[k] \in Int
  <2>1. /\ sum = Cardinality(SmallerSymbols(w, k))
        /\ sum + w.counts[k] = Cardinality(UpTo(w, k))
    BY NextBucket
  <2>2. Cardinality(SmallerSymbols(w, k)) \in Nat /\ Cardinality(UpTo(w, k)) \in Nat
    <3>1. k \in Int
      BY <1>1
    <3> QED BY <3>1, BucketSets
  <2> QED BY <2>1, <2>2
<1> HIDE DEF SmallerSymbols, UpTo
<1>4. ASSUME NEW b \in 0 .. k + 1 - 1
      PROVE  u.heads[b] = Cardinality(SmallerSymbols(u, b)) + 1 /\ u.tails[b] = Cardinality(UpTo(u, b))
  <2>1. CASE b = k
    BY <1>1, <1>2, <1>3, <2>1
  <2>2. CASE b # k
    <3>1. b \in 0 .. k - 1 /\ b \in 0 .. k
      BY <1>1, <2>2
    <3>2. w.heads[b] = Cardinality(SmallerSymbols(w, b)) + 1 /\ w.tails[b] = Cardinality(UpTo(w, b))
      BY <3>1 DEF BucketsTo
    <3> QED BY <1>2, <2>2, <3>1, <3>2
  <2> QED BY <2>1, <2>2
<1>5. w.heads \in [0 .. k - 1 -> Int] => u.heads \in [0 .. k -> Int]
  BY <1>1, <1>3
<1>6. w.tails \in [0 .. k - 1 -> Int] => u.tails \in [0 .. k -> Int]
  <2> SUFFICES ASSUME w.tails \in [0 .. k - 1 -> Int],
                      NEW r \in 0 .. k
               PROVE  (IF r = k THEN sum + w.counts[k] ELSE w.tails[r]) \in Int
    OBVIOUS
  <2>1. r # k => r \in 0 .. k - 1
    BY <1>1
  <2> QED BY <1>3, <2>1
<1>7. BucketsTo(u, k + 1)
  <2>1. 0 .. k + 1 - 1 = 0 .. (k + 1) - 1
    BY <1>1
  <2> QED BY ONLY <1>4, <2>1 DEF BucketsTo
<1> QED BY ONLY <1>5, <1>6, <1>7

\* make_buckets ends.
LEMMA AllBuckets ==
  ASSUME NEW w, TextAndCounts(w), NEW k \in Nat, BucketsTo(w, k),
         k \notin DOMAIN w.counts, k - 1 \in DOMAIN w.counts \cup {-1},
         w.heads \in [0 .. k - 1 -> Int], w.tails \in [0 .. k - 1 -> Int]
  PROVE  SlotsOK(w)
<1>1. PICK m \in Nat : w.counts \in [0 .. m - 1 -> Nat]
  BY DEF TextAndCounts, CountsOK
<1>2. DOMAIN w.counts = 0 .. m - 1
  BY <1>1
<1>3. m = k
  BY <1>2
<1> QED BY <1>2, <1>3 DEF SlotsOK, BucketsOK, BucketsTo
-----------------------------------------------------------------------------
\* Seeding begins with an invalid suffix array and the tails.
LEMMA BeginSeeding ==
  ASSUME NEW w, SlotsOK(w), NEW from, NEW inv \in Int, inv \notin 0 .. w.n,
         NEW a, a = [p \in 0 .. w.n |-> inv]
  PROVE  SeedOK(w, from, w.tails, a, {})
<1>1. w.n \in Nat \ {0}
  BY BucketFacts
<1>2. VectorsOK(w, w.tails, a)
  BY DEF VectorsOK, SlotsOK, BucketsOK
<1>3. \A p \in 0 .. w.n : a[p] \notin 0 .. w.n
  BY <1>1
<1>4. Used(w, a) = {}
  BY <1>3 DEF Used
<1>5. ASSUME NEW b \in DOMAIN w.counts
      PROVE  /\ Border(w, b) <= w.tails[b] /\ w.tails[b] <= w.tails[b]
             /\ w.tails[b] + 1 .. w.tails[b] = {}
  BY BucketFacts
<1>6. 0 \in 0 .. w.n /\ \A p \in 1 .. w.n : p \in 0 .. w.n
  BY <1>1
<1>7. KeysSorted(w, from, a, Used(w, a))
  BY <1>4 DEF KeysSorted
<1> HIDE DEF KeysSorted, Used
<1> QED BY <1>2, <1>3, <1>5, <1>6, <1>7 DEF SeedOK

\* An LMS suffix does not begin with the key of another one, if keys are symbols.
LEMMA FirstKeys ==
  ASSUME NEW w, TextOK(w), NEW i \in LMSs(w), NEW j \in LMSs(w), BucketOf(w, i) = BucketOf(w, j),
         w.sub \in Int
  PROVE  ~ KeyLess(w, 0, i, j)
<1>1. i \in 1 .. w.n - 1 /\ j \in 1 .. w.n - 1 /\ LMS(w, i) /\ w.stypes[i] /\ w.stypes[j]
  BY DEF LMSs, LMS
<1>2. w.n \in Nat /\ i \in 0 .. w.n /\ j \in 0 .. w.n /\ w.cont[i] \in Int /\ w.cont[j] \in Int
  <2>1. w.n \in Nat /\ w.cont \in [0 .. w.n - 1 -> Nat]
    BY DEF TextOK
  <2>2. i \in 0 .. w.n - 1 /\ j \in 0 .. w.n - 1
    BY <1>1, <2>1
  <2> QED BY <2>1, <2>2
<1>3. Symbol(w, i) = Symbol(w, j)
  BY <1>1, <1>2 DEF Symbol, BucketOf
<1>4. ~ (Code(w, i) < Code(w, j))
  <2>1. Symbol(w, i) \in Int
    BY <1>1, <1>2 DEF Symbol
  <2> QED BY <1>1, <1>2, <1>3, <2>1, CodeFacts
<1> QED BY <1>1, <1>2, <1>4, KeyFirst

\* guessSortLMS puts the suffix at k.
LEMMA GuessPut ==
  ASSUME NEW w, SlotsOK(w), NEW sl, NEW a, NEW k \in 1 .. w.n - 1, LMS(w, k),
         NEW Q, \A j : j \in Q <=> j \in LMSs(w) /\ j < k, SeedOK(w, 0, sl, a, Q),
         NEW b, b = BucketOf(w, k), NEW P, P = sl[b],
         NEW s2, s2 = [sl EXCEPT ![b] = @ - 1], NEW a2, a2 = [a EXCEPT ![P] = k]
  PROVE  P \in 1 .. w.n /\ a[P] \notin 0 .. w.n /\ SeedOK(w, 0, s2, a2, Q \cup {k})
<1>1. k \in LMSs(w) /\ k \notin Q /\ TextOK(w) /\ w.sub \in Int
  BY DEF LMSs, SlotsOK, TextAndCounts, CountsOK
<1>2. \A i \in Q : BucketOf(w, i) = BucketOf(w, k) => ~ KeyLess(w, 0, i, k)
  BY <1>1, FirstKeys
<1> HIDE DEF LMSs, LMS
<1> QED BY <1>1, <1>2, SeedStep

\* guessSortLMS at a suffix that is not LMS.
LEMMA GuessSkip ==
  ASSUME NEW w, NEW k \in Int, ~ LMS(w, k)
  PROVE  {j \in LMSs(w) : j < k + 1} = {j \in LMSs(w) : j < k}
<1>1. \A j \in LMSs(w) : j \in Int /\ j # k
  BY DEF LMSs
<1> HIDE DEF LMSs
<1> QED BY <1>1

\* LMSSort puts an LMS suffix, whose key is smaller than those it has put.
LEMMA NextPlaced ==
  ASSUME NEW w, TextOK(w), NEW idc, NEW s, LMSIndices(w, idc, s),
         NEW v, SortsLMS(w, idc, s, v), NEW k \in 2 .. s, NEW j, j = idc[v[k]]
  PROVE  /\ j \in LMSs(w)
         /\ \A p \in k + 1 .. s : idc[v[p]] # j /\ ~ KeyLess(w, w.n, idc[v[p]], j)
<1>1. /\ w.n \in Nat /\ w.cont \in [0 .. w.n - 1 -> Int] /\ s \in Nat
  BY DEF TextOK, LMSIndices
<1>2. /\ \A p \in 1 .. s : v[p] \in 0 .. s - 1
      /\ \A p, q \in 1 .. s : p < q => Less(w, idc[v[p]], idc[v[q]])
      /\ v[1] = s - 1 /\ 1 \in 1 .. s /\ k \in 1 .. s
  <2>1. 1 \in 1 .. s /\ k \in 1 .. s
    BY <1>1
  <2> HIDE DEF Less
  <2> QED BY <2>1 DEF SortsLMS
<1>3. \A x \in 0 .. s - 1 : idc[x] \in 0 .. w.n
  BY <1>1 DEF LMSIndices
<1>4. v[k] # s - 1
  <2>1. Less(w, idc[v[1]], idc[v[k]])
    BY <1>1, <1>2
  <2>2. idc[v[k]] \in 0 .. w.n
    BY <1>2, <1>3
  <2> QED BY <1>1, <1>2, <2>1, <2>2, SuffixIrreflexive DEF Less
<1>5. j \in LMSs(w)
  <2>1. v[k] \in 0 .. s - 2
    BY <1>1, <1>2, <1>4
  <2> QED BY <2>1 DEF LMSIndices, LMSs
<1>6. ASSUME NEW p \in k + 1 .. s PROVE idc[v[p]] # j /\ ~ KeyLess(w, w.n, idc[v[p]], j)
  <2>1. PICK i : i = idc[v[p]]
    OBVIOUS
  <2>2. p \in 1 .. s /\ k < p
    BY <1>1
  <2>3. Less(w, j, i) /\ i \in 0 .. w.n /\ j \in 0 .. w.n
    BY <1>2, <1>3, <2>1, <2>2
  <2>4. ~ Less(w, i, j)
    BY <1>1, <2>3, SuffixAsymmetric DEF Less
  <2>5. i # j
    BY <2>3, <2>4
  <2>6. ~ KeyLess(w, w.n, i, j)
    BY <1>1, <2>3, <2>4, KeyIsLess
  <2> QED BY <2>1, <2>5, <2>6
<1> QED BY <1>5, <1>6

\* LMSSort has put all of them.
LEMMA AllPlacedLMS ==
  ASSUME NEW w, TextOK(w), NEW idc, NEW s, LMSIndices(w, idc, s),
         NEW v, SortsLMS(w, idc, s, v)
  PROVE  {idc[v[p]] : p \in 2 .. s} = LMSs(w)
<1>1. /\ w.n \in Nat /\ w.cont \in [0 .. w.n - 1 -> Int] /\ s \in Nat \ {0}
  BY DEF TextOK, LMSIndices
<1>2. /\ \A p \in 1 .. s : v[p] \in 0 .. s - 1
      /\ \A p, q \in 1 .. s : p < q => Less(w, idc[v[p]], idc[v[q]])
      /\ v[1] = s - 1 /\ 1 \in 1 .. s
  BY <1>1 DEF SortsLMS
<1>3. \A x \in 0 .. s - 1 : idc[x] \in 0 .. w.n
  BY <1>1 DEF LMSIndices
<1>4. ASSUME NEW p \in 2 .. s PROVE idc[v[p]] \in LMSs(w)
  <2>1. Less(w, idc[v[1]], idc[v[p]]) /\ v[p] \in 0 .. s - 1
    BY <1>1, <1>2
  <2>2. idc[v[p]] \in 0 .. w.n
    BY <1>3, <2>1
  <2>3. v[p] # s - 1
    BY <1>1, <1>2, <2>1, <2>2, SuffixIrreflexive DEF Less
  <2>4. v[p] \in 0 .. s - 2
    BY <1>1, <2>1, <2>3
  <2> QED BY <2>4 DEF LMSIndices, LMSs
<1>5. ASSUME NEW j \in LMSs(w) PROVE \E p \in 2 .. s : idc[v[p]] = j
  <2>1. j \in 1 .. w.n /\ j # w.n /\ LMS(w, j)
    BY <1>1 DEF LMSs
  <2>2. PICK x \in 0 .. s - 1 : idc[x] = j
    BY <2>1 DEF LMSIndices
  <2>3. x # s - 1
    BY <2>1, <2>2 DEF LMSIndices
  <2>4. PICK p \in 1 .. s : v[p] = x
    BY DEF SortsLMS
  <2>5. p # 1
    BY <1>2, <2>3, <2>4
  <2>6. p \in 2 .. s
    BY <1>1, <2>5
  <2> QED BY <2>2, <2>4, <2>6
<1> QED BY <1>4, <1>5

-----------------------------------------------------------------------------
\* RetSummarySA: if all names differ, their inverse sorts the LMS suffixes.
LEMMA InvertedNames ==
  ASSUME NEW w, TextOK(w), NEW idc, NEW s, LMSIndices(w, idc, s),
         NEW v, NamesOK(w, idc, s, v), v \in [0 .. s - 1 -> 0 .. s - 1],
         \A x \in 0 .. s - 1 : \E y \in 0 .. s - 1 : v[y] = x,
         NEW u, u = [p \in 0 .. s |->
                       IF \E i \in 0 .. s - 1 : v[i] + 1 = p
                         THEN CHOOSE i \in 0 .. s - 1 : v[i] + 1 = p
                         ELSE s]
  PROVE  SortsLMS(w, idc, s, u)
<1>1. s \in Nat \ {0}
  BY DEF LMSIndices
<1>2. \A x, y \in 0 .. s - 1 : v[x] = v[y] => x = y
  <2> DEFINE S == 0 .. s - 1
  <2>1. IsFiniteSet(S)
    BY <1>1, FS_Interval
  <2>2. v \in Surjection(S, S)
    <3> HIDE DEF S
    <3>1. v \in [S -> S] /\ \A x \in S : \E y \in S : v[y] = x
      BY DEF S
    <3> QED BY <3>1 DEF Surjection
  <2>3. v \in Injection(S, S)
    <3> HIDE DEF S
    <3> QED BY <2>1, <2>2, FS_SurjSameCardinalityImpliesInj
  <2> QED BY <2>3 DEF Injection, IsInjective
<1>3. ASSUME NEW p \in 1 .. s PROVE u[p] \in 0 .. s - 1 /\ v[u[p]] + 1 = p
  <2>1. p - 1 \in 0 .. s - 1 /\ p \in 0 .. s
    BY <1>1
  <2>2. PICK i \in 0 .. s - 1 : v[i] = p - 1
    BY <2>1
  <2>3. v[i] + 1 = p
    BY <2>2
  <2>4. u[p] = CHOOSE j \in 0 .. s - 1 : v[j] + 1 = p
    BY <2>1, <2>3
  <2> QED BY <2>3, <2>4
<1>4. ASSUME NEW p \in 0 .. s PROVE u[p] \in Int
  <2>1. CASE \E i \in 0 .. s - 1 : v[i] + 1 = p
    <3>1. u[p] \in 0 .. s - 1
      BY <2>1
    <3> QED BY <3>1
  <2>2. CASE ~ \E i \in 0 .. s - 1 : v[i] + 1 = p
    BY <1>1, <2>2
  <2> QED BY <2>1, <2>2
<1>5. u \in [0 .. s -> Int]
  BY <1>4
<1>6. \A x \in 0 .. s - 1 : v[x] \in 0 .. s - 1 /\ v[x] \in Int
  <2>1. v \in [0 .. s - 1 -> 0 .. s - 1]
    OBVIOUS
  <2>2. \A x \in 0 .. s - 1 : v[x] \in 0 .. s - 1
    BY ONLY <2>1
  <2> QED BY ONLY <2>2
<1>7. u[1] = s - 1
  <2>1. 1 \in 1 .. s
    BY ONLY <1>1
  <2>2. u[1] \in 0 .. s - 1 /\ v[u[1]] + 1 = 1
    BY ONLY <1>3, <2>1
  <2>3. \A x \in 0 .. s - 2 : v[x] > 0
    BY DEF NamesOK
  <2>4. v[u[1]] = 0
    BY ONLY <1>6, <2>2
  <2>5. u[1] \notin 0 .. s - 2
    BY ONLY <2>3, <2>4
  <2> QED BY ONLY <1>1, <2>2, <2>5
<1>8. ASSUME NEW x \in 0 .. s - 1 PROVE \E p \in 1 .. s : u[p] = x
  <2>1. v[x] \in 0 .. s - 1 /\ v[x] \in Int
    BY ONLY <1>6
  <2>2. v[x] + 1 \in 1 .. s
    BY ONLY <1>1, <2>1
  <2>3. PICK p \in 1 .. s : p = v[x] + 1
    BY ONLY <2>2
  <2>4. u[p] \in 0 .. s - 1 /\ v[u[p]] + 1 = p /\ v[u[p]] \in Int
    BY ONLY <1>3, <1>6
  <2>5. v[u[p]] = v[x]
    BY ONLY <2>1, <2>3, <2>4
  <2>6. u[p] = x
    BY ONLY <1>2, <2>4, <2>5
  <2> QED BY ONLY <2>6
<1>9. ASSUME NEW p \in 1 .. s, NEW q \in 1 .. s, p < q
      PROVE  Less(w, idc[u[p]], idc[u[q]])
  <2>1. u[p] \in 0 .. s - 1 /\ v[u[p]] + 1 = p /\ u[q] \in 0 .. s - 1 /\ v[u[q]] + 1 = q
    BY <1>3
  <2>2. v[u[p]] \in Int /\ v[u[q]] \in Int
    BY ONLY <1>6, <2>1
  <2>3. v[u[p]] < v[u[q]]
    BY ONLY <1>9, <2>1, <2>2
  <2> QED BY <2>1, <2>3 DEF NamesOK
<1>10. \A p \in 1 .. s : u[p] \in 0 .. s - 1
  BY ONLY <1>3
<1> HIDE DEF Less
<1> QED BY ONLY <1>5, <1>7, <1>8, <1>9, <1>10 DEF SortsLMS

\* The suffix array of the summary x sorts the LMS suffixes of the level w.
LEMMA ReturnedOrder ==
  ASSUME NEW w, TextOK(w), NEW x, TextOK(x), Summarizes(w, x.n, x.cont),
         NEW a, KeysInOrder(x, x.n, a), NEW s, s = x.n
  PROVE  SortsLMS(w, w.idc, s, a)
<1>1. /\ s \in Nat \ {0} /\ w.n \in Nat /\ w.cont \in [0 .. w.n - 1 -> Int]
  BY DEF TextOK
<1>2. /\ LMSIndices(w, w.idc, s) /\ Faithful(w, w.idc, s, x.cont)
  BY DEF Summarizes
<1>3. /\ a \in [0 .. s -> 0 .. s] /\ a[0] = s
      /\ \A p \in 1 .. s : a[p] \in 0 .. s - 1
      /\ \A j \in 0 .. s : \E p \in 0 .. s : a[p] = j
      /\ \A p, q \in 0 .. s : p < q => a[p] # a[q] /\ ~ KeyLess(x, x.n, a[q], a[p])
  BY DEF KeysInOrder
<1>4. ASSUME NEW p \in 1 .. s, NEW q \in 1 .. s, p < q
      PROVE  Less(w, w.idc[a[p]], w.idc[a[q]])
  <2>1. p \in 0 .. s /\ q \in 0 .. s
    BY <1>1
  <2>2. a[p] \in 0 .. s - 1 /\ a[q] \in 0 .. s - 1 /\ a[p] \in 0 .. s /\ a[q] \in 0 .. s
    BY <1>3, <2>1
  <2>3. Less(x, a[p], a[q])
    BY <1>3, <1>4, <2>1, <2>2, KeysDecide
  <2> QED BY <1>2, <2>2, <2>3 DEF Faithful, Less
<1>5. \A y \in 0 .. s - 1 : \E p \in 1 .. s : a[p] = y
  <2> TAKE y \in 0 .. s - 1
  <2>1. y \in 0 .. s /\ y # s
    BY ONLY <1>1
  <2>2. PICK p \in 0 .. s : a[p] = y
    BY ONLY <1>3, <2>1
  <2>3. p # 0
    BY ONLY <1>3, <2>1, <2>2
  <2>4. p \in 1 .. s
    BY ONLY <1>1, <2>3
  <2> QED BY ONLY <2>2, <2>4
<1>6. a[1] = s - 1
  <2>1. s - 1 \in 0 .. s - 1
    BY ONLY <1>1
  <2>2. PICK p \in 1 .. s : a[p] = s - 1
    BY ONLY <1>5, <2>1
  <2> SUFFICES ASSUME p # 1 PROVE FALSE
    BY <2>2
  <2>3. 1 \in 1 .. s /\ 1 < p
    BY <1>1
  <2>4. Less(w, w.idc[a[1]], w.idc[a[p]])
    BY <1>4, <2>3
  <2>5. w.idc[a[p]] = w.n /\ w.idc[a[1]] \in 1 .. w.n
    <3>1. a[1] \in 0 .. s - 1
      BY <1>3, <2>3
    <3> QED BY <1>2, <2>2, <3>1 DEF LMSIndices
  <2>6. ~ Less(w, w.n, w.n)
    BY <1>1, SuffixIrreflexive DEF Less
  <2>7. w.idc[a[1]] \in 0 .. w.n - 1
    BY <1>1, <2>4, <2>5, <2>6
  <2>8. Less(w, w.n, w.idc[a[1]])
    BY <1>1, <2>7, EmptyIsLeast DEF Less
  <2>9. w.idc[a[1]] \in 0 .. w.n /\ w.n \in 0 .. w.n
    BY <1>1, <2>7
  <2> QED BY <1>1, <2>4, <2>5, <2>8, <2>9, SuffixAsymmetric DEF Less
<1>7. a \in [0 .. s -> Int]
  BY <1>1, <1>3
<1> HIDE DEF Less
<1> QED BY <1>3, <1>4, <1>5, <1>6, <1>7 DEF SortsLMS

\* Keys without a limit make a suffix array.
LEMMA OrderIsSuffixArray ==
  ASSUME NEW w, TextOK(w), NEW a, KeysInOrder(w, w.n, a)
  PROVE  IsSuffixArray(a, w.cont, w.n)
<1>1. ASSUME NEW p \in 0 .. w.n, NEW q \in 0 .. w.n, p < q
      PROVE  SuffixLess(w.cont, w.n, a[p], a[q])
  <2>1. a[p] \in 0 .. w.n /\ a[q] \in 0 .. w.n /\ a[p] # a[q] /\ ~ KeyLess(w, w.n, a[q], a[p])
    BY <1>1 DEF KeysInOrder
  <2> QED BY <2>1, KeysDecide DEF Less
<1> HIDE DEF Less, KeyLess
<1> QED BY <1>1 DEF KeysInOrder, IsSuffixArray

-----------------------------------------------------------------------------
\* What is said of a level only depends on the vectors it is said of.
LEMMA SameTexts ==
  ASSUME NEW w, TextOK(w), NEW u, u.n = w.n, u.cont = w.cont, u.stypes = w.stypes
  PROVE  /\ TextOK(u)
         /\ \A i, j : Less(u, i, j) <=> Less(w, i, j)
         /\ \A i : LMS(u, i) <=> LMS(w, i)
         /\ \A i \in 0 .. w.n - 1 : SubEnd(u, i) = SubEnd(w, i)
<1>1. TextOK(u)
  BY DEF TextOK
<1>2. \A i, j : Less(u, i, j) <=> Less(w, i, j)
  BY DEF Less
<1>3. \A i : LMS(u, i) <=> LMS(w, i)
  BY DEF LMS
<1>4. ASSUME NEW i \in 0 .. w.n - 1 PROVE SubEnd(u, i) = SubEnd(w, i)
  <2>1. /\ SubEnd(w, i) \in i + 1 .. w.n /\ LMS(w, SubEnd(w, i))
        /\ \A d \in i + 1 .. SubEnd(w, i) - 1 : ~ LMS(w, d)
    BY EndIs
  <2> HIDE DEF LMS, SubEnd
  <2>2. PICK e \in i + 1 .. w.n : e = SubEnd(w, i)
    BY <2>1
  <2>3. LMS(u, e) /\ \A d \in i + 1 .. e - 1 : ~ LMS(u, d)
    BY <1>3, <2>1, <2>2
  <2>4. i \in 0 .. u.n - 1 /\ e \in i + 1 .. u.n
    OBVIOUS
  <2>5. SubEnd(u, i) = e
    BY <1>1, <2>3, <2>4, EndIsUnique
  <2> QED BY <2>2, <2>5
<1> QED BY <1>1, <1>2, <1>3, <1>4

\* ... which are the text and the types for the order of its LMS suffixes ...
LEMMA SameSummary ==
  ASSUME NEW w, TextOK(w), NEW u, u.n = w.n, u.cont = w.cont, u.stypes = w.stypes,
         NEW idc, NEW s, LMSIndices(w, idc, s), NEW v
  PROVE  /\ LMSIndices(u, idc, s)
         /\ SortsLMS(w, idc, s, v) => SortsLMS(u, idc, s, v)
         /\ Faithful(w, idc, s, v) => Faithful(u, idc, s, v)
<1>1. /\ \A i, j : Less(u, i, j) <=> Less(w, i, j)
      /\ \A i : LMS(u, i) <=> LMS(w, i)
      /\ \A i \in 0 .. w.n - 1 : SubEnd(u, i) = SubEnd(w, i)
  BY SameTexts
<1> HIDE DEF Less, LMS, SubEnd
<1>2. LMSIndices(u, idc, s)
  <2>1. w.n \in Nat
    BY DEF TextOK
  <2>2. /\ s \in Nat \ {0} /\ idc \in [0 .. s - 1 -> 1 .. u.n]
        /\ idc[s - 1] = u.n
    BY DEF LMSIndices
  <2>3. ASSUME NEW x \in 0 .. s - 2
        PROVE  idc[x] \in 1 .. u.n - 1 /\ LMS(u, idc[x]) /\ SubEnd(u, idc[x]) = idc[x + 1]
    <3>1. idc[x] \in 1 .. w.n - 1 /\ LMS(w, idc[x]) /\ SubEnd(w, idc[x]) = idc[x + 1]
      BY DEF LMSIndices
    <3>2. idc[x] \in 0 .. w.n - 1
      BY <2>1, <3>1
    <3> QED BY <1>1, <3>1, <3>2
  <2>4. \A i \in 1 .. u.n : LMS(u, i) => \E x \in 0 .. s - 1 : idc[x] = i
    BY <1>1 DEF LMSIndices
  <2> QED BY <2>2, <2>3, <2>4 DEF LMSIndices
<1>3. SortsLMS(w, idc, s, v) => SortsLMS(u, idc, s, v)
  BY <1>1 DEF SortsLMS
<1>4. Faithful(w, idc, s, v) => Faithful(u, idc, s, v)
  BY <1>1 DEF Faithful
<1> QED BY <1>2, <1>3, <1>4

\* ... and the text and the subtrahend for the symbols that are counted.
LEMMA SameCounts ==
  ASSUME NEW w, CountsOK(w), NEW u, u.n = w.n, u.cont = w.cont, u.sub = w.sub, u.counts = w.counts
  PROVE  CountsOK(u)
<1>1. \A i : BucketOf(u, i) = BucketOf(w, i)
  BY DEF BucketOf
<1>2. \A b : Members(u, b) = Members(w, b)
  BY <1>1 DEF Members
<1> HIDE DEF BucketOf, Members
<1> QED BY <1>1, <1>2 DEF CountsOK
=============================================================================
