------------------------------ MODULE LCPFind_proofs ------------------------------
(***************************************************************************)
(* What find_all_infix does with -lcp, for every corpus, suffix array and  *)
(* pattern and whatever is read behind them. The rows of NaiveLCP_LR say   *)
(* how far the entries of make_lcp reach (RowsReach); with exact entries   *)
(* that is how far a prefix is shared (Chain, RowIsExact), so that the     *)
(* window of lower_bound is always the set of the suffixes that share what *)
(* has matched, or what the binary search leaves of it.                    *)
(*                                                                         *)
(* The entries: a comparison that starts no deeper than the common prefix  *)
(* finds it (ExactFrom), one that starts deeper finds no less              *)
(* (AtLeastFrom); and the common prefix of suffix i + 1 is at most one     *)
(* shorter than that of suffix i (NextDepth), so that an exact entry makes *)
(* the next one exact.                                                     *)
(***************************************************************************)
EXTENDS LCPFind, SuffixOrder_proofs

\* Suffixes a and b of t begin with the same x symbols.
Share(t, m, a, b, x) ==
  a + x <= m /\ b + x <= m /\ \A e \in 0 .. x - 1 : t[a + e] = t[b + e]

\* CommonPrefix is the greatest depth that two suffixes share.
LEMMA CommonPrefixIs ==
  ASSUME NEW m \in Nat, NEW t, NEW a \in 0 .. m, NEW b \in 0 .. m
  PROVE  /\ CommonPrefix(t, m, a, b) \in Nat
         /\ \A x \in Nat : Share(t, m, a, b, x) <=> x <= CommonPrefix(t, m, a, b)
<1> DEFINE T == {x \in Nat : a + x >= m \/ b + x >= m \/ t[a + x] # t[b + x]}
           P(x) == /\ a + x <= m /\ b + x <= m
                   /\ \A e \in 0 .. x - 1 : t[a + e] = t[b + e]
                   /\ a + x = m \/ b + x = m \/ t[a + x] # t[b + x]
           c == CommonPrefix(t, m, a, b)
<1>1. m \in T
  OBVIOUS
<1>2. PICK d \in T : \A e \in T : d <= e
  BY <1>1, LeastElement
<1>3. \A e \in 0 .. d - 1 : a + e < m /\ b + e < m /\ t[a + e] = t[b + e]
  BY <1>2
<1>4. d \in Nat /\ (a + d >= m \/ b + d >= m \/ t[a + d] # t[b + d])
  OBVIOUS
<1> HIDE DEF T
<1>5. a + d <= m /\ b + d <= m
  <2>1. CASE d = 0
    BY <2>1
  <2>2. CASE d # 0
    <3>1. d - 1 \in 0 .. d - 1
      BY <1>4, <2>2
    <3>2. a + (d - 1) < m /\ b + (d - 1) < m
      BY <1>3, <3>1
    <3> QED BY <1>4, <3>2
  <2> QED BY <2>1, <2>2
<1>6. d \in 0 .. m /\ P(d)
  BY <1>3, <1>4, <1>5
<1>7. c \in 0 .. m /\ P(c)
  <2>1. c = CHOOSE x \in 0 .. m : P(x)
    BY DEF CommonPrefix
  <2> HIDE DEF P, c
  <2> QED BY <1>6, <2>1
<1> HIDE DEF c
<1>8. ASSUME NEW x \in Nat, x <= c PROVE Share(t, m, a, b, x)
  BY <1>7, <1>8 DEF Share
<1>9. ASSUME NEW x \in Nat, Share(t, m, a, b, x) PROVE x <= c
  <2> SUFFICES ASSUME c < x PROVE FALSE
    BY <1>7
  <2>1. c \in 0 .. x - 1
    BY <1>7
  <2>2. t[a + c] = t[b + c] /\ a + x <= m /\ b + x <= m
    BY <1>9, <2>1 DEF Share
  <2>3. a + c # m /\ b + c # m
    BY <1>7, <2>1, <2>2
  <2> QED BY <1>7, <2>2, <2>3
<1> QED BY <1>7, <1>8, <1>9 DEF c

\* To share the first symbols is symmetric ...
LEMMA ShareSymmetric ==
  ASSUME NEW m \in Nat, NEW t, NEW a \in 0 .. m, NEW b \in 0 .. m, NEW x \in Nat,
         Share(t, m, a, b, x)
  PROVE  Share(t, m, b, a, x)
BY DEF Share

\* ... and transitive.
LEMMA ShareTransitive ==
  ASSUME NEW m \in Nat, NEW t, NEW a \in 0 .. m, NEW b \in 0 .. m, NEW c \in 0 .. m, NEW x \in Nat,
         Share(t, m, a, b, x), Share(t, m, b, c, x)
  PROVE  Share(t, m, a, c, x)
BY DEF Share

\* What lies between two suffixes shares what they share.
LEMMA ShareBetween ==
  ASSUME NEW m \in Nat, NEW t \in [0 .. m - 1 -> Int],
         NEW a \in 0 .. m, NEW b \in 0 .. m, NEW c \in 0 .. m, NEW x \in Nat,
         SuffixLess(t, m, a, b), SuffixLess(t, m, b, c), Share(t, m, a, c, x)
  PROVE  Share(t, m, a, b, x)
<1>1. PICK d \in 0 .. m - a :
        /\ b + d < m
        /\ \A e \in 0 .. d - 1 : t[a + e] = t[b + e]
        /\ a + d = m \/ t[a + d] < t[b + d]
  BY DEF SuffixLess, LexLess
<1>2. PICK f \in 0 .. m - b :
        /\ c + f < m
        /\ \A e \in 0 .. f - 1 : t[b + e] = t[c + e]
        /\ b + f = m \/ t[b + f] < t[c + f]
  BY DEF SuffixLess, LexLess
<1>3. a + x <= m /\ c + x <= m /\ \A e \in 0 .. x - 1 : t[a + e] = t[c + e]
  BY DEF Share
<1>4. ASSUME d < x PROVE FALSE
  <2>1. a + d \in 0 .. m - 1 /\ b + d \in 0 .. m - 1 /\ c + d \in 0 .. m - 1
    BY <1>1, <1>3, <1>4
  <2>2. t[a + d] \in Int /\ t[b + d] \in Int /\ t[c + d] \in Int
    BY <2>1
  <2>3. t[a + d] = t[c + d] /\ t[a + d] < t[b + d]
    BY <1>1, <1>3, <1>4, <2>1
  <2>4. CASE d < f
    <3>1. t[b + d] = t[c + d]
      BY <1>2, <2>4
    <3> QED BY <2>2, <2>3, <3>1
  <2>5. CASE d = f
    <3>1. t[b + d] < t[c + d]
      BY <1>2, <2>1, <2>5
    <3> QED BY <2>2, <2>3, <3>1
  <2>6. CASE f < d
    <3>1. f \in 0 .. d - 1 /\ f \in 0 .. x - 1 /\ b + f # m
      BY <1>1, <1>4, <2>6
    <3>2. t[a + f] = t[b + f] /\ t[a + f] = t[c + f] /\ t[b + f] < t[c + f]
      BY <1>1, <1>2, <1>3, <3>1
    <3>3. b + f \in 0 .. m - 1
      BY <1>1, <1>2, <3>1
    <3>4. t[b + f] \in Int
      BY <3>3
    <3> QED BY <3>2, <3>4
  <2> QED BY <2>4, <2>5, <2>6
<1>5. x <= d
  BY <1>4
<1>6. a + x <= m /\ b + x <= m
  BY <1>1, <1>3, <1>5
<1>7. \A e \in 0 .. x - 1 : e \in 0 .. d - 1
  BY <1>5
<1> QED BY <1>1, <1>6, <1>7 DEF Share

\* Without their first symbol, two suffixes that share it keep their order.
LEMMA WithoutFirstSymbol ==
  ASSUME NEW m \in Nat, NEW t \in [0 .. m - 1 -> Int], NEW a \in 0 .. m, NEW b \in 0 .. m,
         NEW x \in Nat \ {0}, SuffixLess(t, m, a, b), Share(t, m, a, b, x)
  PROVE  /\ a + 1 \in 0 .. m /\ b + 1 \in 0 .. m
         /\ SuffixLess(t, m, a + 1, b + 1)
         /\ Share(t, m, a + 1, b + 1, x - 1)
<1>1. a + x <= m /\ b + x <= m /\ \A e \in 0 .. x - 1 : t[a + e] = t[b + e]
  BY DEF Share
<1>2. PICK d \in 0 .. m - a :
        /\ b + d < m
        /\ \A e \in 0 .. d - 1 : t[a + e] = t[b + e]
        /\ a + d = m \/ t[a + d] < t[b + d]
  BY DEF SuffixLess, LexLess
<1>3. d # 0
  <2> SUFFICES ASSUME d = 0 PROVE FALSE
    OBVIOUS
  <2>1. 0 \in 0 .. x - 1
    OBVIOUS
  <2>2. t[a + 0] = t[b + 0]
    BY <1>1, <2>1
  <2>3. a + 0 # m
    BY <1>1
  <2>4. a + 0 \in 0 .. m - 1
    BY <1>1
  <2>5. t[a + 0] \in Int
    BY <2>4
  <2>6. a + d = a + 0 /\ b + d = b + 0
    OBVIOUS
  <2> QED BY <1>2, <2>2, <2>3, <2>5, <2>6
<1>4. /\ d - 1 \in 0 .. m - (a + 1) /\ b + 1 + (d - 1) < m
      /\ a + 1 + (d - 1) = m \/ t[a + 1 + (d - 1)] < t[b + 1 + (d - 1)]
  BY <1>2, <1>3
<1>5. ASSUME NEW e \in 0 .. (d - 1) - 1 PROVE t[a + 1 + e] = t[b + 1 + e]
  <2>1. t[a + (e + 1)] = t[b + (e + 1)]
    BY <1>2, e + 1 \in 0 .. d - 1
  <2> QED BY <2>1
<1>6. SuffixLess(t, m, a + 1, b + 1)
  BY <1>4, <1>5 DEF SuffixLess, LexLess
<1>7. ASSUME NEW e \in 0 .. (x - 1) - 1 PROVE t[a + 1 + e] = t[b + 1 + e]
  <2>1. t[a + (e + 1)] = t[b + (e + 1)]
    BY <1>1, e + 1 \in 0 .. x - 1
  <2> QED BY <2>1
<1>8. Share(t, m, a + 1, b + 1, x - 1)
  BY <1>1, <1>7 DEF Share
<1> QED BY <1>1, <1>6, <1>8
-----------------------------------------------------------------------------
IndexOK ==
  /\ n \in Nat \ {0} /\ data \in [0 .. n - 1 -> Nat] /\ IsSuffixArray(sa, data, n)
  /\ invSA = MakeInverse(sa, n)

\* The suffix array is a permutation, which invSA inverts.
LEMMA IndexFacts ==
  ASSUME IndexOK
  PROVE  /\ n \in Nat /\ data \in [0 .. n - 1 -> Int] /\ sa \in [0 .. n -> 0 .. n]
         /\ \A p, q \in 0 .. n : p < q <=> SuffixLess(data, n, sa[p], sa[q])
         /\ \A p, q \in 0 .. n : sa[p] = sa[q] => p = q
         /\ \A s \in 0 .. n : \E q \in 0 .. n : sa[q] = s
         /\ \A s \in 0 .. n - 1 : invSA[s] \in 1 .. n /\ sa[invSA[s]] = s
<1>1. /\ n \in Nat /\ n > 0 /\ data \in [0 .. n - 1 -> Int] /\ sa \in [0 .. n -> 0 .. n]
      /\ sa[0] = n /\ \A p, q \in 0 .. n : p < q => SuffixLess(data, n, sa[p], sa[q])
  <2>1. \A s \in 0 .. n - 1 : data[s] \in Int
    BY DEF IndexOK
  <2> QED BY <2>1 DEF IndexOK, IsSuffixArray
<1>2. ASSUME NEW p \in 0 .. n, NEW q \in 0 .. n, SuffixLess(data, n, sa[p], sa[q])
      PROVE  p < q
  <2>1. sa[p] \in 0 .. n /\ sa[q] \in 0 .. n
    BY <1>1
  <2>2. CASE q < p
    <3>1. SuffixLess(data, n, sa[q], sa[p])
      BY <1>1, <2>2
    <3> QED BY <1>1, <1>2, <2>1, <3>1, SuffixAsymmetric
  <2>3. CASE q = p
    BY <1>1, <1>2, <2>1, <2>3, SuffixIrreflexive
  <2> QED BY <2>2, <2>3
<1>3. ASSUME NEW p \in 0 .. n, NEW q \in 0 .. n, sa[p] = sa[q] PROVE p = q
  <2>1. sa[p] \in 0 .. n /\ sa[q] \in 0 .. n
    BY <1>1
  <2>2. ~ SuffixLess(data, n, sa[p], sa[q]) /\ ~ SuffixLess(data, n, sa[q], sa[p])
    BY <1>1, <1>3, <2>1, SuffixIrreflexive
  <2> QED BY <1>1, <2>2
<1>4. \A s \in 0 .. n : \E q \in 0 .. n : sa[q] = s
  <2> DEFINE Cells == 0 .. n
  <2>1. IsFiniteSet(Cells)
    BY <1>1, FS_Interval
  <2>2. sa \in Injection(Cells, Cells)
    BY <1>1, <1>3, Fun_IsInj
  <2> HIDE DEF Cells
  <2>3. sa \in Surjection(Cells, Cells)
    BY <2>1, <2>2, FS_Injection
  <2>4. \A s \in Cells : \E q \in Cells : sa[q] = s
    BY <2>3, Fun_SurjectionProperties DEF Surjection
  <2> QED BY <2>4 DEF Cells
<1>5. ASSUME NEW s \in 0 .. n - 1 PROVE invSA[s] \in 1 .. n /\ sa[invSA[s]] = s
  <2>1. invSA[s] = CHOOSE p \in 1 .. n : sa[p] = s
    <3>1. s \in 0 .. n /\ s # n
      BY <1>1
    <3> QED BY <3>1 DEF IndexOK, MakeInverse
  <2>2. PICK q \in 0 .. n : sa[q] = s
    BY <1>1, <1>4
  <2>3. q \in 1 .. n
    BY <1>1, <2>2
  <2> QED BY <2>1, <2>2, <2>3
<1> QED BY <1>1, <1>2, <1>3, <1>4, <1>5

\* Every suffix but the greatest has a neighbour, and an entry for what they share.
LEMMA EntryIs ==
  ASSUME IndexOK, NEW s \in 0 .. n - 1, s # Greatest
  PROVE  /\ invSA[s] \in 1 .. n - 1
         /\ Neighbour(s) = sa[invSA[s] + 1] /\ Neighbour(s) \in 0 .. n
         /\ SuffixLess(data, n, s, Neighbour(s))
         /\ RightEntry(s) \in Nat
         /\ \A x \in Nat : Share(data, n, s, Neighbour(s), x) <=> x <= RightEntry(s)
<1>1. n \in Nat /\ sa \in [0 .. n -> 0 .. n] /\ invSA[s] \in 1 .. n /\ sa[invSA[s]] = s
  BY IndexFacts
<1>2. invSA[s] # n
  BY <1>1 DEF Greatest
<1>3. invSA[s] \in 1 .. n - 1
  BY <1>1, <1>2, SMTT(30)
<1> DEFINE p == invSA[s]
<1>4. p \in 0 .. n /\ p + 1 \in 0 .. n /\ p < n /\ p < p + 1
  <2>1. n \in Nat /\ p \in 1 .. n /\ p # n
    BY <1>1, <1>2
  <2> HIDE DEF p
  <2> QED BY <2>1
<1>5. Neighbour(s) = sa[p + 1] /\ Neighbour(s) \in 0 .. n
  BY <1>1, <1>4 DEF Neighbour
<1>6. SuffixLess(data, n, s, Neighbour(s))
  <2>1. SuffixLess(data, n, sa[p], sa[p + 1])
    BY <1>4, IndexFacts, SMTT(30)
  <2> QED BY <1>1, <1>5, <2>1
<1>7. (CHOOSE q \in 0 .. n : sa[q] = s) = p
  <2>1. \A q \in 0 .. n : sa[q] = s => q = p
    BY <1>1, <1>4, IndexFacts
  <2> QED BY <1>1, <1>4, <2>1
<1>8. RightEntry(s) = CommonPrefix(data, n, s, Neighbour(s))
  BY <1>5, <1>7 DEF RightEntry
<1>9. s \in 0 .. n
  BY <1>1
<1> QED BY <1>1, <1>3, <1>5, <1>6, <1>8, <1>9, CommonPrefixIs

\* A comparison finds no less than the common prefix, wherever it starts ...
LEMMA AtLeastFrom ==
  ASSUME IndexOK, NEW s \in 0 .. n - 1, s # Greatest, NEW from \in Nat,
         NEW x \in Extensions(s, from)
  PROVE  x \in Nat /\ RightEntry(s) <= x
<1> DEFINE t == Neighbour(s)
           l == RightEntry(s)
<1>1. n \in Nat /\ t \in 0 .. n /\ l \in Nat /\ Share(data, n, s, t, l)
  BY EntryIs, IndexFacts
<1>2. /\ x \in from .. n - s
      /\ s + x < n /\ t + x < n => data[s + x] # data[t + x]
  BY DEF Extensions
<1> HIDE DEF t, l
<1>3. s + l <= n /\ t + l <= n /\ \A e \in 0 .. l - 1 : data[s + e] = data[t + e]
  BY <1>1 DEF Share
<1>4. x < l => x \in 0 .. l - 1 /\ s + x < n /\ t + x < n
  BY <1>1, <1>2, <1>3
<1> QED BY <1>1, <1>2, <1>3, <1>4 DEF l

\* ... and exactly that, if it starts no deeper.
LEMMA ExactFrom ==
  ASSUME IndexOK, NEW s \in 0 .. n - 1, s # Greatest, NEW from \in Nat,
         from <= RightEntry(s), NEW x \in Extensions(s, from)
  PROVE  x = RightEntry(s)
<1> DEFINE t == Neighbour(s)
           l == RightEntry(s)
<1>1. /\ n \in Nat /\ t \in 0 .. n /\ l \in Nat /\ SuffixLess(data, n, s, t)
      /\ data \in [0 .. n - 1 -> Int]
  BY EntryIs, IndexFacts
<1>2. Share(data, n, s, t, l) /\ ~ Share(data, n, s, t, l + 1)
  <2>1. \A y \in Nat : Share(data, n, s, t, y) <=> y <= l
    BY EntryIs
  <2> HIDE DEF t, l
  <2> QED BY <1>1, <2>1
<1>3. /\ x \in from .. n - s /\ x \in Nat /\ l <= x
      /\ \A e \in from .. x - 1 : t + e < n => data[s + e] = data[t + e]
  BY AtLeastFrom DEF Extensions
<1>4. from <= l
  OBVIOUS
<1> HIDE DEF t, l
<1>5. s + l <= n /\ t + l <= n /\ \A e \in 0 .. l - 1 : data[s + e] = data[t + e]
  BY <1>2 DEF Share
<1>6. ASSUME l < x PROVE FALSE
  <2>1. l \in from .. x - 1 /\ s + l < n
    BY <1>1, <1>3, <1>4, <1>6
  <2>2. CASE t + l < n
    <3>1. data[s + l] = data[t + l]
      BY <1>3, <2>1, <2>2
    <3>2. \A e \in 0 .. (l + 1) - 1 : e = l \/ e \in 0 .. l - 1
      BY <1>1
    <3>3. \A e \in 0 .. (l + 1) - 1 : data[s + e] = data[t + e]
      BY <1>5, <3>1, <3>2
    <3> QED BY <1>2, <1>1, <2>1, <2>2, <3>3 DEF Share
  <2>3. CASE t + l = n
    <3>1. PICK d \in 0 .. n - s :
            /\ t + d < n
            /\ s + d = n \/ data[s + d] < data[t + d]
      BY <1>1 DEF SuffixLess, LexLess
    <3>2. d \in 0 .. l - 1 /\ s + d \in 0 .. n - 1 /\ s + d # n
      BY <1>1, <1>5, <2>3, <3>1
    <3>3. data[s + d] = data[t + d] /\ data[s + d] \in Int
      BY <1>1, <1>5, <3>2
    <3> QED BY <3>1, <3>2, <3>3
  <2> QED BY <1>1, <1>5, <2>2, <2>3
<1> QED BY <1>1, <1>3, <1>6 DEF l

\* A suffix whose left neighbour in the text shares something is not the greatest, and
\* shares at most one symbol less.
LEMMA NextDepth ==
  ASSUME IndexOK, NEW s \in 0 .. n - 1, s # Greatest, RightEntry(s) > 0, s + 1 < n
  PROVE  s + 1 # Greatest /\ RightEntry(s) - 1 <= RightEntry(s + 1)
<1> DEFINE t == Neighbour(s)
           x == RightEntry(s)
<1>1. /\ n \in Nat /\ data \in [0 .. n - 1 -> Int] /\ sa \in [0 .. n -> 0 .. n]
      /\ \A p, q \in 0 .. n : p < q <=> SuffixLess(data, n, sa[p], sa[q])
      /\ \A u \in 0 .. n : \E q \in 0 .. n : sa[q] = u
      /\ s + 1 \in 0 .. n - 1
      /\ invSA[s + 1] \in 1 .. n /\ sa[invSA[s + 1]] = s + 1
  <2>1. s + 1 \in 0 .. n - 1
    BY IndexFacts
  <2> QED BY <2>1, IndexFacts
<1>2. /\ s \in 0 .. n /\ t \in 0 .. n /\ x \in Nat \ {0} /\ SuffixLess(data, n, s, t)
      /\ Share(data, n, s, t, x)
  <2>1. /\ t \in 0 .. n /\ x \in Nat /\ SuffixLess(data, n, s, t)
        /\ \A y \in Nat : Share(data, n, s, t, y) <=> y <= x
    BY EntryIs
  <2>2. x > 0 /\ n \in Nat
    BY <1>1
  <2> HIDE DEF t, x
  <2> QED BY <2>1, <2>2
<1> HIDE DEF t, x
<1>3. /\ s + 1 \in 0 .. n /\ t + 1 \in 0 .. n
      /\ SuffixLess(data, n, s + 1, t + 1)
      /\ Share(data, n, s + 1, t + 1, x - 1)
  BY <1>1, <1>2, WithoutFirstSymbol
<1>4. PICK q \in 0 .. n : sa[q] = t + 1
  BY <1>1, <1>3
<1> DEFINE p == invSA[s + 1]
<1>5. p \in 1 .. n /\ p \in 0 .. n /\ p < q
  <2>1. p \in 1 .. n /\ n \in Nat /\ sa[p] = s + 1
    BY <1>1
  <2> HIDE DEF p
  <2>2. p \in 0 .. n
    BY <2>1
  <2>3. SuffixLess(data, n, sa[p], sa[q])
    BY <1>3, <1>4, <2>1
  <2> QED BY <1>1, <2>1, <2>2, <2>3
<1>6. s + 1 # Greatest
  <2> SUFFICES ASSUME s + 1 = sa[n] PROVE FALSE
    BY DEF Greatest
  <2>1. n \in 0 .. n /\ q \in 0 .. n
    BY <1>1
  <2>2. n < q
    BY <1>1, <1>3, <1>4, <2>1
  <2> QED BY <1>1, <2>1, <2>2
<1>7. /\ Neighbour(s + 1) = sa[p + 1] /\ RightEntry(s + 1) \in Nat
      /\ Neighbour(s + 1) \in 0 .. n /\ SuffixLess(data, n, s + 1, Neighbour(s + 1))
      /\ \A y \in Nat : Share(data, n, s + 1, Neighbour(s + 1), y) <=> y <= RightEntry(s + 1)
  BY <1>1, <1>6, EntryIs
<1> HIDE DEF p
<1>8. Share(data, n, s + 1, Neighbour(s + 1), x - 1)
  <2>1. CASE p + 1 = q
    BY <1>3, <1>4, <1>7, <2>1
  <2>2. CASE p + 1 < q
    <3>1. p + 1 \in 0 .. n
      BY <1>1, <1>5, <2>2
    <3>2. SuffixLess(data, n, Neighbour(s + 1), t + 1)
      BY <1>1, <1>4, <1>7, <2>2, <3>1
    <3>3. x - 1 \in Nat
      BY <1>2
    <3> QED BY <1>1, <1>3, <1>7, <3>2, <3>3, ShareBetween
  <2> QED BY <1>5, <2>1, <2>2
<1>9. x - 1 \in Nat
  BY <1>2
<1> QED BY <1>6, <1>7, <1>8, <1>9 DEF x
-----------------------------------------------------------------------------
LoopOK ==
  /\ i \in 0 .. n /\ h \in Nat /\ lcp[0] = 0
  /\ \/ pc = "make_lcp" /\ lcp \in [0 .. n -> Nat]
     \/ pc = "done" /\ lcp \in [0 .. n - 1 -> Nat]

Exact(s) == s # Greatest /\ lcp[invSA[s]] = RightEntry(s)

\* After an exact entry the next comparison starts at the right depth.
DepthOK ==
  pc = "make_lcp" /\ i < n /\ i # Greatest /\ (i = 0 \/ Exact(i - 1)) => h <= RightEntry(i)

ArrayInv == IndexOK /\ LoopOK /\ NeverTooSmall /\ ExactBeforeGreatest /\ Recovers /\ DepthOK

\* The greatest suffix is not the empty one.
LEMMA GreatestIs ==
  ASSUME IndexOK
  PROVE  Greatest \in 0 .. n - 1
<1>1. n \in Nat /\ n > 0 /\ sa \in [0 .. n -> 0 .. n] /\ sa[0] = n
  BY DEF IndexOK, IsSuffixArray
<1>2. n \in 0 .. n /\ 0 \in 0 .. n /\ 0 # n
  BY <1>1
<1>3. sa[n] # sa[0] /\ sa[n] \in 0 .. n
  BY <1>1, <1>2, IndexFacts
<1> QED BY <1>1, <1>3 DEF Greatest

\* make_lcp begins: nothing is written yet.
LEMMA InitInv == Init => ArrayInv
<1> SUFFICES ASSUME Init PROVE ArrayInv
  OBVIOUS
<1>1. IndexOK
  BY IndexesAssumption DEF Init, IndexOK
<1>2. n \in Nat /\ n > 0 /\ i = 0 /\ h = 0 /\ pc = "make_lcp"
  BY <1>1 DEF Init, IndexOK
<1>3. LoopOK
  BY <1>2 DEF Init, LoopOK
<1>4. NeverTooSmall /\ ExactBeforeGreatest /\ Recovers
  <2>1. \A s \in 0 .. i - 1 : FALSE
    BY <1>2
  <2>2. \A s \in Greatest + 1 .. i - 1 : FALSE
    BY <1>1, <1>2, GreatestIs
  <2> QED BY <2>1, <2>2 DEF NeverTooSmall, ExactBeforeGreatest, Recovers
<1>5. DepthOK
  <2>1. ASSUME i # Greatest PROVE RightEntry(i) \in Nat
    BY <1>1, <1>2, <2>1, EntryIs
  <2> QED BY <1>2, <2>1 DEF DepthOK
<1> QED BY <1>1, <1>3, <1>4, <1>5 DEF ArrayInv

\* One entry of make_lcp, with the depth that is carried on from the one before.
LEMMA ExtendStep == ArrayInv /\ Extend => ArrayInv'
<1> SUFFICES ASSUME ArrayInv, Extend PROVE ArrayInv'
  OBVIOUS
<1>1. PICK x \in Extensions(i, h) :
        /\ lcp' = [lcp EXCEPT ![invSA[i]] = x]
        /\ h' = IF x = 0 THEN 0 ELSE x - 1
  BY DEF Extend
<1>2. /\ IndexOK /\ LoopOK /\ pc = "make_lcp" /\ pc' = "make_lcp"
      /\ n \in Nat /\ i \in 0 .. n - 1 /\ i \in Nat /\ h \in Nat /\ i' = i + 1
      /\ lcp \in [0 .. n -> Nat] /\ lcp[0] = 0 /\ i + 1 \in 0 .. n
  <2>1. /\ IndexOK /\ LoopOK /\ pc = "make_lcp" /\ pc' = "make_lcp" /\ i' = i + 1 /\ i < n
        /\ n \in Nat /\ i \in 0 .. n
    BY DEF Extend, ArrayInv, IndexOK, LoopOK
  <2>2. i \in 0 .. n - 1 /\ i + 1 \in 0 .. n /\ i \in Nat
    BY <2>1
  <2> QED BY <2>1, <2>2 DEF LoopOK
<1>3. /\ data' = data /\ n' = n /\ sa' = sa /\ invSA' = invSA
      /\ Greatest' = Greatest /\ \A s : RightEntry(s)' = RightEntry(s)
  BY DEF Extend, Greatest, RightEntry
<1>4. x \in Nat
  BY <1>1, <1>2 DEF Extensions
<1>5. \A s \in 0 .. n - 1 : invSA[s] \in 1 .. n /\ sa[invSA[s]] = s
  BY <1>2, IndexFacts
<1>6. invSA[i] \in 0 .. n /\ invSA[i] # 0
  BY <1>2, <1>5
<1>7. /\ lcp'[invSA[i]] = x
      /\ \A s \in 0 .. i - 1 : lcp'[invSA[s]] = lcp[invSA[s]]
  <2>1. ASSUME NEW s \in 0 .. i - 1 PROVE lcp'[invSA[s]] = lcp[invSA[s]]
    <3>1. s \in 0 .. n - 1 /\ s # i
      BY <1>2
    <3>2. invSA[s] \in 1 .. n /\ invSA[s] # invSA[i]
      BY <1>2, <1>5, <3>1
    <3>3. invSA[s] \in 0 .. n
      BY <1>2, <3>2
    <3> QED BY <1>1, <1>2, <3>2, <3>3
  <2> QED BY <1>1, <1>2, <1>6, <2>1
<1>8. ASSUME i # Greatest
      PROVE  /\ RightEntry(i) \in Nat /\ RightEntry(i) <= x
             /\ h <= RightEntry(i) => x = RightEntry(i)
  BY <1>2, <1>8, EntryIs, AtLeastFrom, ExactFrom
<1>9. \A s \in 0 .. i' - 1 : s = i \/ s \in 0 .. i - 1
  BY <1>2
<1>10. Greatest \in 0 .. n - 1
  BY <1>2, GreatestIs
<1>11. IndexOK'
  BY <1>2, <1>3 DEF IndexOK
<1>12. LoopOK'
  <2>1. lcp' \in [0 .. n -> Nat] /\ lcp'[0] = 0
    BY <1>1, <1>2, <1>4, <1>6
  <2>2. h' \in Nat
    BY <1>1, <1>4
  <2> QED BY <1>2, <1>3, <2>1, <2>2 DEF LoopOK
<1>13. NeverTooSmall'
  <2> SUFFICES ASSUME NEW s \in 0 .. i' - 1, s # Greatest
               PROVE  lcp'[invSA[s]] >= RightEntry(s)
    BY <1>3 DEF NeverTooSmall
  <2>1. CASE s = i
    BY <1>4, <1>7, <1>8, <2>1
  <2>2. CASE s \in 0 .. i - 1
    BY <1>2, <1>7, <2>2 DEF ArrayInv, NeverTooSmall
  <2> QED BY <1>9, <2>1, <2>2
<1>14. ExactBeforeGreatest'
  <2> SUFFICES ASSUME NEW s \in 0 .. i' - 1, s < Greatest
               PROVE  lcp'[invSA[s]] = RightEntry(s)
    BY <1>3 DEF ExactBeforeGreatest
  <2>1. CASE s = i
    <3>1. i # Greatest
      BY <1>2, <1>10, <2>1
    <3>2. i = 0 \/ Exact(i - 1)
      <4> SUFFICES ASSUME i # 0 PROVE Exact(i - 1)
        OBVIOUS
      <4>1. i - 1 \in 0 .. i - 1 /\ i - 1 < Greatest /\ i - 1 # Greatest
        BY <1>2, <1>10, <2>1
      <4> QED BY <1>2, <4>1 DEF ArrayInv, ExactBeforeGreatest, Exact
    <3>3. h <= RightEntry(i)
      BY <1>2, <3>1, <3>2 DEF ArrayInv, DepthOK
    <3> QED BY <1>7, <1>8, <2>1, <3>1, <3>3
  <2>2. CASE s \in 0 .. i - 1
    BY <1>2, <1>7, <2>2 DEF ArrayInv, ExactBeforeGreatest
  <2> QED BY <1>9, <2>1, <2>2
<1>15. Recovers'
  <2> SUFFICES ASSUME NEW s \in Greatest + 1 .. i' - 1, lcp'[invSA[s]] = RightEntry(s),
                      NEW r \in s + 1 .. i' - 1
               PROVE  lcp'[invSA[r]] = RightEntry(r)
    BY <1>3 DEF Recovers
  <2>1. s \in 0 .. i - 1 /\ s \in Greatest + 1 .. i - 1 /\ (r = i \/ r \in s + 1 .. i - 1)
    BY <1>2, <1>10
  <2>2. lcp[invSA[s]] = RightEntry(s)
    BY <1>7, <2>1
  <2>3. \A u \in s + 1 .. i - 1 : lcp[invSA[u]] = RightEntry(u)
    BY <1>2, <2>1, <2>2 DEF ArrayInv, Recovers
  <2>4. CASE r = i
    <3>1. i # Greatest /\ i - 1 # Greatest /\ (i - 1 = s \/ i - 1 \in s + 1 .. i - 1)
      BY <1>2, <1>10, <2>1
    <3>2. Exact(i - 1)
      BY <2>2, <2>3, <3>1 DEF Exact
    <3>3. h <= RightEntry(i)
      BY <1>2, <3>1, <3>2 DEF ArrayInv, DepthOK
    <3> QED BY <1>7, <1>8, <2>4, <3>1, <3>3
  <2>5. CASE r \in s + 1 .. i - 1
    <3>1. r \in 0 .. i - 1
      BY <1>2, <1>10, <2>1, <2>5
    <3> QED BY <1>7, <2>3, <2>5, <3>1
  <2> QED BY <2>1, <2>4, <2>5
<1>16. DepthOK'
  <2> SUFFICES ASSUME i + 1 < n, i + 1 # Greatest, Exact(i - 1)'
               PROVE  h' <= RightEntry(i + 1)
    <3>1. RightEntry(i)' = RightEntry(i + 1)
      BY <1>2, <1>3 DEF RightEntry
    <3>2. i + 1 # 0
      BY <1>2
    <3> QED BY <1>2, <1>3, <3>1, <3>2 DEF DepthOK
  <2>1. i # Greatest /\ x = RightEntry(i)
    <3>1. i' - 1 = i
      BY <1>2
    <3>2. RightEntry(i - 1)' = RightEntry(i)
      BY <1>3, <3>1 DEF RightEntry
    <3> QED BY <1>3, <1>7, <3>1, <3>2 DEF Exact
  <2>2. i + 1 \in 0 .. n - 1
    BY <1>2
  <2>3. RightEntry(i + 1) \in Nat
    BY <1>2, <2>2, EntryIs
  <2>4. x > 0 => x - 1 <= RightEntry(i + 1)
    BY <1>2, <2>1, NextDepth
  <2> QED BY <1>1, <1>4, <2>3, <2>4
<1> QED BY <1>11, <1>12, <1>13, <1>14, <1>15, <1>16 DEF ArrayInv

\* lcp[0] = 0 is kept: a text is not empty.
LEMMA PopBackStep == ArrayInv /\ PopBack => ArrayInv'
<1> SUFFICES ASSUME ArrayInv, PopBack PROVE ArrayInv'
  OBVIOUS
<1>1. /\ pc' = "done" /\ lcp' = [p \in 0 .. n - 1 |-> lcp[p]] /\ pc = "make_lcp"
      /\ data' = data /\ n' = n /\ sa' = sa /\ invSA' = invSA /\ i' = i /\ h' = h
  BY DEF PopBack
<1>2. n \in Nat \ {0} /\ lcp \in [0 .. n -> Nat] /\ lcp[0] = 0
  BY <1>1 DEF ArrayInv, IndexOK, LoopOK
<1>3. IndexOK'
  BY <1>1 DEF ArrayInv, IndexOK
<1>4. LoopOK'
  <2>1. lcp' \in [0 .. n - 1 -> Nat] /\ lcp'[0] = 0
    BY <1>1, <1>2
  <2> QED BY <1>1, <2>1 DEF ArrayInv, LoopOK
<1> QED BY <1>1, <1>3, <1>4 DEF ArrayInv, NeverTooSmall, ExactBeforeGreatest, Recovers, DepthOK

\* A step that leaves the entries alone.
LEMMA StutterStep == ArrayInv /\ UNCHANGED vars => ArrayInv'
<1> SUFFICES ASSUME ArrayInv, UNCHANGED vars PROVE ArrayInv'
  OBVIOUS
<1>1. /\ data' = data /\ n' = n /\ sa' = sa /\ invSA' = invSA
      /\ i' = i /\ h' = h /\ lcp' = lcp /\ pc' = pc
  BY DEF vars
<1>2. Greatest' = Greatest /\ \A s : RightEntry(s)' = RightEntry(s)
  BY <1>1 DEF Greatest, RightEntry
<1>3. IndexOK' /\ LoopOK'
  BY <1>1 DEF ArrayInv, IndexOK, LoopOK
<1>4. NeverTooSmall'
  BY <1>1, <1>2 DEF ArrayInv, NeverTooSmall
<1>5. ExactBeforeGreatest'
  BY <1>1, <1>2 DEF ArrayInv, ExactBeforeGreatest
<1>6. Recovers'
  BY <1>1, <1>2 DEF ArrayInv, Recovers
<1>7. DepthOK'
  <2>1. RightEntry(i)' = RightEntry(i) /\ RightEntry(i - 1)' = RightEntry(i - 1)
    BY <1>1 DEF RightEntry
  <2> QED BY <1>1, <1>2, <2>1 DEF ArrayInv, DepthOK, Exact
<1> QED BY <1>3, <1>4, <1>5, <1>6, <1>7 DEF ArrayInv

\* ArrayInv holds in every state of make_lcp.
LEMMA InvariantHolds == Init /\ [][Next]_vars => []ArrayInv
<1>1. ArrayInv /\ [Next]_vars => ArrayInv'
  BY ExtendStep, PopBackStep, StutterStep DEF Next, Done
<1> QED BY InitInv, <1>1, PTL
-----------------------------------------------------------------------------
\* The row a says how far the prefixes of position p reach to the right ...
RightDone(a, p) ==
  /\ a \in [0 .. lcp[p] - 1 -> p .. n]
  /\ \A d \in 0 .. lcp[p] - 1 : R!Shares(p, a[d], d) /\ (a[d] < n => ~ R!Shares(p, a[d] + 1, d))

\* ... or, in make_lcp_r, as far as j, but for the depths below low: these go on.
RightSoFar(a, p, j, low) ==
  /\ j \in p + 1 .. n /\ low \in Nat
  /\ \A x \in p .. j - 1 : low <= lcp[x]
  /\ a \in [0 .. lcp[p] - 1 -> p .. n]
  /\ \A d \in 0 .. lcp[p] - 1 :
       IF d < low THEN a[d] = j
       ELSE R!Shares(p, a[d], d) /\ a[d] < n /\ ~ R!Shares(p, a[d] + 1, d)

\* The same to the left. The first round of make_lcp_l writes the whole row: what
\* make_lcp_lr_max has put there is of no use.
LeftDone(a, p) ==
  /\ a \in [0 .. lcp[p - 1] - 1 -> 0 .. p]
  /\ \A d \in 0 .. lcp[p - 1] - 1 : R!Shares(a[d], p, d) /\ (a[d] > 0 => ~ R!Shares(a[d] - 1, p, d))

LeftSoFar(a, p, j, low) ==
  /\ j \in -1 .. p - 1 /\ low \in Nat
  /\ j = p - 1 => low = lcp[p - 1]
  /\ \A x \in j + 1 .. p - 1 : low <= lcp[x]
  /\ a \in [0 .. lcp[p - 1] - 1 -> 0 .. p]
  /\ \A d \in 0 .. lcp[p - 1] - 1 :
       IF d < low THEN j = p - 1 \/ a[d] = j + 1
       ELSE R!Shares(a[d], p, d) /\ a[d] > 0 /\ ~ R!Shares(a[d] - 1, p, d)

EntriesOK == n \in Nat \ {0} /\ lcp \in [0 .. n - 1 -> Nat]

RowsOK ==
  /\ EntriesOK
  /\ rpc \in {"rows", "right", "left", "done"} /\ ri \in 1 .. n
  /\ rpc = "right" => ri < n
  /\ lcp_l = [p \in 0 .. n |-> lcp_l[p]] /\ lcp_r = [p \in 0 .. n |-> lcp_r[p]]
  /\ lcp_r[n] = R!Cells(0, 0)
  /\ \A p \in 1 .. n :
       p < ri \/ rpc = "done" => LeftDone(lcp_l[p], p) /\ (p < n => RightDone(lcp_r[p], p))
  /\ rpc = "right" =>
       /\ RightSoFar(lcp_r[ri], ri, rj, min)
       /\ lcp_l[ri] \in [0 .. lcp[ri - 1] - 1 -> 0 .. ri]
  /\ rpc = "left" => LeftSoFar(lcp_l[ri], ri, rj, min) /\ (ri < n => RightDone(lcp_r[ri], ri))

PhaseOK ==
  /\ phase \in {"lcp", "rows", "search", "done", "undefined"}
  /\ phase # "lcp" => pc = "done" /\ RowsOK
  /\ phase \notin {"lcp", "rows"} => rpc = "done"
-----------------------------------------------------------------------------
\* make_lcp_r: a row before its loop, after one more round, and when it returns.
LEMMA RightBegins ==
  ASSUME EntriesOK, NEW p \in 1 .. n - 1
  PROVE  RightSoFar(R!Cells(lcp[p], p + 1), p, p + 1, lcp[p])
<1>1. lcp[p] \in Nat /\ n \in Nat
  BY DEF EntriesOK
<1> QED BY <1>1 DEF R!Cells, RightSoFar

\* A round of the loop for lcp_r.
LEMMA RightGoesOn ==
  ASSUME EntriesOK, NEW p \in 1 .. n - 1, NEW j, NEW low, NEW a,
         RightSoFar(a, p, j, low), j <= n - 1
  PROVE  LET l == R!Lower(lcp[j], low)
         IN  RightSoFar(R!Fill(a, l, j + 1), p, j + 1, l)
<1> DEFINE l == R!Lower(lcp[j], low)
           b == R!Fill(a, l, j + 1)
<1>1. /\ n \in Nat /\ j \in p + 1 .. n - 1 /\ low \in Nat /\ lcp[j] \in Nat /\ lcp[p] \in Nat
      /\ a \in [0 .. lcp[p] - 1 -> p .. n]
  BY DEF EntriesOK, RightSoFar
<1>2. l \in Nat /\ l <= low /\ l <= lcp[j] /\ (l = low \/ l = lcp[j])
  BY <1>1 DEF R!Lower
<1> HIDE DEF l
<1>3. /\ b \in [0 .. lcp[p] - 1 -> p .. n]
      /\ \A d \in 0 .. lcp[p] - 1 : b[d] = IF d < l THEN j + 1 ELSE a[d]
  BY <1>1, <1>2 DEF R!Fill
<1> HIDE DEF b
<1>4. \A x \in p .. (j + 1) - 1 : l <= lcp[x]
  <2> SUFFICES ASSUME NEW x \in p .. (j + 1) - 1 PROVE l <= lcp[x]
    OBVIOUS
  <2>1. x = j \/ x \in p .. j - 1
    BY <1>1
  <2>2. x \in p .. j - 1 => low <= lcp[x] /\ lcp[x] \in Nat
    BY <1>1 DEF RightSoFar, EntriesOK
  <2> QED BY <1>1, <1>2, <2>1, <2>2
<1>5. ASSUME NEW d \in 0 .. lcp[p] - 1, ~ (d < l)
      PROVE  R!Shares(p, b[d], d) /\ b[d] < n /\ ~ R!Shares(p, b[d] + 1, d)
  <2>1. CASE d < low
    <3>1. b[d] = j /\ l = lcp[j] /\ lcp[j] <= d
      BY <1>1, <1>2, <1>3, <1>5, <2>1 DEF RightSoFar
    <3>2. \A x \in p .. j - 1 : lcp[x] > d
      <4> SUFFICES ASSUME NEW x \in p .. j - 1 PROVE lcp[x] > d
        OBVIOUS
      <4>1. low <= lcp[x] /\ lcp[x] \in Nat
        BY <1>1 DEF RightSoFar, EntriesOK
      <4> QED BY <1>1, <2>1, <4>1
    <3>3. j \in p .. (j + 1) - 1 /\ ~ (lcp[j] > d)
      BY <1>1, <3>1
    <3> QED BY <1>1, <3>1, <3>2, <3>3 DEF R!Shares
  <2>2. CASE ~ (d < low)
    BY <1>3, <1>5, <2>2 DEF RightSoFar
  <2> QED BY <2>1, <2>2
<1>6. j + 1 \in p + 1 .. n
  BY <1>1
<1>7. RightSoFar(b, p, j + 1, l)
  BY <1>2, <1>3, <1>4, <1>5, <1>6 DEF RightSoFar
<1> QED BY <1>7 DEF b, l

\* That loop leaves with the reach of the row.
LEMMA RightEnds ==
  ASSUME EntriesOK, NEW p \in 1 .. n - 1, NEW j, NEW low, NEW a,
         RightSoFar(a, p, j, low), j <= n - 1 => lcp[j] = 0
  PROVE  RightDone(a, p)
<1>1. /\ n \in Nat /\ j \in p + 1 .. n /\ low \in Nat /\ lcp[p] \in Nat
      /\ a \in [0 .. lcp[p] - 1 -> p .. n]
  BY DEF EntriesOK, RightSoFar
<1>2. ASSUME NEW d \in 0 .. lcp[p] - 1
      PROVE  R!Shares(p, a[d], d) /\ (a[d] < n => ~ R!Shares(p, a[d] + 1, d))
  <2>1. CASE d < low
    <3>1. a[d] = j
      BY <2>1 DEF RightSoFar
    <3>2. \A x \in p .. j - 1 : lcp[x] > d
      <4> SUFFICES ASSUME NEW x \in p .. j - 1 PROVE lcp[x] > d
        OBVIOUS
      <4>1. low <= lcp[x] /\ lcp[x] \in Nat
        BY <1>1 DEF RightSoFar, EntriesOK
      <4> QED BY <1>1, <2>1, <4>1
    <3>3. j < n => j \in p .. (j + 1) - 1 /\ ~ (lcp[j] > d)
      BY <1>1
    <3> QED BY <1>1, <3>1, <3>2, <3>3 DEF R!Shares
  <2>2. CASE ~ (d < low)
    BY <2>2 DEF RightSoFar
  <2> QED BY <2>1, <2>2
<1> QED BY <1>1, <1>2 DEF RightDone

\* make_lcp_l likewise.
LEMMA LeftBegins ==
  ASSUME EntriesOK, NEW p \in 1 .. n, NEW a \in [0 .. lcp[p - 1] - 1 -> 0 .. p]
  PROVE  LeftSoFar(a, p, p - 1, lcp[p - 1])
<1>1. p - 1 \in 0 .. n - 1 /\ p - 1 \in -1 .. p - 1 /\ n \in Nat
  BY DEF EntriesOK
<1>2. lcp[p - 1] \in Nat
  BY <1>1 DEF EntriesOK
<1>3. \A d \in 0 .. lcp[p - 1] - 1 : d < lcp[p - 1]
  BY <1>2
<1>4. \A x \in (p - 1) + 1 .. p - 1 : FALSE
  BY <1>1
<1> QED BY <1>1, <1>2, <1>3, <1>4 DEF LeftSoFar

\* A round of the loop for lcp_l.
LEMMA LeftGoesOn ==
  ASSUME EntriesOK, NEW p \in 1 .. n, NEW j, NEW low, NEW a,
         LeftSoFar(a, p, j, low), j # -1
  PROVE  LET l == R!Lower(lcp[j], low)
         IN  LeftSoFar(R!Fill(a, l, j), p, j - 1, l)
<1> DEFINE l == R!Lower(lcp[j], low)
           b == R!Fill(a, l, j)
           c == lcp[p - 1]
<1>1. /\ n \in Nat /\ j \in 0 .. p - 1 /\ low \in Nat /\ lcp[j] \in Nat /\ c \in Nat
      /\ a \in [0 .. c - 1 -> 0 .. p]
  <2>1. j \in 0 .. p - 1 /\ n \in Nat
    BY DEF EntriesOK, LeftSoFar
  <2>2. j \in 0 .. n - 1 /\ p - 1 \in 0 .. n - 1
    BY <2>1
  <2> QED BY <2>1, <2>2 DEF EntriesOK, LeftSoFar
<1>2. l \in Nat /\ l <= low /\ l <= lcp[j] /\ (l = low \/ l = lcp[j])
  BY <1>1 DEF R!Lower
<1> HIDE DEF l
<1>3. /\ b \in [0 .. c - 1 -> 0 .. p]
      /\ \A d \in 0 .. c - 1 : b[d] = IF d < l THEN j ELSE a[d]
  <2> HIDE DEF c
  <2>1. j \in 0 .. p
    BY <1>1
  <2> QED BY <1>1, <1>2, <2>1 DEF R!Fill
<1> HIDE DEF b
<1>4. \A x \in (j - 1) + 1 .. p - 1 : l <= lcp[x]
  <2> SUFFICES ASSUME NEW x \in (j - 1) + 1 .. p - 1 PROVE l <= lcp[x]
    OBVIOUS
  <2>1. x = j \/ x \in j + 1 .. p - 1
    BY <1>1
  <2>2. x \in j + 1 .. p - 1 => low <= lcp[x] /\ lcp[x] \in Nat
    BY <1>1 DEF LeftSoFar, EntriesOK
  <2> QED BY <1>1, <1>2, <2>1, <2>2
<1>5. ASSUME NEW d \in 0 .. c - 1, ~ (d < l)
      PROVE  R!Shares(b[d], p, d) /\ b[d] > 0 /\ ~ R!Shares(b[d] - 1, p, d)
  <2>1. CASE d < low
    <3>1. l = lcp[j] /\ lcp[j] <= d /\ d < c
      BY <1>1, <1>2, <1>5, <2>1
    <3>2. j # p - 1
      BY <1>1, <3>1
    <3>3. b[d] = j + 1
      BY <1>3, <1>5, <2>1, <3>2 DEF LeftSoFar
    <3>4. \A x \in j + 1 .. p - 1 : lcp[x] > d
      <4> SUFFICES ASSUME NEW x \in j + 1 .. p - 1 PROVE lcp[x] > d
        OBVIOUS
      <4>1. low <= lcp[x] /\ lcp[x] \in Nat
        BY <1>1 DEF LeftSoFar, EntriesOK
      <4> QED BY <1>1, <2>1, <4>1
    <3>5. j \in (j + 1) - 1 .. p - 1 /\ ~ (lcp[j] > d)
      BY <1>1, <3>1
    <3> QED BY <1>1, <3>3, <3>4, <3>5 DEF R!Shares
  <2>2. CASE ~ (d < low)
    BY <1>3, <1>5, <2>2 DEF LeftSoFar
  <2> QED BY <2>1, <2>2
<1>6. j - 1 \in -1 .. p - 1 /\ j - 1 # p - 1 /\ j = (j - 1) + 1
  BY <1>1
<1>7. LeftSoFar(b, p, j - 1, l)
  BY <1>2, <1>3, <1>4, <1>5, <1>6 DEF LeftSoFar
<1> QED BY <1>7 DEF b, l

\* That loop leaves with the reach of the row.
LEMMA LeftEnds ==
  ASSUME EntriesOK, NEW p \in 1 .. n, NEW j, NEW low, NEW a,
         LeftSoFar(a, p, j, low), j # -1 => lcp[j] = 0
  PROVE  LeftDone(a, p)
<1> DEFINE c == lcp[p - 1]
<1>1. n \in Nat /\ j \in -1 .. p - 1 /\ low \in Nat /\ a \in [0 .. c - 1 -> 0 .. p]
  BY DEF EntriesOK, LeftSoFar
<1>2. c \in Nat
  BY <1>1, p - 1 \in 0 .. n - 1 DEF EntriesOK
<1>3. ASSUME NEW d \in 0 .. c - 1
      PROVE  R!Shares(a[d], p, d) /\ (a[d] > 0 => ~ R!Shares(a[d] - 1, p, d))
  <2>1. CASE d < low
    <3>1. j # p - 1
      BY <1>1, <1>2
    <3>2. a[d] = j + 1
      BY <2>1, <3>1 DEF LeftSoFar
    <3>3. \A x \in j + 1 .. p - 1 : lcp[x] > d
      <4> SUFFICES ASSUME NEW x \in j + 1 .. p - 1 PROVE lcp[x] > d
        OBVIOUS
      <4>1. low <= lcp[x] /\ lcp[x] \in Nat
        BY <1>1 DEF LeftSoFar, EntriesOK
      <4> QED BY <1>1, <1>2, <2>1, <4>1
    <3>4. j + 1 > 0 => j \in (j + 1) - 1 .. p - 1 /\ ~ (lcp[j] > d)
      BY <1>1, <1>2
    <3> QED BY <1>1, <3>2, <3>3, <3>4 DEF R!Shares
  <2>2. CASE ~ (d < low)
    BY <2>2 DEF LeftSoFar
  <2> QED BY <2>1, <2>2
<1> QED BY <1>1, <1>3 DEF LeftDone
-----------------------------------------------------------------------------
\* The entries do not change, and with them neither does what the rows ought to be.
LEMMA EntriesStay ==
  ASSUME lcp' = lcp, n' = n
  PROVE  /\ EntriesOK' = EntriesOK
         /\ \A p : /\ LeftDone(lcp_l[p], p)' = LeftDone(lcp_l'[p], p)
                  /\ RightDone(lcp_r[p], p)' = RightDone(lcp_r'[p], p)
         /\ RightDone(lcp_r[ri], ri)' = RightDone(lcp_r'[ri'], ri')
         /\ RightSoFar(lcp_r[ri], ri, rj, min)' = RightSoFar(lcp_r'[ri'], ri', rj', min')
         /\ LeftSoFar(lcp_l[ri], ri, rj, min)' = LeftSoFar(lcp_l'[ri'], ri', rj', min')
<1>1. EntriesOK' = EntriesOK
  BY DEF EntriesOK
<1>2. ASSUME NEW p
      PROVE  /\ LeftDone(lcp_l[p], p)' = LeftDone(lcp_l'[p], p)
             /\ RightDone(lcp_r[p], p)' = RightDone(lcp_r'[p], p)
  BY DEF LeftDone, RightDone, R!Shares
<1>3. RightDone(lcp_r[ri], ri)' = RightDone(lcp_r'[ri'], ri')
  BY DEF RightDone, R!Shares
<1>4. RightSoFar(lcp_r[ri], ri, rj, min)' = RightSoFar(lcp_r'[ri'], ri', rj', min')
  BY DEF RightSoFar, R!Shares
<1>5. LeftSoFar(lcp_l[ri], ri, rj, min)' = LeftSoFar(lcp_l'[ri'], ri', rj', min')
  BY DEF LeftSoFar, R!Shares
<1> QED BY <1>1, <1>2, <1>3, <1>4, <1>5

\* What a step of NaiveLCP_LR has to show, of the row it works on.
LEMMA RowStep ==
  ASSUME RowsOK, lcp' = lcp, n' = n,
         rpc' \in {"rows", "right", "left", "done"}, ri' \in 1 .. n, rpc' = "right" => ri' < n,
         lcp_l' = [p \in 0 .. n |-> lcp_l'[p]], lcp_r' = [p \in 0 .. n |-> lcp_r'[p]],
         \A p \in 1 .. n : p < ri => lcp_l'[p] = lcp_l[p] /\ lcp_r'[p] = lcp_r[p],
         lcp_r'[n] = lcp_r[n],
         \A p \in 1 .. n :
           (p < ri' \/ rpc' = "done") /\ ~ (p < ri) =>
             LeftDone(lcp_l'[p], p) /\ (p < n => RightDone(lcp_r'[p], p)),
         rpc' = "right" =>
           /\ RightSoFar(lcp_r'[ri'], ri', rj', min')
           /\ lcp_l'[ri'] \in [0 .. lcp[ri' - 1] - 1 -> 0 .. ri'],
         rpc' = "left" =>
           LeftSoFar(lcp_l'[ri'], ri', rj', min') /\ (ri' < n => RightDone(lcp_r'[ri'], ri'))
  PROVE  RowsOK'
<1>1. ASSUME NEW p \in 1 .. n, p < ri' \/ rpc' = "done"
      PROVE  LeftDone(lcp_l'[p], p) /\ (p < n => RightDone(lcp_r'[p], p))
  <2>1. CASE p < ri
    <3>1. LeftDone(lcp_l[p], p) /\ (p < n => RightDone(lcp_r[p], p))
      BY <2>1 DEF RowsOK
    <3> QED BY <2>1, <3>1
  <2> QED BY <1>1, <2>1
<1>2. lcp_r'[n] = R!Cells(0, 0) /\ EntriesOK
  BY DEF RowsOK
<1>3. /\ EntriesOK'
      /\ \A p \in 1 .. n :
           p < ri' \/ rpc' = "done" =>
             LeftDone(lcp_l[p], p)' /\ (p < n => RightDone(lcp_r[p], p)')
      /\ rpc' = "right" => RightSoFar(lcp_r[ri], ri, rj, min)'
      /\ rpc' = "left" =>
           LeftSoFar(lcp_l[ri], ri, rj, min)' /\ (ri' < n => RightDone(lcp_r[ri], ri)')
  BY <1>1, <1>2, EntriesStay
<1> QED BY <1>2, <1>3 DEF RowsOK, R!Cells

\* The next row begins ...
LEMMA BeginRowStep == ASSUME RowsOK, R!BeginRow, UNCHANGED vars PROVE RowsOK'
<1>1. /\ rpc = "rows" /\ ri < (n + 1) - 1 /\ rpc' = "right" /\ ri' = ri /\ rj' = ri + 1
      /\ min' = lcp[ri] /\ lcp' = lcp /\ n' = n
      /\ lcp_l' = [lcp_l EXCEPT ![ri] = R!Cells(lcp[ri - 1], ri - 1)]
      /\ lcp_r' = [lcp_r EXCEPT ![ri] = R!Cells(lcp[ri], ri + 1)]
  BY DEF R!BeginRow, vars
<1>2. /\ EntriesOK /\ n \in Nat /\ ri \in 1 .. n
      /\ lcp_l = [p \in 0 .. n |-> lcp_l[p]] /\ lcp_r = [p \in 0 .. n |-> lcp_r[p]]
  BY DEF RowsOK, EntriesOK
<1>3. ri \in 1 .. n - 1 /\ ri \in 0 .. n /\ n \in 0 .. n
  BY <1>1, <1>2
<1>4. /\ lcp_l' = [p \in 0 .. n |-> lcp_l'[p]] /\ lcp_r' = [p \in 0 .. n |-> lcp_r'[p]]
      /\ \A p \in 0 .. n : p # ri => lcp_l'[p] = lcp_l[p] /\ lcp_r'[p] = lcp_r[p]
      /\ lcp_l'[ri] = R!Cells(lcp[ri - 1], ri - 1) /\ lcp_r'[ri] = R!Cells(lcp[ri], ri + 1)
  BY <1>1, <1>2, <1>3
<1>5. R!Cells(lcp[ri - 1], ri - 1) \in [0 .. lcp[ri - 1] - 1 -> 0 .. ri]
  BY <1>2 DEF R!Cells
<1>6. RightSoFar(lcp_r'[ri'], ri', rj', min')
  BY <1>1, <1>2, <1>3, <1>4, RightBegins
<1>7. /\ \A p \in 1 .. n : p < ri => lcp_l'[p] = lcp_l[p] /\ lcp_r'[p] = lcp_r[p]
      /\ lcp_r'[n] = lcp_r[n]
  BY <1>1, <1>2, <1>3, <1>4
<1>8. lcp_l'[ri'] \in [0 .. lcp[ri' - 1] - 1 -> 0 .. ri']
  BY <1>1, <1>4, <1>5
<1>9. ri < n /\ ri' \in 1 .. n
  BY <1>1, <1>2
<1> QED BY <1>1, <1>4, <1>6, <1>7, <1>8, <1>9, RowStep

\* ... or the last one, which has nothing to its right.
LEMMA BeginLastRowStep == ASSUME RowsOK, R!BeginLastRow, UNCHANGED vars PROVE RowsOK'
<1>1. /\ rpc = "rows" /\ ri = (n + 1) - 1 /\ rpc' = "left" /\ ri' = ri /\ rj' = ri - 1
      /\ min' = lcp[ri - 1] /\ lcp' = lcp /\ n' = n /\ lcp_r' = lcp_r
      /\ lcp_l' = [lcp_l EXCEPT ![ri] = R!Cells(lcp[ri - 1], ri)]
  BY DEF R!BeginLastRow, vars
<1>2. /\ EntriesOK /\ n \in Nat /\ ri \in 1 .. n
      /\ lcp_l = [p \in 0 .. n |-> lcp_l[p]] /\ lcp_r = [p \in 0 .. n |-> lcp_r[p]]
  BY DEF RowsOK, EntriesOK
<1>3. ri = n /\ ri \in 0 .. n
  BY <1>1, <1>2
<1>4. /\ lcp_l' = [p \in 0 .. n |-> lcp_l'[p]] /\ lcp_r' = [p \in 0 .. n |-> lcp_r'[p]]
      /\ \A p \in 0 .. n : p # ri => lcp_l'[p] = lcp_l[p]
      /\ lcp_l'[ri] = R!Cells(lcp[ri - 1], ri)
  BY <1>1, <1>2, <1>3
<1>5. R!Cells(lcp[ri - 1], ri) \in [0 .. lcp[ri - 1] - 1 -> 0 .. ri]
  BY <1>2 DEF R!Cells
<1>6. LeftSoFar(lcp_l'[ri'], ri', rj', min')
  <2>1. lcp_l'[ri] \in [0 .. lcp[ri - 1] - 1 -> 0 .. ri]
    BY <1>4, <1>5
  <2>2. LeftSoFar(lcp_l'[ri], ri, ri - 1, lcp[ri - 1])
    BY <1>2, <2>1, LeftBegins
  <2> QED BY <1>1, <2>2
<1>7. /\ \A p \in 1 .. n : p < ri => lcp_l'[p] = lcp_l[p] /\ lcp_r'[p] = lcp_r[p]
      /\ lcp_r'[n] = lcp_r[n] /\ ~ (ri' < n) /\ ri' \in 1 .. n
  BY <1>1, <1>2, <1>3, <1>4
<1> QED BY <1>1, <1>4, <1>6, <1>7, RowStep

\* The rows so far are kept by the loop for lcp_r ...
LEMMA RightStep == ASSUME RowsOK, R!Right, UNCHANGED vars PROVE RowsOK'
<1> DEFINE l == R!Lower(lcp[rj], min)
<1>1. /\ rpc = "right" /\ rj <= (n + 1) - 2 /\ rpc' = "right" /\ ri' = ri /\ rj' = rj + 1
      /\ min' = l /\ lcp' = lcp /\ n' = n /\ lcp_l' = lcp_l
      /\ lcp_r' = [lcp_r EXCEPT ![ri] = R!Fill(@, l, rj + 1)]
  BY DEF R!Right, vars
<1>2. /\ EntriesOK /\ n \in Nat /\ ri \in 1 .. n /\ ri < n
      /\ lcp_l = [p \in 0 .. n |-> lcp_l[p]] /\ lcp_r = [p \in 0 .. n |-> lcp_r[p]]
      /\ RightSoFar(lcp_r[ri], ri, rj, min)
      /\ lcp_l[ri] \in [0 .. lcp[ri - 1] - 1 -> 0 .. ri]
  BY <1>1 DEF RowsOK, EntriesOK
<1> HIDE DEF l
<1>3. ri \in 1 .. n - 1 /\ ri \in 0 .. n /\ n \in 0 .. n
  BY <1>2
<1>4. /\ lcp_r' = [p \in 0 .. n |-> lcp_r'[p]]
      /\ \A p \in 0 .. n : p # ri => lcp_r'[p] = lcp_r[p]
      /\ lcp_r'[ri] = R!Fill(lcp_r[ri], l, rj + 1)
  BY <1>1, <1>2, <1>3
<1>5. rj \in Int /\ rj <= n - 1
  BY <1>1, <1>2 DEF RightSoFar
<1>6. RightSoFar(lcp_r'[ri'], ri', rj', min')
  BY <1>1, <1>2, <1>3, <1>4, <1>5, RightGoesOn DEF l
<1>7. /\ \A p \in 1 .. n : p < ri => lcp_l'[p] = lcp_l[p] /\ lcp_r'[p] = lcp_r[p]
      /\ lcp_r'[n] = lcp_r[n] /\ ri' \in 1 .. n
  BY <1>1, <1>2, <1>3, <1>4
<1> QED BY <1>1, <1>2, <1>4, <1>6, <1>7, RowStep

\* ... by its end ...
LEMMA EndRightStep == ASSUME RowsOK, R!EndRight, UNCHANGED vars PROVE RowsOK'
<1>1. /\ rpc = "right" /\ (rj <= (n + 1) - 2 => lcp[rj] = 0)
      /\ rpc' = "left" /\ ri' = ri /\ rj' = ri - 1
      /\ min' = lcp[ri - 1] /\ lcp' = lcp /\ n' = n /\ lcp_l' = lcp_l /\ lcp_r' = lcp_r
  BY DEF R!EndRight, vars
<1>2. /\ EntriesOK /\ n \in Nat /\ ri \in 1 .. n /\ ri < n
      /\ lcp_l = [p \in 0 .. n |-> lcp_l[p]] /\ lcp_r = [p \in 0 .. n |-> lcp_r[p]]
      /\ RightSoFar(lcp_r[ri], ri, rj, min)
      /\ lcp_l[ri] \in [0 .. lcp[ri - 1] - 1 -> 0 .. ri]
  BY <1>1 DEF RowsOK, EntriesOK
<1>3. ri \in 1 .. n - 1 /\ (rj <= n - 1 => lcp[rj] = 0)
  BY <1>1, <1>2
<1>4. RightDone(lcp_r'[ri'], ri')
  BY <1>1, <1>2, <1>3, RightEnds
<1>5. LeftSoFar(lcp_l'[ri'], ri', rj', min')
  BY <1>1, <1>2, LeftBegins
<1> QED BY <1>1, <1>2, <1>4, <1>5, RowStep

\* ... by the loop for lcp_l ...
LEMMA LeftStep == ASSUME RowsOK, R!Left, UNCHANGED vars PROVE RowsOK'
<1> DEFINE l == R!Lower(lcp[rj], min)
<1>1. /\ rpc = "left" /\ rj # -1 /\ rpc' = "left" /\ ri' = ri /\ rj' = rj - 1
      /\ min' = l /\ lcp' = lcp /\ n' = n /\ lcp_r' = lcp_r
      /\ lcp_l' = [lcp_l EXCEPT ![ri] = R!Fill(@, l, rj)]
  BY DEF R!Left, vars
<1>2. /\ EntriesOK /\ n \in Nat /\ ri \in 1 .. n
      /\ lcp_l = [p \in 0 .. n |-> lcp_l[p]] /\ lcp_r = [p \in 0 .. n |-> lcp_r[p]]
      /\ LeftSoFar(lcp_l[ri], ri, rj, min) /\ (ri < n => RightDone(lcp_r[ri], ri))
  BY <1>1 DEF RowsOK, EntriesOK
<1> HIDE DEF l
<1>3. ri \in 0 .. n
  BY <1>2
<1>4. /\ lcp_l' = [p \in 0 .. n |-> lcp_l'[p]]
      /\ \A p \in 0 .. n : p # ri => lcp_l'[p] = lcp_l[p]
      /\ lcp_l'[ri] = R!Fill(lcp_l[ri], l, rj)
  BY <1>1, <1>2, <1>3
<1>5. LeftSoFar(lcp_l'[ri'], ri', rj', min')
  BY <1>1, <1>2, <1>4, LeftGoesOn DEF l
<1>6. /\ \A p \in 1 .. n : p < ri => lcp_l'[p] = lcp_l[p] /\ lcp_r'[p] = lcp_r[p]
      /\ lcp_r'[n] = lcp_r[n] /\ ri' \in 1 .. n /\ (ri' < n => RightDone(lcp_r'[ri'], ri'))
  BY <1>1, <1>2, <1>3, <1>4
<1> QED BY <1>1, <1>2, <1>4, <1>5, <1>6, RowStep

\* ... and by its end, which makes the row complete.
LEMMA EndLeftStep == ASSUME RowsOK, R!EndLeft, UNCHANGED vars PROVE RowsOK'
<1>1. /\ rpc = "left" /\ (rj # -1 => lcp[rj] = 0)
      /\ IF ri = (n + 1) - 1 THEN rpc' = "done" /\ ri' = ri ELSE rpc' = "rows" /\ ri' = ri + 1
      /\ lcp' = lcp /\ n' = n /\ lcp_l' = lcp_l /\ lcp_r' = lcp_r
  BY DEF R!EndLeft, vars
<1>2. /\ EntriesOK /\ n \in Nat /\ ri \in 1 .. n
      /\ lcp_l = [p \in 0 .. n |-> lcp_l[p]] /\ lcp_r = [p \in 0 .. n |-> lcp_r[p]]
      /\ LeftSoFar(lcp_l[ri], ri, rj, min) /\ (ri < n => RightDone(lcp_r[ri], ri))
  BY <1>1 DEF RowsOK, EntriesOK
<1>3. LeftDone(lcp_l[ri], ri)
  BY <1>1, <1>2, LeftEnds
<1>4. rpc' \in {"rows", "done"} /\ ri' \in 1 .. n
  BY <1>1, <1>2
<1>5. ASSUME NEW p \in 1 .. n, p < ri' \/ rpc' = "done", ~ (p < ri)
      PROVE  LeftDone(lcp_l'[p], p) /\ (p < n => RightDone(lcp_r'[p], p))
  <2>1. p = ri
    BY <1>1, <1>2, <1>5
  <2> QED BY <1>1, <1>2, <1>3, <2>1
<1> QED BY <1>1, <1>2, <1>4, <1>5, RowStep

\* The rest of the program leaves NaiveLCP_LR and its input alone.
LEMMA RowsRest ==
  ASSUME RowsOK, UNCHANGED <<n, lcp, rowVars>>
  PROVE  RowsOK'
<1>1. /\ rpc' = rpc /\ ri' = ri /\ rj' = rj /\ min' = min
      /\ lcp' = lcp /\ n' = n /\ lcp_l' = lcp_l /\ lcp_r' = lcp_r
  BY DEF rowVars
<1>2. /\ rpc \in {"rows", "right", "left", "done"} /\ ri \in 1 .. n /\ (rpc = "right" => ri < n)
      /\ lcp_l = [p \in 0 .. n |-> lcp_l[p]] /\ lcp_r = [p \in 0 .. n |-> lcp_r[p]]
      /\ rpc = "right" =>
           RightSoFar(lcp_r[ri], ri, rj, min) /\ lcp_l[ri] \in [0 .. lcp[ri - 1] - 1 -> 0 .. ri]
      /\ rpc = "left" =>
           LeftSoFar(lcp_l[ri], ri, rj, min) /\ (ri < n => RightDone(lcp_r[ri], ri))
  BY DEF RowsOK
<1>3. ASSUME NEW p \in 1 .. n, p < ri' \/ rpc' = "done", ~ (p < ri)
      PROVE  LeftDone(lcp_l'[p], p) /\ (p < n => RightDone(lcp_r'[p], p))
  BY <1>1, <1>3 DEF RowsOK
<1> QED BY <1>1, <1>2, <1>3, RowStep

\* make_lcp_lr begins without a row.
LEMMA StartRowsStep == ASSUME ArrayInv, StartRows PROVE RowsOK'
<1>1. /\ lcp' = lcp /\ n' = n /\ pc = "done"
      /\ lcp_l' = R!FirstRow /\ lcp_r' = R!FirstRow /\ ri' = 1 /\ rpc' = "rows"
  BY DEF StartRows, vars
<1>2. EntriesOK
  BY <1>1 DEF ArrayInv, IndexOK, LoopOK, EntriesOK
<1>3. n \in Nat /\ n > 0
  BY <1>2 DEF EntriesOK
<1>4. R!FirstRow = [p \in 0 .. n |-> IF p = 0 THEN R!Cells(1, 0) ELSE R!Cells(0, 0)]
  <2>1. (n + 1) - 1 = n
    BY <1>3
  <2> QED BY <2>1 DEF R!FirstRow
<1>5. /\ lcp_l' = [p \in 0 .. n |-> lcp_l'[p]] /\ lcp_r' = [p \in 0 .. n |-> lcp_r'[p]]
      /\ lcp_r'[n] = R!Cells(0, 0)
  BY <1>1, <1>3, <1>4
<1>6. EntriesOK' /\ ri' \in 1 .. n /\ \A p \in 1 .. n : ~ (p < ri')
  BY <1>1, <1>2, <1>3 DEF EntriesOK
<1> QED BY <1>1, <1>5, <1>6 DEF RowsOK, R!Cells
-----------------------------------------------------------------------------
\* LCP does in the whole what it does alone.
LEMMA ArrayInvHolds == FindSpec => []ArrayInv
<1>1. FindInit => Init
  BY DEF FindInit
<1>2. [FindNext]_findVars => [Next]_vars
  BY DEF FindNext, MakeLcp, StartRows, MakeRows, StartSearch, Search, FindDone, findVars, Next, vars
<1> QED BY <1>1, <1>2, InvariantHolds, PTL DEF FindSpec

\* init begins with the entries.
LEMMA PhaseInit == FindInit => PhaseOK
BY DEF FindInit, PhaseOK

\* The entries, then the rows, then the search: no phase touches what an earlier one made.
LEMMA PhaseStep == ASSUME ArrayInv, PhaseOK, [FindNext]_findVars PROVE PhaseOK'
<1>1. CASE MakeLcp
  BY <1>1 DEF MakeLcp, PhaseOK
<1>2. CASE StartRows
  BY <1>2, StartRowsStep DEF StartRows, PhaseOK, vars
<1>3. CASE MakeRows
  <2>1. RowsOK /\ UNCHANGED vars /\ phase = "rows" /\ phase' = phase /\ pc = "done"
    BY <1>3 DEF MakeRows, PhaseOK
  <2>2. RowsOK'
    BY <1>3, <2>1, BeginRowStep, BeginLastRowStep, RightStep, EndRightStep, LeftStep, EndLeftStep
    DEF MakeRows
  <2> QED BY <2>1, <2>2 DEF PhaseOK, vars
<1>4. CASE StartSearch
  <2>1. /\ RowsOK /\ pc = "done" /\ pc' = pc /\ rpc = "done" /\ rpc' = rpc /\ phase' = "search"
        /\ UNCHANGED <<n, lcp, rowVars>>
    BY <1>4 DEF StartSearch, PhaseOK, vars, rowVars
  <2> QED BY <2>1, RowsRest DEF PhaseOK
<1>5. CASE Search
  <2>1. phase = "search" /\ phase' \in {"search", "done", "undefined"}
    BY <1>5 DEF Search, S!Probe, S!RunsAway, S!GiveUp, S!Match, S!Narrow, S!Halve
  <2>2. /\ RowsOK /\ pc = "done" /\ pc' = pc /\ rpc = "done" /\ rpc' = rpc
        /\ UNCHANGED <<n, lcp, rowVars>>
    BY <1>5, <2>1 DEF Search, PhaseOK, vars, rowVars
  <2> QED BY <2>1, <2>2, RowsRest DEF PhaseOK
<1>6. CASE FindDone \/ UNCHANGED findVars
  <2>1. pc' = pc /\ rpc' = rpc /\ phase' = phase /\ UNCHANGED <<n, lcp, rowVars>>
    BY <1>6 DEF FindDone, findVars, vars, rowVars
  <2> QED BY <2>1, RowsRest DEF PhaseOK
<1> QED BY <1>1, <1>2, <1>3, <1>4, <1>5, <1>6 DEF FindNext

\* PhaseOK holds in every state.
LEMMA PhaseHolds == FindSpec => []PhaseOK
BY PhaseInit, PhaseStep, ArrayInvHolds, PTL DEF FindSpec

\* For every corpus no entry of make_lcp is smaller than the common prefix of the
\* neighbours, whatever stands behind the suffix array.
THEOREM EntriesAreLargeEnough == FindSpec => []NeverTooSmall
<1>1. ArrayInv => NeverTooSmall
  BY DEF ArrayInv
<1> QED BY <1>1, ArrayInvHolds, PTL

\* For every corpus the entries of make_lcp are exact up to the greatest suffix.
THEOREM ExactUpToGreatest == FindSpec => []ExactBeforeGreatest
<1>1. ArrayInv => ExactBeforeGreatest
  BY DEF ArrayInv
<1> QED BY <1>1, ArrayInvHolds, PTL

\* For every corpus one exact entry behind the greatest suffix makes all later ones exact.
THEOREM ErrorsWearOff == FindSpec => []Recovers
<1>1. ArrayInv => Recovers
  BY DEF ArrayInv
<1> QED BY <1>1, ArrayInvHolds, PTL

\* For every corpus the finished rows of NaiveLCP_LR say how far the entries of make_lcp
\* reach, to the left and to the right.
THEOREM RowsSayHowFar == FindSpec => []RowsReach
<1>1. PhaseOK => RowsReach
  <2> SUFFICES ASSUME PhaseOK, phase # "lcp", NEW p \in R!Finished
               PROVE
                 /\ \A d \in 0 .. lcp[p - 1] - 1 :
                      LET q == lcp_l[p][d]
                      IN  R!Shares(q, p, d) /\ (q > 0 => ~ R!Shares(q - 1, p, d))
                 /\ p < (n + 1) - 1 =>
                      \A d \in 0 .. lcp[p] - 1 :
                        LET q == lcp_r[p][d]
                        IN  R!Shares(p, q, d) /\ (q < (n + 1) - 1 => ~ R!Shares(p, q + 1, d))
    BY DEF RowsReach, R!RowsReach
  <2>1. n \in Nat /\ (n + 1) - 1 = n /\ RowsOK /\ ri \in 1 .. n
    BY DEF PhaseOK, RowsOK, EntriesOK
  <2>2. p \in 1 .. n /\ (p < ri \/ rpc = "done")
    BY <2>1 DEF R!Finished
  <2>3. LeftDone(lcp_l[p], p) /\ (p < n => RightDone(lcp_r[p], p))
    BY <2>1, <2>2 DEF RowsOK
  <2> QED BY <2>1, <2>3 DEF LeftDone, RightDone
<1> QED BY <1>1, PhaseHolds, PTL
-----------------------------------------------------------------------------
EntriesExact == \A p \in 0 .. n - 1 : lcp[p] = CommonPrefix(data, n, sa[p], sa[p + 1])

\* Two positions share what all neighbours between them share.
LEMMA Chain ==
  ASSUME IndexOK, EntriesExact, NEW p \in 0 .. n, NEW q \in 0 .. n, p <= q, NEW d \in Nat,
         p < q \/ sa[q] + (d + 1) <= n
  PROVE  R!Shares(p, q, d) <=> Share(data, n, sa[p], sa[q], d + 1)
<1> DEFINE Alike(x, y) == Share(data, n, sa[x], sa[y], d + 1)
<1>1. /\ n \in Nat /\ data \in [0 .. n - 1 -> Int] /\ sa \in [0 .. n -> 0 .. n]
      /\ \A x \in 0 .. n : sa[x] \in 0 .. n
      /\ \A x, y \in 0 .. n : x < y => SuffixLess(data, n, sa[x], sa[y])
  BY IndexFacts
<1>2. ASSUME NEW x \in 0 .. n - 1
      PROVE  lcp[x] > d <=> Alike(x, x + 1)
  <2>1. x \in 0 .. n /\ x + 1 \in 0 .. n
    BY <1>1
  <2>2. sa[x] \in 0 .. n /\ sa[x + 1] \in 0 .. n
    BY <1>1, <2>1
  <2>3. /\ lcp[x] = CommonPrefix(data, n, sa[x], sa[x + 1])
        /\ CommonPrefix(data, n, sa[x], sa[x + 1]) \in Nat
        /\ Alike(x, x + 1) <=> d + 1 <= CommonPrefix(data, n, sa[x], sa[x + 1])
    BY <1>1, <2>2, CommonPrefixIs, d + 1 \in Nat DEF EntriesExact
  <2> QED BY <2>3
<1>3. ASSUME R!Shares(p, q, d) PROVE Alike(q, q)
  <2>1. sa[q] \in 0 .. n
    BY <1>1
  <2>2. CASE p < q
    <3>1. q - 1 \in 0 .. n - 1 /\ q - 1 \in p .. q - 1 /\ (q - 1) + 1 = q
      BY <1>1, <2>2
    <3>2. Alike(q - 1, q)
      BY <1>2, <1>3, <3>1 DEF R!Shares
    <3>3. sa[q] + (d + 1) <= n
      BY <3>2 DEF Share
    <3> QED BY <1>1, <2>1, <3>3 DEF Share
  <2>3. CASE ~ (p < q)
    BY <1>1, <2>1, <2>3 DEF Share
  <2> QED BY <2>2, <2>3
<1>4. ASSUME NEW x \in 0 .. n, NEW y \in 0 .. n, NEW z \in 0 .. n, Alike(x, y), Alike(y, z)
      PROVE  Alike(x, z)
  BY <1>1, <1>4, ShareTransitive, d + 1 \in Nat
<1>5. ASSUME NEW x \in 0 .. n, NEW y \in 0 .. n, NEW z \in 0 .. n, x < y, y <= z, Alike(x, z)
      PROVE  Alike(x, y)
  <2>1. CASE y = z
    BY <1>5, <2>1
  <2>2. CASE y < z
    <3>1. SuffixLess(data, n, sa[x], sa[y]) /\ SuffixLess(data, n, sa[y], sa[z])
      BY <1>1, <1>5, <2>2
    <3>2. sa[x] \in 0 .. n /\ sa[y] \in 0 .. n /\ sa[z] \in 0 .. n /\ d + 1 \in Nat
      BY <1>1, SMTT(30)
    <3> QED BY <1>1, <1>5, <3>1, <3>2, ShareBetween
  <2> QED BY <1>5, <2>1, <2>2
<1>6. ASSUME NEW x \in 0 .. n, NEW y \in 0 .. n, Alike(x, y) PROVE Alike(y, x)
  BY <1>1, <1>6, ShareSymmetric, d + 1 \in Nat
<1> HIDE DEF Alike
<1>7. ASSUME R!Shares(p, q, d) PROVE Alike(p, q)
  <2> SUFFICES ASSUME ~ Alike(p, q) PROVE FALSE
    OBVIOUS
  <2> DEFINE T == {k \in Nat : k <= q - p /\ ~ Alike(q - k, q)}
  <2>1. q - p \in T
    <3>1. q - p \in Nat /\ q - (q - p) = p
      BY <1>1
    <3> QED BY <3>1
  <2>2. PICK k \in T : \A y \in T : k <= y
    BY <2>1, LeastElement
  <2>3. k \in Nat /\ k <= q - p /\ ~ Alike(q - k, q) /\ k # 0
    <3>1. k = 0 => q - k = q
      BY <1>1
    <3> QED BY <1>3, <1>7, <3>1
  <2>4. k - 1 \in Nat /\ k - 1 <= q - p /\ k - 1 \notin T
    <3>1. k - 1 \in Nat /\ k - 1 <= q - p /\ ~ (k <= k - 1)
      BY <1>1, <2>3
    <3> HIDE DEF T
    <3> QED BY <2>2, <3>1
  <2>5. Alike(q - (k - 1), q)
    BY <2>4
  <2> DEFINE x == q - k
  <2>6. x \in 0 .. n - 1 /\ x \in p .. q - 1 /\ q - (k - 1) = x + 1 /\ x \in 0 .. n /\ x + 1 \in 0 .. n
    BY <1>1, <2>3
  <2>7. ~ Alike(x, q)
    BY <2>3
  <2> HIDE DEF x, T
  <2>8. Alike(x, x + 1)
    BY <1>2, <1>7, <2>6 DEF R!Shares
  <2> QED BY <1>4, <2>5, <2>6, <2>7, <2>8
<1>8. ASSUME Alike(p, q) PROVE R!Shares(p, q, d)
  <2> SUFFICES ASSUME NEW x \in p .. q - 1 PROVE lcp[x] > d
    BY DEF R!Shares
  <2>1. x \in 0 .. n - 1 /\ x \in 0 .. n /\ x + 1 \in 0 .. n /\ x + 1 <= q /\ p <= x /\ x < q
    BY <1>1
  <2>2. Alike(x, q)
    <3>1. CASE x = p
      BY <1>8, <3>1
    <3>2. CASE p < x
      BY <1>4, <1>5, <1>6, <1>8, <2>1, <3>2
    <3> QED BY <2>1, <3>1, <3>2
  <2>3. Alike(x, x + 1)
    BY <1>5, <2>1, <2>2
  <2> QED BY <1>2, <2>1, <2>3
<1> QED BY <1>7, <1>8 DEF Alike

SearchInput ==
  /\ IndexOK /\ EntriesExact /\ RowsOK /\ rpc = "done"
  /\ len \in Nat \ {0} /\ val \in [0 .. len - 1 -> Nat]

\* A row gives the ends of the positions that share a prefix.
LEMMA RowIsExact ==
  ASSUME SearchInput, NEW p \in 1 .. n, NEW d \in Nat \ {0}, sa[p] + d <= n
  PROVE  /\ S!Leftmost(p, d) \in 0 .. p /\ S!Rightmost(p, d) \in p .. n
         /\ \A q \in 0 .. n :
              q \in S!Leftmost(p, d) .. S!Rightmost(p, d) <=> Share(data, n, sa[p], sa[q], d)
<1> DEFINE f == S!Leftmost(p, d)
           l == S!Rightmost(p, d)
           c == d - 1
<1>1. /\ n \in Nat /\ data \in [0 .. n - 1 -> Int] /\ sa \in [0 .. n -> 0 .. n]
      /\ \A x \in 0 .. n : sa[x] \in 0 .. n
      /\ \A x, y \in 0 .. n : x < y => SuffixLess(data, n, sa[x], sa[y])
      /\ IndexOK /\ EntriesExact /\ RowsOK /\ lcp \in [0 .. n - 1 -> Nat] /\ p \in 0 .. n
  <2>1. IndexOK /\ EntriesExact /\ RowsOK /\ lcp \in [0 .. n - 1 -> Nat]
    BY DEF SearchInput, RowsOK, EntriesOK
  <2>2. /\ n \in Nat /\ data \in [0 .. n - 1 -> Int] /\ sa \in [0 .. n -> 0 .. n]
        /\ \A x, y \in 0 .. n : x < y => SuffixLess(data, n, sa[x], sa[y])
    BY <2>1, IndexFacts
  <2>3. p \in 0 .. n /\ \A x \in 0 .. n : sa[x] \in 0 .. n
    BY <2>2, SMTT(30)
  <2> QED BY <2>1, <2>2, <2>3
<1>2. c \in Nat /\ d = c + 1
  OBVIOUS
<1>3. f \in 0 .. p /\ R!Shares(f, p, c) /\ (f > 0 => ~ R!Shares(f - 1, p, c))
  <2>1. LeftDone(lcp_l[p], p)
    BY DEF SearchInput, RowsOK
  <2>2. p - 1 \in 0 .. n - 1
    BY <1>1
  <2>3. lcp[p - 1] \in Nat
    BY <1>1, <2>2
  <2>4. CASE c \in 0 .. lcp[p - 1] - 1
    <3>1. f = lcp_l[p][c]
      BY <2>1, <2>4 DEF S!Leftmost, LeftDone
    <3> QED BY <2>1, <2>4, <3>1 DEF LeftDone
  <2>5. CASE c \notin 0 .. lcp[p - 1] - 1
    <3>1. f = p
      BY <2>1, <2>5 DEF S!Leftmost, LeftDone
    <3>2. ~ (lcp[p - 1] > c)
      BY <1>2, <2>3, <2>5
    <3>3. p - 1 \in p - 1 .. p - 1 /\ \A x \in p .. p - 1 : FALSE
      BY <1>1
    <3> QED BY <3>1, <3>2, <3>3 DEF R!Shares
  <2> QED BY <2>4, <2>5
<1>4. l \in p .. n /\ R!Shares(p, l, c) /\ (l < n => ~ R!Shares(p, l + 1, c))
  <2>1. CASE p < n
    <3>1. RightDone(lcp_r[p], p)
      BY <2>1 DEF SearchInput, RowsOK
    <3>2. p \in 0 .. n - 1
      BY <1>1, <2>1
    <3>3. lcp[p] \in Nat
      BY <1>1, <3>2
    <3>4. CASE c \in 0 .. lcp[p] - 1
      <4>1. l = lcp_r[p][c]
        BY <3>1, <3>4 DEF S!Rightmost, RightDone
      <4> QED BY <3>1, <3>4, <4>1 DEF RightDone
    <3>5. CASE c \notin 0 .. lcp[p] - 1
      <4>1. l = p
        BY <3>1, <3>5 DEF S!Rightmost, RightDone
      <4>2. ~ (lcp[p] > c)
        BY <1>2, <3>3, <3>5
      <4>3. p \in p .. (p + 1) - 1 /\ (\A x \in p .. p - 1 : FALSE) /\ p \in p .. n
        BY <1>1, <2>1
      <4> QED BY <4>1, <4>2, <4>3 DEF R!Shares
    <3> QED BY <3>4, <3>5
  <2>2. CASE p = n
    <3>1. lcp_r[p] = R!Cells(0, 0)
      BY <1>1, <2>2 DEF RowsOK
    <3>2. l = p
      BY <1>2, <3>1 DEF S!Rightmost, R!Cells
    <3>3. (\A x \in p .. p - 1 : FALSE) /\ p \in p .. n /\ ~ (p < n)
      BY <1>1, <2>2
    <3> QED BY <3>2, <3>3 DEF R!Shares
  <2> QED BY <1>1, <2>1, <2>2
<1> HIDE DEF f, l, c
<1>5. ASSUME NEW q \in 0 .. n
      PROVE  q \in f .. l <=> Share(data, n, sa[p], sa[q], d)
  <2>1. q \in Int /\ p \in Int /\ f \in Int /\ l \in Int /\ f <= p /\ p <= l
    <3>1. n \in Nat /\ f \in 0 .. p /\ l \in p .. n
      BY <1>1, <1>3, <1>4
    <3> QED BY <3>1
  <2>2. sa[p] \in 0 .. n /\ sa[q] \in 0 .. n /\ d \in Nat
    BY <1>1
  <2>3. CASE q <= p
    <3>1. R!Shares(q, p, c) <=> Share(data, n, sa[q], sa[p], d)
      BY <1>1, <1>2, <2>3, Chain
    <3>2. Share(data, n, sa[q], sa[p], d) <=> Share(data, n, sa[p], sa[q], d)
      BY <1>1, <2>2, ShareSymmetric
    <3>3. ASSUME q >= f PROVE R!Shares(q, p, c)
      <4>1. \A x \in q .. p - 1 : x \in f .. p - 1
        BY <1>1, <1>3, <3>3
      <4> QED BY <1>3, <4>1 DEF R!Shares
    <3>4. ASSUME q < f PROVE ~ R!Shares(q, p, c)
      <4>1. f > 0 /\ \A x \in f - 1 .. p - 1 : x \in q .. p - 1
        BY <1>1, <1>3, <3>4
      <4>2. PICK x \in f - 1 .. p - 1 : ~ (lcp[x] > c)
        BY <1>3, <4>1 DEF R!Shares
      <4> QED BY <4>1, <4>2 DEF R!Shares
    <3>5. q \in f .. l <=> q >= f
      BY <2>1, <2>3
    <3>6. q >= f \/ q < f
      BY <2>1
    <3> QED BY <3>1, <3>2, <3>3, <3>4, <3>5, <3>6
  <2>4. CASE p < q
    <3>1. R!Shares(p, q, c) <=> Share(data, n, sa[p], sa[q], d)
      BY <1>1, <1>2, <2>4, Chain
    <3>2. ASSUME q <= l PROVE R!Shares(p, q, c)
      <4>1. \A x \in p .. q - 1 : x \in p .. l - 1
        BY <1>1, <1>4, <3>2
      <4> QED BY <1>4, <4>1 DEF R!Shares
    <3>3. ASSUME l < q PROVE ~ R!Shares(p, q, c)
      <4>1. l < n /\ \A x \in p .. (l + 1) - 1 : x \in p .. q - 1
        BY <1>1, <1>4, <3>3
      <4>2. PICK x \in p .. (l + 1) - 1 : ~ (lcp[x] > c)
        BY <1>4, <4>1 DEF R!Shares
      <4> QED BY <4>1, <4>2 DEF R!Shares
    <3>4. q \in f .. l <=> q <= l
      BY <2>1, <2>4
    <3>5. q <= l \/ l < q
      BY <2>1
    <3> QED BY <3>1, <3>2, <3>3, <3>4, <3>5
  <2> QED BY <2>1, <2>3, <2>4
<1> QED BY <1>3, <1>4, <1>5 DEF f, l
-----------------------------------------------------------------------------
\* The window of lower_bound: c positions from f on, with d symbols matched. The flag
\* smaller is of no consequence: when it keeps an older value the window has one position.
WindowOK(f, c, d) ==
  /\ f \in Nat /\ c \in Nat /\ f + c <= n + 1 /\ d \in Nat /\ d # len
  /\ \A p \in f .. f + c - 1 : sa[p] + d <= n
  /\ d < len =>
       /\ \A p \in f .. f + c - 1 : HasPrefix(data, n, sa[p], val, d)
       /\ \A p \in 0 .. n : HasPrefix(data, n, sa[p], val, len) => p \in f .. f + c - 1
  /\ Harmless => d < len

AnswerOK(r) == r # S!NotFound \/ Harmless => IsAnswer(r, sa, data, n, val, len)

\* The position that is probed.
Middle == fir + count \div 2

\* The probe of a round is inside of the window.
LEMMA MiddleIs ==
  ASSUME SearchInput, WindowOK(fir, count, depth_bef), count > 0
  PROVE  /\ Middle \in fir .. fir + count - 1 /\ Middle \in 0 .. n
         /\ sa[Middle] \in 0 .. n /\ sa[Middle] + depth_bef <= n
         /\ Middle = fir => count = 1
<1>1. fir \in Nat /\ count \in Nat /\ fir + count <= n + 1 /\ n \in Nat
  BY DEF WindowOK, SearchInput, IndexOK
<1>2. count \div 2 \in 0 .. count - 1 /\ (count \div 2 = 0 => count = 1)
  BY <1>1
<1> DEFINE half == count \div 2
<1> HIDE DEF half
<1>3. fir + half \in fir .. fir + count - 1 /\ fir + half \in 0 .. n /\ (fir + half = fir => count = 1)
  BY <1>1, <1>2 DEF half
<1>4. sa[fir + half] \in 0 .. n
  BY <1>3, IndexFacts DEF SearchInput
<1>5. sa[fir + half] + depth_bef <= n
  BY <1>3 DEF WindowOK
<1> QED BY <1>3, <1>4, <1>5 DEF Middle, half

\* What a comparison that gets on says of the suffix.
LEMMA Matches ==
  ASSUME SearchInput, WindowOK(fir, count, depth_bef), count > 0, NEW depth \in Nat \ {0}, NEW flag,
         S!Compares(sa[Middle], depth, flag), sa[Middle] + depth_bef + depth <= n
  PROVE  /\ Middle \in 1 .. n
         /\ depth_bef + depth <= len => HasPrefix(data, n, sa[Middle], val, depth_bef + depth)
         /\ Harmless => depth_bef + depth <= len
<1> DEFINE s == sa[Middle]
           d == depth_bef + depth
<1>1. /\ Middle \in fir .. fir + count - 1 /\ Middle \in 0 .. n /\ s \in 0 .. n
      /\ n \in Nat /\ len \in Nat /\ depth_bef \in Nat /\ data \in [0 .. n - 1 -> Nat]
  BY MiddleIs DEF SearchInput, IndexOK, WindowOK
<1>2. s + d <= n
  BY <1>1
<1>3. ASSUME NEW e \in depth_bef .. d - 1
      PROVE  IF e < len THEN data[s + e] = val[e] ELSE data[s + e] \in behind
  <2>1. \A x \in depth_bef .. depth_bef + depth - 1 : data[s + x] \in S!PatternAt(x)
    BY Zenon DEF S!Compares
  <2>2. data[s + e] \in S!PatternAt(e)
    <3>1. e \in depth_bef .. depth_bef + depth - 1
      BY <1>1
    <3> QED BY <2>1, <3>1
  <2> QED BY <2>2 DEF S!PatternAt
<1>4. depth_bef < len => \A e \in 0 .. depth_bef - 1 : data[s + e] = val[e]
  BY <1>1 DEF WindowOK, HasPrefix
<1>5. sa[0] = n
  BY DEF SearchInput, IndexOK, IsSuffixArray
<1> HIDE DEF s
<1>6. s # n
  BY <1>1, <1>2
<1>7. Middle \in 1 .. n
  BY <1>1, <1>5, <1>6 DEF s
<1>8. ASSUME d <= len PROVE HasPrefix(data, n, s, val, d)
  <2> SUFFICES ASSUME NEW e \in 0 .. d - 1 PROVE data[s + e] = val[e]
    BY <1>2 DEF HasPrefix
  <2>1. e \in 0 .. depth_bef - 1 \/ e \in depth_bef .. d - 1
    BY <1>1
  <2>2. e < len /\ depth_bef < len
    BY <1>1, <1>8
  <2> QED BY <1>3, <1>4, <2>1, <2>2
<1>9. ASSUME Harmless, len < d PROVE FALSE
  <2>1. depth_bef < len
    BY <1>9 DEF WindowOK
  <2>2. len \in depth_bef .. d - 1 /\ s + len \in 0 .. n - 1
    BY <1>1, <1>2, <1>9, <2>1
  <2>3. data[s + len] \in behind
    <3>1. ~ (len < len)
      BY <1>1
    <3> QED BY <1>3, <2>2, <3>1
  <2>4. data[s + len] \in {data[e] : e \in 0 .. n - 1}
    BY <2>2
  <2> QED BY <1>9, <2>3, <2>4 DEF Harmless
<1>10. Harmless => d <= len
  BY <1>1, <1>9
<1> QED BY <1>7, <1>8, <1>10 DEF s

\* With a prefix of the pattern, sharing it and having it are the same.
LEMMA HavingIsSharing ==
  ASSUME NEW p, NEW q, NEW d, HasPrefix(data, n, p, val, d)
  PROVE  HasPrefix(data, n, q, val, d) <=> Share(data, n, p, q, d)
BY DEF HasPrefix, Share

\* A longer prefix contains a shorter one.
LEMMA ShorterPrefix ==
  ASSUME NEW p \in Nat, NEW d \in Nat, d <= len, len \in Nat, n \in Nat,
         HasPrefix(data, n, p, val, len)
  PROVE  HasPrefix(data, n, p, val, d)
BY DEF HasPrefix

\* A side of the window is cut off because of what its row says: no hit goes with it.
LEMMA NarrowKeeps ==
  ASSUME SearchInput, WindowOK(fir, count, depth_bef), count > 0, NEW depth \in Nat \ {0}, NEW flag,
         S!Compares(sa[Middle], depth, flag), sa[Middle] + depth_bef + depth <= n,
         depth_bef + depth # len
  PROVE  LET d == depth_bef + depth
             f == S!Leftmost(Middle, d)
         IN  WindowOK(f, S!EndOf(Middle, d) - f, d)
<1> DEFINE d == depth_bef + depth
           f == S!Leftmost(Middle, d)
           l == S!Rightmost(Middle, d)
           s == sa[Middle]
           c == S!EndOf(Middle, d) - f
<1>1. /\ n \in Nat /\ len \in Nat /\ depth_bef \in Nat /\ Middle \in 0 .. n /\ s \in 0 .. n
      /\ Middle \in 1 .. n
  BY MiddleIs, Matches DEF SearchInput, IndexOK, WindowOK
<1>2. d \in Nat \ {0} /\ s + d <= n /\ d # len
  BY <1>1
<1>3. /\ d <= len => HasPrefix(data, n, s, val, d)
      /\ Harmless => d <= len
  BY Matches
<1>4. /\ f \in 0 .. Middle /\ l \in Middle .. n
      /\ \A q \in 0 .. n : q \in f .. l <=> Share(data, n, s, sa[q], d)
  BY <1>1, <1>2, RowIsExact
<1>5. c = (l + 1) - f
  BY DEF S!EndOf
<1>6. \A q \in 0 .. n : sa[q] \in Nat
  <2>1. sa \in [0 .. n -> 0 .. n]
    BY IndexFacts DEF SearchInput
  <2> QED BY <2>1
<1> HIDE DEF d, f, l, s, c
<1>7. /\ f \in Nat /\ c \in Nat /\ f + c <= n + 1 /\ f + c - 1 = l
      /\ \A q \in f .. l : q \in 0 .. n
  BY <1>1, <1>4, <1>5
<1>8. \A q \in f .. l : sa[q] + d <= n
  BY <1>4, <1>7 DEF Share
<1>9. ASSUME d < len
      PROVE  /\ \A q \in f .. l : HasPrefix(data, n, sa[q], val, d)
             /\ \A q \in 0 .. n : HasPrefix(data, n, sa[q], val, len) => q \in f .. l
  <2>1. HasPrefix(data, n, s, val, d)
    BY <1>1, <1>2, <1>3, <1>9
  <2>2. \A q \in 0 .. n : HasPrefix(data, n, sa[q], val, d) <=> q \in f .. l
    BY <1>4, <2>1, HavingIsSharing
  <2>3. \A q \in 0 .. n : HasPrefix(data, n, sa[q], val, len) => HasPrefix(data, n, sa[q], val, d)
    BY <1>1, <1>2, <1>6, <1>9, ShorterPrefix
  <2> QED BY <1>7, <2>2, <2>3
<1>10. Harmless => d < len
  BY <1>1, <1>2, <1>3
<1>11. WindowOK(f, c, d)
  BY <1>2, <1>7, <1>8, <1>9, <1>10 DEF WindowOK
<1> QED BY <1>11 DEF c, f, d

\* A probe that has all symbols of the pattern is a hit, and the rows give the ends of the range.
LEMMA MatchIsExact ==
  ASSUME SearchInput, WindowOK(fir, count, depth_bef), count > 0, NEW depth \in Nat \ {0}, NEW flag,
         S!Compares(sa[Middle], depth, flag), sa[Middle] + depth_bef + depth <= n,
         depth_bef + depth = len
  PROVE  IsAnswer(<<S!Leftmost(Middle, len), S!EndOf(Middle, len)>>, sa, data, n, val, len)
<1> DEFINE f == S!Leftmost(Middle, len)
           l == S!Rightmost(Middle, len)
           s == sa[Middle]
           r == <<f, S!EndOf(Middle, len)>>
           hits == {p \in 0 .. n : HasPrefix(data, n, sa[p], val, len)}
<1>1. /\ n \in Nat /\ len \in Nat \ {0} /\ depth_bef \in Nat /\ Middle \in 0 .. n /\ s \in 0 .. n
      /\ Middle \in 1 .. n
  BY MiddleIs, Matches DEF SearchInput, IndexOK, WindowOK
<1>2. s + len <= n
  BY <1>1
<1>3. HasPrefix(data, n, s, val, len)
  BY <1>1, Matches
<1>4. /\ f \in 0 .. Middle /\ l \in Middle .. n
      /\ \A q \in 0 .. n : q \in f .. l <=> Share(data, n, s, sa[q], len)
  BY <1>1, <1>2, RowIsExact
<1>5. r[1] = f /\ r[2] = l + 1
  BY DEF S!EndOf
<1>6. \A q \in 0 .. n : HasPrefix(data, n, sa[q], val, len) <=> q \in f .. l
  BY <1>3, <1>4, HavingIsSharing
<1>7. Middle \in hits
  BY <1>1, <1>3
<1> HIDE DEF f, l, s, r
<1>8. r[1] < r[2] /\ r[2] - 1 = l /\ r[1] = f /\ \A q \in f .. l : q \in 0 .. n
  BY <1>1, <1>4, <1>5
<1>9. hits = f .. l
  BY <1>6, <1>8
<1>10. IsAnswer(r, sa, data, n, val, len)
  BY <1>7, <1>8, <1>9 DEF IsAnswer
<1> QED BY <1>10 DEF f, r

\* Two suffixes compare like the first symbols in which they differ.
LEMMA FirstDifference ==
  ASSUME n \in Nat, NEW a \in 0 .. n, NEW b \in 0 .. n, NEW d \in Nat,
         a + d < n, b + d < n, \A e \in 0 .. d - 1 : data[a + e] = data[b + e],
         data[a + d] < data[b + d]
  PROVE  SuffixLess(data, n, a, b)
<1>1. d \in 0 .. n - a
  OBVIOUS
<1> QED BY <1>1 DEF SuffixLess, LexLess

\* A side is cut off because of the first symbol that differs: no hit goes with it.
LEMMA HalveKeeps ==
  ASSUME SearchInput, WindowOK(fir, count, depth_bef), count > 0, NEW flag \in BOOLEAN,
         S!Compares(sa[Middle], 0, flag)
  PROVE  /\ flag => WindowOK(Middle + 1, count - ((Middle + 1) - fir), depth_bef)
         /\ ~ flag => WindowOK(fir, Middle - fir, depth_bef)
<1> DEFINE s == sa[Middle]
           d == depth_bef
           m == Middle
           Hit(p) == HasPrefix(data, n, sa[p], val, len)
<1>1. /\ n \in Nat /\ len \in Nat /\ fir \in Nat /\ count \in Nat /\ fir + count <= n + 1
      /\ d \in Nat /\ d # len
      /\ m \in fir .. fir + count - 1 /\ m \in 0 .. n /\ s \in 0 .. n /\ s + d <= n
      /\ m = fir => count = 1
  BY MiddleIs DEF SearchInput, IndexOK, WindowOK
<1>2. /\ data \in [0 .. n - 1 -> Nat] /\ val \in [0 .. len - 1 -> Nat]
      /\ \A p \in 0 .. n : sa[p] \in 0 .. n
      /\ \A p, q \in 0 .. n : p < q <=> SuffixLess(data, n, sa[p], sa[q])
  BY IndexFacts DEF SearchInput, IndexOK
<1>3. ASSUME d < len, NEW p \in 0 .. n, Hit(p)
      PROVE  p \in fir .. fir + count - 1 /\ (flag => m < p) /\ (~ flag => p < m)
  <2>1. /\ p \in fir .. fir + count - 1
        /\ \A q \in fir .. fir + count - 1 : HasPrefix(data, n, sa[q], val, d)
    BY <1>3 DEF WindowOK
  <2>2. /\ \A e \in 0 .. d - 1 : data[s + e] = val[e]
        /\ \A e \in 0 .. len - 1 : data[sa[p] + e] = val[e]
        /\ sa[p] + len <= n
    BY <1>1, <1>3, <2>1 DEF HasPrefix
  <2>3. sa[p] \in 0 .. n
    BY <1>2
  <2>4. CASE s + d = n
    <3>1. p # m
      BY <1>1, <1>3, <2>2, <2>4
    <3>2. ASSUME fir < m PROVE FALSE
      <4> DEFINE z == sa[fir]
      <4>1. fir \in 0 .. n /\ fir \in fir .. fir + count - 1
        BY <1>1
      <4>2. SuffixLess(data, n, z, s) /\ HasPrefix(data, n, z, val, d) /\ z \in 0 .. n
        BY <1>1, <1>2, <2>1, <3>2, <4>1
      <4> HIDE DEF z
      <4>3. PICK x \in 0 .. n - z : s + x < n /\ (z + x = n \/ data[z + x] < data[s + x])
        BY <4>2 DEF SuffixLess, LexLess
      <4>4. x \in 0 .. d - 1 /\ s + x \in 0 .. n - 1 /\ z + d <= n
        BY <1>1, <2>4, <4>2, <4>3 DEF HasPrefix
      <4>5. data[z + x] = val[x] /\ data[s + x] = val[x] /\ data[s + x] \in Nat
        BY <1>2, <2>2, <4>2, <4>4 DEF HasPrefix
      <4>6. z + x # n
        BY <1>1, <4>2, <4>3, <4>4
      <4> QED BY <4>3, <4>5, <4>6
    <3>3. m = fir
      BY <1>1, <3>2
    <3> QED BY <1>1, <2>1, <3>1, <3>3
  <2>5. CASE s + d < n
    <3>1. data[s + d] # val[d] /\ flag = (data[s + d] < val[d])
      <4>1. depth_bef + 0 = d
        BY <1>1
      <4> QED BY <1>1, <1>3, <2>5, <4>1 DEF S!Compares, S!PatternAt
    <3>2. d \in 0 .. len - 1 /\ s + d \in 0 .. n - 1 /\ sa[p] + d < n
      BY <1>1, <1>3, <2>2, <2>3, <2>5
    <3>3. data[sa[p] + d] = val[d] /\ data[s + d] \in Nat /\ val[d] \in Nat
      BY <1>2, <2>2, <3>2
    <3>4. \A e \in 0 .. d - 1 : data[s + e] = data[sa[p] + e] /\ data[sa[p] + e] = data[s + e]
      BY <1>1, <1>3, <2>2
    <3>5. ASSUME flag PROVE m < p
      <4>1. SuffixLess(data, n, s, sa[p])
        BY <1>1, <2>3, <2>5, <3>1, <3>2, <3>3, <3>4, <3>5, FirstDifference
      <4> QED BY <1>1, <1>2, <4>1
    <3>6. ASSUME ~ flag PROVE p < m
      <4>1. ~ (data[s + d] < val[d])
        BY <3>1, <3>6, Zenon
      <4>2. data[sa[p] + d] < data[s + d]
        BY <3>1, <3>3, <4>1
      <4>3. SuffixLess(data, n, sa[p], s)
        BY <1>1, <2>3, <2>5, <3>2, <3>4, <4>2, FirstDifference
      <4> QED BY <1>1, <1>2, <4>3
    <3> QED BY <2>1, <3>5, <3>6
  <2> QED BY <1>1, <2>4, <2>5
<1>4. /\ \A p \in fir .. fir + count - 1 : sa[p] + d <= n
      /\ d < len => \A p \in fir .. fir + count - 1 : HasPrefix(data, n, sa[p], val, d)
      /\ Harmless => d < len
  BY DEF WindowOK
<1> HIDE DEF s, d, m, Hit
<1>5. ASSUME flag PROVE WindowOK(m + 1, count - ((m + 1) - fir), d)
  <2> DEFINE f == m + 1
             c == count - ((m + 1) - fir)
  <2>1. f \in Nat /\ c \in Nat /\ f + c <= n + 1 /\ f + c - 1 = fir + count - 1
    BY <1>1
  <2>2. /\ \A p \in f .. fir + count - 1 : p \in fir .. fir + count - 1
        /\ \A p \in fir .. fir + count - 1 : m < p => p \in f .. fir + count - 1
    BY <1>1
  <2> HIDE DEF f, c
  <2>3. d < len => \A p \in 0 .. n : Hit(p) => p \in f .. fir + count - 1
    BY <1>3, <1>5, <2>2
  <2>4. WindowOK(f, c, d)
    BY <1>1, <1>4, <2>1, <2>2, <2>3 DEF WindowOK, Hit
  <2> QED BY <2>4 DEF f, c
<1>6. ASSUME ~ flag PROVE WindowOK(fir, m - fir, d)
  <2> DEFINE c == m - fir
  <2>1. c \in Nat /\ fir + c <= n + 1 /\ fir + c - 1 = m - 1
    BY <1>1
  <2>2. /\ \A p \in fir .. m - 1 : p \in fir .. fir + count - 1
        /\ \A p \in fir .. fir + count - 1 : p < m => p \in fir .. m - 1
    BY <1>1
  <2> HIDE DEF c
  <2>3. d < len => \A p \in 0 .. n : Hit(p) => p \in fir .. m - 1
    BY <1>3, <1>6, <2>2
  <2>4. WindowOK(fir, c, d)
    BY <1>1, <1>4, <2>1, <2>2, <2>3 DEF WindowOK, Hit
  <2> QED BY <2>4 DEF c
<1> QED BY <1>5, <1>6 DEF m, d
-----------------------------------------------------------------------------
SearchOK ==
  phase \in {"search", "done", "undefined"} =>
    /\ len \in Nat \ {0} /\ val \in [0 .. len - 1 -> Nat]
    /\ LcpOfNeighbours =>
         /\ phase = "search" => WindowOK(fir, count, depth_bef)
         /\ phase = "done" => AnswerOK(range)
         /\ phase # "undefined"

\* What lower_bound is called with.
LEMMA SearchInputIs ==
  ASSUME ArrayInv, PhaseOK, SearchOK, phase \in {"search", "done", "undefined"}, LcpOfNeighbours
  PROVE  SearchInput
BY DEF ArrayInv, PhaseOK, SearchOK, LcpOfNeighbours, SearchInput, EntriesExact

\* The input does not change, and with it neither does what the search ought to do.
LEMMA SearchStays ==
  ASSUME data' = data, n' = n, sa' = sa, val' = val, len' = len, behind' = behind
  PROVE  /\ WindowOK(fir, count, depth_bef)' = WindowOK(fir', count', depth_bef')
         /\ AnswerOK(range)' = AnswerOK(range')
<1>1. Harmless' = Harmless
  BY DEF Harmless
<1> QED BY <1>1 DEF WindowOK, AnswerOK, S!NotFound

\* A round of lower_bound keeps the invariant of the window.
LEMMA ProbeKeeps ==
  ASSUME ArrayInv, PhaseOK, SearchOK, LcpOfNeighbours, S!Probe, UNCHANGED vars
  PROVE  /\ phase' = "search" => WindowOK(fir', count', depth_bef')
         /\ phase' = "done" => AnswerOK(range')
         /\ phase' # "undefined"
<1>1. phase = "search" /\ count > 0
  BY DEF S!Probe
<1>2. SearchInput /\ WindowOK(fir, count, depth_bef)
  BY <1>1, SearchInputIs DEF SearchOK
<1>3. PICK depth \in 0 .. n - (sa[Middle] + depth_bef), flag \in BOOLEAN :
        /\ S!Compares(sa[Middle], depth, flag)
        /\ smaller' = flag
        /\ depth_bef' = depth_bef + depth
        /\ S!Match(Middle, depth) \/ S!Narrow(Middle, depth) \/ S!Halve(Middle, depth)
  BY DEF S!Probe, Middle
<1>4. /\ n \in Nat /\ depth_bef \in Nat /\ depth \in Nat /\ sa[Middle] \in 0 .. n
      /\ sa[Middle] + depth_bef + depth <= n
  <2>1. n \in Nat /\ depth_bef \in Nat /\ sa[Middle] \in 0 .. n /\ sa[Middle] + depth_bef <= n
    BY <1>1, <1>2, MiddleIs DEF SearchInput, IndexOK, WindowOK
  <2> QED BY <2>1
<1>5. CASE S!Match(Middle, depth)
  <2>1. /\ depth \in Nat \ {0} /\ depth_bef + depth = len /\ phase' = "done"
        /\ range' = <<S!Leftmost(Middle, len), S!EndOf(Middle, len)>>
    BY <1>3, <1>4, <1>5 DEF S!Match
  <2>2. IsAnswer(range', sa, data, n, val, len)
    BY <1>1, <1>2, <1>3, <1>4, <2>1, MatchIsExact
  <2> QED BY <2>1, <2>2 DEF AnswerOK
<1>6. CASE S!Narrow(Middle, depth)
  <2> DEFINE d == depth_bef + depth
             f == S!Leftmost(Middle, d)
  <2>1. /\ depth \in Nat \ {0} /\ d # len /\ phase' = phase /\ depth_bef' = d
        /\ fir' = f /\ count' = S!EndOf(Middle, d) - f
    BY <1>3, <1>4, <1>6 DEF S!Narrow
  <2>2. WindowOK(f, S!EndOf(Middle, d) - f, d)
    BY <1>1, <1>2, <1>3, <1>4, <2>1, NarrowKeeps
  <2> HIDE DEF d, f
  <2> QED BY <1>1, <2>1, <2>2
<1>7. CASE S!Halve(Middle, depth)
  <2>1. /\ depth = 0 /\ phase' = phase /\ depth_bef' = depth_bef
        /\ IF flag THEN fir' = Middle + 1 /\ count' = count - (fir' - fir)
                   ELSE fir' = fir /\ count' = Middle - fir
    BY <1>3, <1>4, <1>7 DEF S!Halve, S!RightHalf, S!LeftHalf
  <2>2. S!Compares(sa[Middle], 0, flag)
    BY <1>3, <2>1
  <2>3. /\ flag => WindowOK(Middle + 1, count - ((Middle + 1) - fir), depth_bef)
        /\ ~ flag => WindowOK(fir, Middle - fir, depth_bef)
    BY <1>1, <1>2, <2>2, HalveKeeps
  <2> QED BY <1>1, <2>1, <2>3
<1> QED BY <1>3, <1>5, <1>6, <1>7

\* An empty window: the pattern does not occur.
LEMMA GiveUpIsRight ==
  ASSUME ArrayInv, PhaseOK, SearchOK, LcpOfNeighbours, S!GiveUp
  PROVE  phase' = "done" /\ AnswerOK(range')
<1>1. phase = "search" /\ count = 0 /\ phase' = "done" /\ range' = S!NotFound
  BY DEF S!GiveUp
<1>2. SearchInput /\ WindowOK(fir, count, depth_bef)
  BY <1>1, SearchInputIs DEF SearchOK
<1>3. fir \in Nat /\ \A p \in fir .. fir + count - 1 : FALSE
  BY <1>1, <1>2 DEF WindowOK
<1>4. ASSUME Harmless PROVE IsAnswer(range', sa, data, n, val, len)
  <2>1. \A p \in 0 .. n : ~ HasPrefix(data, n, sa[p], val, len)
    BY <1>2, <1>3, <1>4 DEF WindowOK
  <2>2. {p \in 0 .. n : HasPrefix(data, n, sa[p], val, len)} = {}
    BY <2>1
  <2> QED BY <1>1, <2>2 DEF IsAnswer, S!NotFound
<1> QED BY <1>1, <1>4 DEF AnswerOK

\* lower_bound begins with all of SA as its window.
LEMMA StartSearchStep == ASSUME ArrayInv, StartSearch PROVE SearchOK'
<1>1. /\ data' = data /\ n' = n /\ sa' = sa /\ phase' = "search"
      /\ fir' = 0 /\ count' = n + 1 /\ depth_bef' = 0
  BY DEF StartSearch, vars
<1>2. len' \in Nat \ {0} /\ val' \in [0 .. len' - 1 -> Nat]
  BY PatternsAssumption DEF StartSearch
<1>3. n \in Nat /\ \A p \in 0 .. n : sa[p] \in 0 .. n
  <2>1. n \in Nat /\ sa \in [0 .. n -> 0 .. n]
    BY IndexFacts DEF ArrayInv
  <2> QED BY <2>1
<1>4. /\ fir' \in Nat /\ count' \in Nat /\ fir' + count' <= n + 1
      /\ depth_bef' \in Nat /\ depth_bef' # len' /\ depth_bef' < len'
      /\ fir' .. fir' + count' - 1 = 0 .. n
  BY <1>1, <1>2, <1>3
<1>5. \A p \in 0 .. n : sa[p] + 0 <= n /\ \A e \in 0 .. 0 - 1 : FALSE
  BY <1>3
<1>6. WindowOK(fir, count, depth_bef)'
  BY <1>1, <1>4, <1>5 DEF WindowOK, HasPrefix
<1> QED BY <1>1, <1>2, <1>6 DEF SearchOK

\* Every step keeps the invariant of the search.
LEMMA SearchStep == ASSUME ArrayInv, PhaseOK, SearchOK, [FindNext]_findVars PROVE SearchOK'
<1>1. CASE MakeLcp \/ StartRows \/ MakeRows
  BY <1>1 DEF MakeLcp, StartRows, MakeRows, SearchOK
<1>2. CASE StartSearch
  BY <1>2, StartSearchStep
<1>3. CASE Search
  <2>1. /\ phase = "search" /\ UNCHANGED vars
        /\ data' = data /\ n' = n /\ sa' = sa /\ val' = val /\ len' = len /\ behind' = behind
    BY <1>3 DEF Search, vars, S!Probe, S!RunsAway, S!GiveUp, S!input
  <2>2. LcpOfNeighbours' = LcpOfNeighbours
    BY <2>1 DEF vars, LcpOfNeighbours
  <2>3. len' \in Nat \ {0} /\ val' \in [0 .. len' - 1 -> Nat]
    BY <2>1 DEF SearchOK
  <2>4. ASSUME LcpOfNeighbours
        PROVE  /\ phase' = "search" => WindowOK(fir', count', depth_bef')
               /\ phase' = "done" => AnswerOK(range')
               /\ phase' # "undefined"
    <3>1. CASE S!Probe
      BY <2>1, <2>4, <3>1, ProbeKeeps
    <3>2. CASE S!RunsAway
      <4>1. count > 0 /\ sa[Middle] + depth_bef > n
        BY <3>2 DEF S!RunsAway, Middle
      <4>2. SearchInput /\ WindowOK(fir, count, depth_bef)
        BY <2>1, <2>4, SearchInputIs DEF SearchOK
      <4>3. sa[Middle] \in 0 .. n /\ sa[Middle] + depth_bef <= n /\ n \in Nat /\ depth_bef \in Nat
        BY <4>1, <4>2, MiddleIs DEF SearchInput, IndexOK, WindowOK
      <4> QED BY <4>1, <4>3
    <3>3. CASE S!GiveUp
      BY <2>4, <3>3, GiveUpIsRight
    <3> QED BY <1>3, <3>1, <3>2, <3>3 DEF Search
  <2> QED BY <2>1, <2>2, <2>3, <2>4, SearchStays DEF SearchOK
<1>4. CASE FindDone \/ UNCHANGED findVars
  <2>1. /\ phase' = phase /\ UNCHANGED vars /\ fir' = fir /\ count' = count
        /\ depth_bef' = depth_bef /\ range' = range
        /\ data' = data /\ n' = n /\ sa' = sa /\ val' = val /\ len' = len /\ behind' = behind
    BY <1>4 DEF FindDone, findVars, searchVars, vars
  <2>2. LcpOfNeighbours' = LcpOfNeighbours
    BY <2>1 DEF vars, LcpOfNeighbours
  <2> QED BY <2>1, <2>2, SearchStays DEF SearchOK
<1> QED BY <1>1, <1>2, <1>3, <1>4 DEF FindNext

\* It holds in every state, if the entries are exact.
LEMMA SearchHolds == FindSpec => []SearchOK
<1>1. FindInit => SearchOK
  BY DEF FindInit, SearchOK
<1> QED BY <1>1, SearchStep, ArrayInvHolds, PhaseHolds, PTL DEF FindSpec

\* For every corpus with exact entries and every pattern the suffixes that lower_bound
\* compares with are long enough for a comparison from depth_bef on.
THEOREM SearchStartsInData == FindSpec => []StartsInData
<1>1. SearchOK => StartsInData
  <2> SUFFICES ASSUME SearchOK, LcpOfNeighbours, phase = "search"
               PROVE  \A p \in S!Window : sa[p] + depth_bef <= n
    BY DEF StartsInData, S!StartsInData
  <2> QED BY DEF SearchOK, WindowOK, S!Window
<1> QED BY <1>1, SearchHolds, PTL

\* For every corpus with exact entries and every pattern the window of lower_bound shares
\* what has matched and keeps every occurrence.
THEOREM WindowIsSafe == FindSpec => []WindowKeepsHits
<1>1. SearchOK => WindowKeepsHits
  <2> SUFFICES ASSUME SearchOK, LcpOfNeighbours, phase = "search", depth_bef <= len
               PROVE  /\ \A p \in S!Window : HasPrefix(data, n, sa[p], val, depth_bef)
                      /\ \A p \in 0 .. n : HasPrefix(data, n, sa[p], val, len) => p \in S!Window
    BY DEF WindowKeepsHits, S!WindowKeepsHits, S!HasPrefix, HasPrefix
  <2>1. WindowOK(fir, count, depth_bef) /\ len \in Nat
    BY DEF SearchOK
  <2>2. depth_bef < len
    BY <2>1 DEF WindowOK
  <2> QED BY <2>1, <2>2 DEF WindowOK, S!Window
<1> QED BY <1>1, SearchHolds, PTL

\* For every corpus with exact entries and every pattern a range that lower_bound returns
\* is that of all occurrences, whatever stands behind the pattern.
THEOREM RangeIsExact == FindSpec => []NoFalseHit
<1>1. SearchOK => NoFalseHit
  <2> SUFFICES ASSUME SearchOK, LcpOfNeighbours, phase = "done", range # S!NotFound
               PROVE  IsAnswer(range, sa, data, n, val, len)
    BY DEF NoFalseHit, S!NoFalseHit, S!IsAnswer, IsAnswer, S!HasPrefix, HasPrefix
  <2> QED BY DEF SearchOK, AnswerOK
<1> QED BY <1>1, SearchHolds, PTL

\* For every corpus with exact entries and every pattern find_all_infix stays in the data
\* and finds all occurrences, if no symbol of the corpus stands behind the pattern.
THEOREM FindsAllWithExactEntries == FindSpec => []ExactEntriesSuffice
<1>1. SearchOK => ExactEntriesSuffice
  BY DEF SearchOK, ExactEntriesSuffice, Ended, AnswerOK
<1> QED BY <1>1, SearchHolds, PTL
=============================================================================
