------------------------------- MODULE Find_proofs -------------------------------
(***************************************************************************)
(* The search is exact, for every corpus, suffix array and pattern: it     *)
(* answers with the range of all occurrences, and with the end of SA only  *)
(* if there is none.                                                       *)
(*                                                                         *)
(* The binary search is right because the order of SA is compatible with   *)
(* the comparison of a suffix with the pattern (Monotone). The scan is     *)
(* right although equal accepts a suffix that ends inside the pattern,     *)
(* because such a suffix would be smaller than the first hit (OnlyHits).   *)
(***************************************************************************)
EXTENDS Find, SuffixOrder_proofs

Hit(i) == HasPrefix(data, n, i, inf, len)

InputOK ==
  /\ n \in Nat /\ data \in [0 .. n - 1 -> Nat]
  /\ len \in Nat \ {0} /\ inf \in [0 .. len - 1 -> Nat]
  /\ IsSuffixArray(sa, data, n)

ScanInv ==
  pc = "scan" =>
    /\ idx \in 0 .. n /\ sec \in idx + 1 .. n + 1
    /\ \A p \in idx .. sec - 1 : Hit(sa[p])
    /\ \A p \in 0 .. idx - 1 : ~ Hit(sa[p])

IInv == InputOK /\ TypeOK /\ Partitioned /\ ScanInv /\ AnswerExact
-----------------------------------------------------------------------------
\* A suffix left of one that is smaller than the pattern is smaller, too.
LEMMA Monotone ==
  ASSUME InputOK, NEW p \in 0 .. n, NEW q \in 0 .. n, p < q, Smaller(sa[q])
  PROVE  Smaller(sa[p])
<1> DEFINE x == sa[p]
           y == sa[q]
<1>1. LexLess(data, x, n, data, y, n) /\ LexLess(data, y, n, inf, 0, len)
  BY DEF InputOK, IsSuffixArray, Smaller, SuffixLess
<1>2. n \in Nat /\ len \in Nat /\ sa \in [0 .. n -> 0 .. n]
  BY DEF InputOK, IsSuffixArray
<1>3. /\ x \in Int /\ 0 <= x /\ y \in Int /\ 0 <= y /\ 0 \in Int /\ 0 <= 0
      /\ n \in Int /\ len \in Int
  BY <1>2
<1>4. data \in [0 .. n - 1 -> Int]
  BY <1>2 DEF InputOK
<1>5. inf \in [0 .. len - 1 -> Int]
  BY <1>2 DEF InputOK
<1> HIDE DEF x, y
<1>6. LexLess(data, x, n, inf, 0, len)
  BY <1>1, <1>3, <1>4, <1>5, LexTransitive
<1> QED BY <1>6 DEF Smaller, x

\* A suffix that begins with the pattern is not smaller than it.
LEMMA HitNotSmaller ==
  ASSUME InputOK, NEW i \in 0 .. n, Hit(i)
  PROVE  ~ Smaller(i)
<1> SUFFICES ASSUME NEW d \in 0 .. n - i, 0 + d < len, i + d = n \/ data[i + d] < inf[0 + d]
             PROVE  FALSE
  BY DEF Smaller, LexLess
<1>1. i + d < n /\ data[i + d] = inf[d] /\ inf[d] \in Nat
  BY DEF Hit, HasPrefix, InputOK
<1> QED BY <1>1 DEF InputOK

\* The first suffix that is not smaller than the pattern is a hit if any later is.
LEMMA FirstIsHit ==
  ASSUME InputOK, NEW p \in 0 .. n, NEW q \in 0 .. n, p < q, ~ Smaller(sa[p]), Hit(sa[q])
  PROVE  Hit(sa[p])
<1> DEFINE y == sa[p]
           z == sa[q]
<1>1. y \in 0 .. n /\ z \in 0 .. n /\ n \in Nat /\ len \in Nat /\ SuffixLess(data, n, y, z)
  BY DEF InputOK, IsSuffixArray
<1>2. z + len <= n /\ \A e \in 0 .. len - 1 : data[z + e] = inf[e]
  BY DEF Hit, HasPrefix
<1>3. ~ Smaller(y)
  OBVIOUS
<1> HIDE DEF y, z
<1>4. PICK d \in 0 .. n - y :
        /\ z + d < n
        /\ \A e \in 0 .. d - 1 : data[y + e] = data[z + e]
        /\ y + d = n \/ data[y + d] < data[z + d]
  BY <1>1 DEF SuffixLess, LexLess
<1>5. len <= d
  <2> SUFFICES ASSUME d < len PROVE Smaller(y)
    BY <1>1, <1>3
  <2>1. /\ \A e \in 0 .. d - 1 : data[y + e] = inf[0 + e]
        /\ y + d = n \/ data[y + d] < inf[0 + d]
        /\ 0 + d < len
    BY <1>1, <1>2, <1>4
  <2> QED BY <2>1 DEF Smaller, LexLess
<1>6. y + len <= n /\ \A e \in 0 .. len - 1 : data[y + e] = inf[e]
  BY <1>1, <1>2, <1>4, <1>5
<1> QED BY <1>6 DEF Hit, HasPrefix, y

\* Right of a hit, equal accepts hits only.
LEMMA OnlyHits ==
  ASSUME InputOK, NEW p \in 0 .. n, NEW q \in 0 .. n, p < q, Hit(sa[p]), Equal(sa[q])
  PROVE  Hit(sa[q])
<1> DEFINE x == sa[p]
           y == sa[q]
<1>1. /\ x \in 0 .. n /\ y \in 0 .. n /\ n \in Nat /\ len \in Nat /\ SuffixLess(data, n, x, y)
      /\ data \in [0 .. n - 1 -> Nat]
  BY DEF InputOK, IsSuffixArray
<1>2. x + len <= n /\ \A e \in 0 .. len - 1 : data[x + e] = inf[e]
  BY DEF Hit, HasPrefix
<1>3. \A e \in 0 .. len - 1 : y + e < n => inf[e] = data[y + e]
  BY DEF Equal
<1> HIDE DEF x, y
<1>4. PICK d \in 0 .. n - x :
        /\ y + d < n
        /\ x + d = n \/ data[x + d] < data[y + d]
  BY <1>1 DEF SuffixLess, LexLess
<1>5. y + len <= n
  <2> SUFFICES ASSUME n < y + len PROVE FALSE
    BY <1>1
  <2>1. d \in 0 .. len - 1 /\ x + d < n /\ x + d \in 0 .. n - 1
    BY <1>1, <1>2, <1>4
  <2>2. data[x + d] = inf[d] /\ inf[d] = data[y + d]
    BY <1>2, <1>3, <1>4, <2>1
  <2>3. data[x + d] \in Nat /\ data[x + d] < data[y + d]
    BY <1>1, <1>4, <2>1
  <2> QED BY <2>2, <2>3
<1>6. \A e \in 0 .. len - 1 : data[y + e] = inf[e]
  BY <1>1, <1>3, <1>5
<1> QED BY <1>5, <1>6 DEF Hit, HasPrefix, y

\* What lies between two hits is accepted by equal.
LEMMA HitsAreAdjacent ==
  ASSUME InputOK, NEW p \in 0 .. n, NEW r \in 0 .. n, NEW q \in 0 .. n, p < r, r < q,
         Hit(sa[p]), Hit(sa[q])
  PROVE  Equal(sa[r])
<1> DEFINE x == sa[p]
           y == sa[r]
           z == sa[q]
<1>1. /\ x \in 0 .. n /\ y \in 0 .. n /\ z \in 0 .. n /\ n \in Nat /\ len \in Nat
      /\ SuffixLess(data, n, x, y) /\ SuffixLess(data, n, y, z)
      /\ data \in [0 .. n - 1 -> Nat]
  BY DEF InputOK, IsSuffixArray
<1>2. /\ x + len <= n /\ \A e \in 0 .. len - 1 : data[x + e] = inf[e]
      /\ z + len <= n /\ \A e \in 0 .. len - 1 : data[z + e] = inf[e]
  BY DEF Hit, HasPrefix
<1> HIDE DEF x, y, z
<1>3. PICK d \in 0 .. n - x :
        /\ y + d < n
        /\ \A e \in 0 .. d - 1 : data[x + e] = data[y + e]
        /\ x + d = n \/ data[x + d] < data[y + d]
  BY <1>1 DEF SuffixLess, LexLess
<1>4. PICK c \in 0 .. n - y :
        /\ z + c < n
        /\ \A e \in 0 .. c - 1 : data[y + e] = data[z + e]
        /\ y + c = n \/ data[y + c] < data[z + c]
  BY <1>1 DEF SuffixLess, LexLess
<1>5. ASSUME NEW e \in 0 .. len - 1, y + e < n PROVE inf[e] = data[y + e]
  <2>1. CASE e < d
    BY <1>2, <1>3, <2>1
  <2>2. CASE e < c
    BY <1>2, <1>4, <2>2
  <2>3. CASE d <= e /\ c <= e
    <3> d \in 0 .. len - 1 /\ c \in 0 .. len - 1 /\ x + d < n /\ y + c < n
      BY <1>1, <1>2, <1>3, <1>4, <1>5, <2>3
    <3>1. /\ data[x + d] = inf[d] /\ data[z + c] = inf[c]
          /\ data[x + d] < data[y + d] /\ data[y + c] < data[z + c]
      BY <1>1, <1>2, <1>3, <1>4
    <3>2. /\ d < c => data[y + d] = data[z + d] /\ data[z + d] = inf[d]
          /\ c < d => data[x + c] = data[y + c] /\ data[x + c] = inf[c]
      BY <1>2, <1>3, <1>4
    <3>3. data[x + d] \in Nat /\ data[y + d] \in Nat /\ data[y + c] \in Nat /\ data[z + c] \in Nat
      BY <1>1, <1>2, <1>3, <1>4, <1>5, <2>3
    <3> QED BY <3>1, <3>2, <3>3
  <2> QED BY <2>1, <2>2, <2>3
<1> QED BY <1>5 DEF Equal, y
-----------------------------------------------------------------------------
\* The empty search: everything is still to be searched.
LEMMA InitIInv == Init => IInv
<1> SUFFICES ASSUME Init PROVE IInv
  OBVIOUS
<1>1. InputOK
  BY IndexesAssumption, PatternsAssumption DEF Init, InputOK
<1> QED BY <1>1 DEF Init, IInv, InputOK, TypeOK, Partitioned, ScanInv, AnswerExact

\* A round of std::lower_bound compares one entry with the pattern and drops a half.
LEMMA LowerBoundIInv == IInv /\ LowerBound => IInv'
<1> SUFFICES ASSUME IInv, LowerBound PROVE IInv'
  OBVIOUS
<1> DEFINE half == count \div 2
           mid == first + half
<1>1. /\ pc = "search" /\ pc' = "search" /\ n \in Nat
      /\ first \in 0 .. n + 1 /\ count \in 1 .. n + 1 /\ first + count <= n + 1
      /\ UNCHANGED <<data, n, sa, inf, len>>
  BY DEF IInv, InputOK, TypeOK, LowerBound, input
<1>2. half \in 0 .. count - 1 /\ mid \in 0 .. n
  BY <1>1
<1>3. \/ Smaller(sa[mid]) /\ first' = mid + 1 /\ count' = count - half - 1
      \/ ~ Smaller(sa[mid]) /\ first' = first /\ count' = half
  BY DEF LowerBound, GoesRight, RightPart, LeftPart
<1> HIDE DEF mid, half
<1>4. TypeOK'
  BY <1>1, <1>2, <1>3 DEF TypeOK, mid
<1>5. Partitioned'
  <2>1. /\ \A p \in 0 .. first - 1 : Smaller(sa[p])
        /\ \A p \in first + count .. n : ~ Smaller(sa[p])
    BY DEF IInv, Partitioned
  <2>2. Smaller(sa[mid]) => \A p \in 0 .. mid : Smaller(sa[p])
    <3> SUFFICES ASSUME Smaller(sa[mid]), NEW p \in 0 .. mid, p # mid PROVE Smaller(sa[p])
      OBVIOUS
    <3>1. p \in 0 .. n /\ p < mid
      BY <1>1, <1>2
    <3> QED BY <1>2, <3>1, Monotone DEF IInv
  <2>3. ~ Smaller(sa[mid]) => \A p \in mid .. n : ~ Smaller(sa[p])
    <3> SUFFICES ASSUME NEW p \in mid .. n, p # mid, Smaller(sa[p]) PROVE Smaller(sa[mid])
      OBVIOUS
    <3>1. p \in 0 .. n /\ mid < p
      BY <1>1, <1>2
    <3> QED BY <1>2, <3>1, Monotone DEF IInv
  <2>4. /\ \A p \in 0 .. first' - 1 : Smaller(sa[p])
        /\ \A p \in first' + count' .. n : ~ Smaller(sa[p])
    <3>1. CASE Smaller(sa[mid]) /\ first' = mid + 1 /\ count' = count - half - 1
      <4>1. first' - 1 = mid /\ first' + count' = first + count
        BY <1>1, <1>2, <3>1 DEF mid
      <4> QED BY <2>1, <2>2, <3>1, <4>1
    <3>2. CASE ~ Smaller(sa[mid]) /\ first' = first /\ count' = half
      <4>1. first' + count' = mid
        BY <3>2 DEF mid
      <4> QED BY <2>1, <2>3, <3>2, <4>1
    <3> QED BY <1>3, <3>1, <3>2
  <2> QED BY <1>1, <2>4 DEF Partitioned, Smaller
<1>6. InputOK'
  BY <1>1 DEF IInv, InputOK
<1>7. ScanInv' /\ AnswerExact'
  BY <1>1 DEF ScanInv, AnswerExact
<1> QED BY <1>4, <1>5, <1>6, <1>7 DEF IInv

\* The actions that end a loop, the scan and the stuttering change no input.
LEMMA InputFrame ==
  ASSUME IInv, UNCHANGED <<input, first, count>>
  PROVE  InputOK' /\ Partitioned'
BY DEF IInv, InputOK, Partitioned, Smaller, input

\* The lower bound is a hit, or there is none.
LEMMA VerifyIInv == IInv /\ Verify => IInv'
<1> SUFFICES ASSUME IInv, Verify PROVE IInv'
  OBVIOUS
<1>1. /\ pc = "search" /\ count = 0 /\ n \in Nat /\ first \in 0 .. n + 1
      /\ UNCHANGED <<data, n, sa, inf, len>> /\ UNCHANGED <<input, first, count>>
      /\ sa \in [0 .. n -> 0 .. n]
  BY DEF IInv, InputOK, IsSuffixArray, TypeOK, Verify, input
<1>2. \A p \in 0 .. first - 1 : ~ Hit(sa[p])
  <2> TAKE p \in 0 .. first - 1
  <2>1. Smaller(sa[p]) /\ sa[p] \in 0 .. n
    BY <1>1 DEF IInv, Partitioned
  <2> QED BY <2>1, HitNotSmaller DEF IInv
<1>3. CASE first # n + 1 /\ Hit(sa[first])
  <2>1. /\ pc' = "scan" /\ idx' = first /\ sec' = first + 1 /\ first' = first /\ count' = count
        /\ first \in 0 .. n
    BY <1>1, <1>3 DEF Verify, IsHit, Hit
  <2>2. \A p \in first .. first + 1 - 1 : p = first
    BY <1>1
  <2>3. ScanInv'
    BY <1>1, <1>2, <1>3, <2>1, <2>2 DEF ScanInv, Hit
  <2>4. TypeOK' /\ AnswerExact'
    BY <1>1, <2>1 DEF IInv, TypeOK, AnswerExact
  <2> QED BY <1>1, <2>3, <2>4, InputFrame DEF IInv
<1>4. CASE ~ (first # n + 1 /\ Hit(sa[first]))
  <2>1. pc' = "done" /\ range' = <<n + 1, n + 1>> /\ first' = first /\ count' = count
    BY <1>4 DEF Verify, IsHit, Hit, NotFound
  <2>2. \A q \in 0 .. n : ~ Hit(sa[q])
    <3> SUFFICES ASSUME NEW q \in 0 .. n, Hit(sa[q]) PROVE FALSE
      OBVIOUS
    <3>1. first \in 0 .. q
      BY <1>1, <1>2
    <3>2. first # q
      BY <1>1, <1>4, <3>1
    <3>3. ~ Smaller(sa[first])
      BY <1>1, <3>1 DEF IInv, Partitioned
    <3> QED BY <1>1, <1>4, <3>1, <3>2, <3>3, FirstIsHit DEF IInv
  <2>3. AnswerExact'
    <3>1. {p \in 0 .. n : HasPrefix(data, n, sa[p], inf, len)} = {}
      BY <2>2 DEF Hit
    <3>2. IsAnswer(range', sa, data, n, inf, len)
      BY <2>1, <3>1 DEF IsAnswer
    <3> QED BY <1>1, <3>2 DEF AnswerExact
  <2>4. TypeOK' /\ ScanInv'
    BY <1>1, <2>1 DEF IInv, TypeOK, ScanInv
  <2> QED BY <1>1, <2>3, <2>4, InputFrame DEF IInv
<1> QED BY <1>3, <1>4

\* The scan goes on by one hit.
LEMMA ScanIInv == IInv /\ Scan => IInv'
<1> SUFFICES ASSUME IInv, Scan PROVE IInv'
  OBVIOUS
<1>1. /\ pc = "scan" /\ pc' = "scan" /\ n \in Nat /\ sec \in 0 .. n /\ sec' = sec + 1
      /\ idx \in 0 .. n /\ idx < sec /\ idx' = idx /\ first' = first /\ count' = count
      /\ UNCHANGED <<data, n, sa, inf, len>> /\ UNCHANGED <<input, first, count>>
      /\ Equal(sa[sec])
  BY DEF IInv, InputOK, ScanInv, Scan, input
<1>2. /\ \A p \in idx .. sec - 1 : Hit(sa[p])
      /\ \A p \in 0 .. idx - 1 : ~ Hit(sa[p])
  BY <1>1 DEF IInv, ScanInv
<1>3. Hit(sa[sec])
  <2>1. Hit(sa[idx])
    BY <1>1, <1>2
  <2> QED BY <1>1, <2>1, OnlyHits DEF IInv
<1>4. \A p \in idx .. sec' - 1 : p \in idx .. sec - 1 \/ p = sec
  BY <1>1
<1>5. ScanInv'
  BY <1>1, <1>2, <1>3, <1>4 DEF ScanInv, Hit
<1>6. TypeOK' /\ AnswerExact'
  BY <1>1 DEF IInv, TypeOK, AnswerExact
<1> QED BY <1>1, <1>5, <1>6, InputFrame DEF IInv

\* The scan leaves: at the end of SA, or at the first entry that is no hit.
LEMMA EndScanIInv == IInv /\ EndScan => IInv'
<1> SUFFICES ASSUME IInv, EndScan PROVE IInv'
  OBVIOUS
<1>1. /\ pc = "scan" /\ pc' = "done" /\ n \in Nat /\ sec \in 0 .. n + 1
      /\ idx \in 0 .. n /\ idx < sec /\ first' = first /\ count' = count
      /\ UNCHANGED <<data, n, sa, inf, len>> /\ UNCHANGED <<input, first, count>>
      /\ sec <= n => ~ Equal(sa[sec])
      /\ range' = <<idx, sec>>
  BY DEF IInv, InputOK, ScanInv, EndScan, input
<1>2. /\ \A p \in idx .. sec - 1 : Hit(sa[p])
      /\ \A p \in 0 .. idx - 1 : ~ Hit(sa[p])
  BY <1>1 DEF IInv, ScanInv
<1>3. \A q \in sec .. n : ~ Hit(sa[q])
  <2> SUFFICES ASSUME NEW q \in sec .. n, Hit(sa[q]) PROVE FALSE
    OBVIOUS
  <2>1. sec \in 0 .. n /\ q \in 0 .. n /\ ~ Equal(sa[sec]) /\ Hit(sa[idx])
    BY <1>1, <1>2
  <2>2. CASE q = sec
    BY <1>1, <2>1, <2>2 DEF Hit, HasPrefix, Equal
  <2>3. CASE sec < q
    BY <1>1, <2>1, <2>3, HitsAreAdjacent DEF IInv
  <2> QED BY <1>1, <2>2, <2>3
<1>4. {p \in 0 .. n : HasPrefix(data, n, sa[p], inf, len)} = idx .. sec - 1
  BY <1>1, <1>2, <1>3 DEF Hit
<1>5. IsAnswer(range', sa, data, n, inf, len)
  <2>1. idx \in idx .. sec - 1 /\ range'[1] = idx /\ range'[2] = sec
    BY <1>1
  <2> QED BY <1>1, <1>4, <2>1 DEF IsAnswer
<1>6. AnswerExact'
  BY <1>1, <1>5 DEF AnswerExact
<1>7. TypeOK' /\ ScanInv'
  BY <1>1 DEF IInv, TypeOK, ScanInv
<1> QED BY <1>1, <1>6, <1>7, InputFrame DEF IInv

\* A step that changes nothing.
LEMMA StutterIInv == IInv /\ UNCHANGED vars => IInv'
BY DEF IInv, InputOK, TypeOK, Partitioned, Smaller, ScanInv, Hit, AnswerExact, vars, input
-----------------------------------------------------------------------------
\* IInv holds in every state of find_all_infix, for every text, suffix array and pattern.
THEOREM Inductive == Spec => []IInv
<1>1. IInv /\ [Next]_vars => IInv'
  BY LowerBoundIInv, VerifyIInv, ScanIInv, EndScanIInv, StutterIInv DEF Next, Done
<1> QED BY <1>1, InitIInv, PTL DEF Spec

\* The binary search of find_all_infix never cuts off a hit (SuffixArray.hpp:198).
THEOREM SearchIsPartitioned == Spec => []Partitioned
<1>1. IInv => Partitioned
  BY DEF IInv
<1> QED BY <1>1, Inductive, PTL

\* find_all_infix answers with exactly the occurrences of the pattern
\* (SuffixArray.hpp:197-230), for every corpus and every pattern.
THEOREM FindIsExact == Spec => []AnswerExact
<1>1. IInv => AnswerExact
  BY DEF IInv
<1> QED BY <1>1, Inductive, PTL

\* No index find_all_infix uses leaves the suffix array.
THEOREM IndicesStayInside == Spec => []TypeOK
<1>1. IInv => TypeOK
  BY DEF IInv
<1> QED BY <1>1, Inductive, PTL

\* The range grows by occurrences only, although equal accepts shorter suffixes.
THEOREM ScanKeepsToHits == Spec => []ScanIsExact
<1>1. IInv => ScanIsExact
  BY DEF IInv, ScanInv, ScanIsExact, Hit
<1> QED BY <1>1, Inductive, PTL
=============================================================================
