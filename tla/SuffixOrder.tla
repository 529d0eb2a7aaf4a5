------------------------------ MODULE SuffixOrder ------------------------------
(***************************************************************************)
(* The order of suffixes every part of the program agrees on: a vector of  *)
(* size n is a function on 0..n-1 (the code's vectors are 0-indexed) and   *)
(* the suffix that starts at i is the range [i, n). Suffix n is empty.     *)
(***************************************************************************)
EXTENDS Integers, FiniteSets

\* Comp and CompSeq: std::lexicographical_compare on [i, m) of u and [j, n) of v.
LexLess(u, i, m, v, j, n) ==
  \E d \in 0 .. m - i :
    /\ j + d < n
    /\ \A e \in 0 .. d - 1 : u[i + e] = v[j + e]
    /\ i + d = m \/ u[i + d] < v[j + d]

\* Comp::operator() of SuffixArrayNaive: suffix i of t is smaller than suffix j.
SuffixLess(t, n, i, j) == LexLess(t, i, n, t, j, n)

\* What the construction algorithms return: the n + 1 suffixes, the empty one
\* first, in increasing order.
IsSuffixArray(sa, t, n) ==
  /\ sa \in [0 .. n -> 0 .. n]
  /\ sa[0] = n
  /\ \A p, q \in 0 .. n : p < q => SuffixLess(t, n, sa[p], sa[q])

\* The one there is: a suffix stands behind the suffixes smaller than it.
SuffixArrayOf(t, n) ==
  [p \in 0 .. n |->
     CHOOSE i \in 0 .. n : Cardinality({j \in 0 .. n : SuffixLess(t, n, j, i)}) = p]

\* The pattern inf, of size len, is a prefix of the suffix i of t.
HasPrefix(t, n, i, inf, len) ==
  i + len <= n /\ \A e \in 0 .. len - 1 : t[i + e] = inf[e]

\* The answer to a search: the range [first, second) of the suffix array whose
\* suffixes begin with the pattern, or the end twice if there is none.
IsAnswer(range, sa, t, n, inf, len) ==
  LET hits == {p \in 0 .. n : HasPrefix(t, n, sa[p], inf, len)}
  IN  IF hits = {} THEN range = <<n + 1, n + 1>>
      ELSE range[1] < range[2] /\ hits = range[1] .. range[2] - 1

\* The length of the longest common prefix of suffixes i and j of t.
CommonPrefix(t, n, i, j) ==
  CHOOSE x \in 0 .. n :
    /\ i + x <= n /\ j + x <= n
    /\ \A e \in 0 .. x - 1 : t[i + e] = t[j + e]
    /\ i + x = n \/ j + x = n \/ t[i + x] # t[j + x]
=============================================================================
