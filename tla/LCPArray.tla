-------------------------------- MODULE LCPArray --------------------------------
(***************************************************************************)
(* class LCP (inc/LCPArrayNaive.hpp:9-66): the common prefixes of          *)
(* neighbours in the suffix array, computed in the order of the text so    *)
(* that the length h found for suffix i, less one, is where the comparison *)
(* for suffix i + 1 starts.                                                *)
(*                                                                         *)
(* The greatest suffix has no right neighbour: SA[invSA[i]+1] is then read *)
(* behind the end of SA, and whatever stands there is compared with. So is *)
(* whatever stands behind the end of the data, if a comparison gets there. *)
(***************************************************************************)
EXTENDS SuffixOrder

CONSTANTS Indexes   \* corpora with their suffix arrays: records [data, size, sa]

\* init hands over the suffix array of the data.
ASSUME IndexesAssumption ==
  \A c \in Indexes :
    /\ c.size \in Nat \ {0}
    /\ c.data \in [0 .. c.size - 1 -> Nat]
    /\ IsSuffixArray(c.sa, c.data, c.size)

VARIABLES
  data, n, sa,  \* the corpus, its size and its suffix array
  invSA,
  i, h,         \* the loop variables
  lcp,
  pc

vars == <<data, n, sa, invSA, i, h, lcp, pc>>
-----------------------------------------------------------------------------
\* make_inverse: cell n, of the empty suffix, is never set.
MakeInverse(array, m) ==
  [s \in 0 .. m |-> IF s = m THEN m ELSE CHOOSE p \in 1 .. m : array[p] = s]

\* A definition marked "Bug:" is a mistake that a run has to notice; nothing uses it.
\* Bug: the left neighbour.
LeftNeighbour(s) == sa[invSA[s] - 1]

\* The suffix that suffix s is compared with: n for the unknown index behind SA,
\* from which no symbol is known.
Neighbour(s) == IF invSA[s] < n THEN sa[invSA[s] + 1] ELSE n

\* Bug: Compare counts in a copy of h.
NoExtension(s, from) == {from}

\* std::equal with Compare, from depth h on: the values h may have after it. Up to
\* the end of suffix s the symbols decide; against a symbol behind the data either
\* outcome is possible.
Extensions(s, from) ==
  LET t == Neighbour(s)
      known(x) == t + x < n
  IN  {x \in from .. n - s :
         /\ \A e \in from .. x - 1 : known(e) => data[s + e] = data[t + e]
         /\ s + x < n /\ known(x) => data[s + x] # data[t + x]}

Init ==
  /\ \E c \in Indexes : data = c.data /\ n = c.size /\ sa = c.sa
  /\ invSA = MakeInverse(sa, n)
  /\ i = 0 /\ h = 0 /\ lcp = [p \in 0 .. n |-> 0] /\ pc = "make_lcp"

\* One round of the loop of make_lcp.
Extend ==
  /\ pc = "make_lcp" /\ i < n
  /\ \E x \in Extensions(i, h) :
       /\ lcp' = [lcp EXCEPT ![invSA[i]] = x]
       /\ h' = IF x = 0 THEN 0 ELSE x - 1
  /\ i' = i + 1
  /\ UNCHANGED <<data, n, sa, invSA, pc>>

\* lcp.pop_back(): the cell of the greatest suffix goes.
PopBack ==
  /\ pc = "make_lcp" /\ i = n
  /\ lcp' = [p \in 0 .. n - 1 |-> lcp[p]]
  /\ pc' = "done"
  /\ UNCHANGED <<data, n, sa, invSA, i, h>>

Done == pc = "done" /\ UNCHANGED vars

Next == Extend \/ PopBack \/ Done

Spec == Init /\ [][Next]_vars /\ WF_vars(Next)
-----------------------------------------------------------------------------
\* The greatest suffix is the last one of SA.
Greatest == sa[n]

\* The entry the suffix s ought to get.
RightEntry(s) ==
  LET p == CHOOSE q \in 0 .. n : sa[q] = s
  IN  CommonPrefix(data, n, s, sa[p + 1])

\* h starts the next comparison at the right depth as long as the greatest suffix
\* has not been met: every entry up to there is exact.
ExactBeforeGreatest ==
  pc = "make_lcp" =>
    \A s \in 0 .. i - 1 : s < Greatest => lcp[invSA[s]] = RightEntry(s)

\* What is read behind SA or the data is only ever taken for more of a prefix: no
\* entry is too small, so make_lcp_lr never cuts a range short.
NeverTooSmall ==
  pc = "make_lcp" =>
    \A s \in 0 .. i - 1 : s # Greatest => lcp[invSA[s]] >= RightEntry(s)

\* What went wrong at the greatest suffix wears off: after the first exact entry
\* all entries are exact.
Recovers ==
  pc = "make_lcp" =>
    \A s \in Greatest + 1 .. i - 1 :
      lcp[invSA[s]] = RightEntry(s) =>
        \A r \in s + 1 .. i - 1 : lcp[invSA[r]] = RightEntry(r)

\* "It computes the longest-common-prefix for neighbouring sorted substrings"
\* (LCPArrayNaive.hpp:20).
LcpOfNeighbours ==
  pc = "done" =>
    \A p \in 0 .. n - 1 : lcp[p] = CommonPrefix(data, n, sa[p], sa[p + 1])
=============================================================================
