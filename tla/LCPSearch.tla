-------------------------------- MODULE LCPSearch --------------------------------
(***************************************************************************)
(* lower_bound of inc/LCPArrayNaive.hpp:170-261, the search find_all_infix *)
(* takes with -lcp: a binary search that remembers how deep the pattern    *)
(* has matched and narrows its window to the suffixes that share that.     *)
(*                                                                         *)
(* std::equal is bounded by the data only: a suffix that begins with the   *)
(* pattern is compared with the memory behind it as well.                  *)
(***************************************************************************)
EXTENDS SuffixOrder, FiniteSetsExt

CONSTANTS
  Indexes,   \* corpora with their suffix arrays: records [data, size, sa]
  Patterns,  \* records [inf, len]
  Behinds    \* sets of symbols that may be read behind the pattern

VARIABLES
  data, n, sa,
  lcp_l, lcp_r,       \* how far the prefixes of a position reach, by their depths
  val, len, behind,   \* the pattern, and what may stand in the memory behind it
  pc, fir, count, depth_bef, smaller,
  range

input == <<data, n, sa, lcp_l, lcp_r, val, len, behind>>
vars  == <<input, pc, fir, count, depth_bef, smaller, range>>

NotFound == <<n + 1, n + 1>>
-----------------------------------------------------------------------------
\* A definition marked "Bug:" is a mistake that a run has to notice; nothing uses it.
\* Bug: the row is looked up as if only one symbol had matched.
LeftmostOfOne(i, d) == IF d - 1 \in DOMAIN lcp_l[i] THEN lcp_l[i][0] ELSE i

\* The ends of the positions that share a prefix of depth d with position i, which is
\* alone if its row is not that long.
Leftmost(i, d) == IF d - 1 \in DOMAIN lcp_l[i] THEN lcp_l[i][d - 1] ELSE i
Rightmost(i, d) == IF d - 1 \in DOMAIN lcp_r[i] THEN lcp_r[i][d - 1] ELSE i

\* The rows as they ought to be: the first and the last position whose suffix shares
\* more than d symbols with that of position p, for all d its neighbour shares.
ExactRows ==
  LET shared(p, q) == CommonPrefix(data, n, sa[p], sa[q])
      sharing(p, d) == {q \in 0 .. n : shared(p, q) > d}
      depths(p, q) == IF q > n THEN {} ELSE 0 .. shared(p, q) - 1
      Row0 == [d \in {0} |-> 0]
  IN  /\ lcp_l = [p \in 0 .. n |->
                    IF p = 0 THEN Row0 ELSE [d \in depths(p, p - 1) |-> Min(sharing(p, d))]]
      /\ lcp_r = [p \in 0 .. n |->
                    IF p = 0 THEN Row0 ELSE [d \in depths(p, p + 1) |-> Max(sharing(p, d))]]

Init ==
  /\ \E c \in Indexes : data = c.data /\ n = c.size /\ sa = c.sa
  /\ \E w \in Patterns : val = w.inf /\ len = w.len
  /\ behind \in Behinds
  /\ ExactRows
  /\ pc = "search" /\ fir = 0 /\ count = n + 1
  /\ depth_bef = 0 /\ smaller = FALSE /\ range = << >>

\* The symbols the pattern may show at depth d.
PatternAt(d) == IF d < len THEN {val[d]} ELSE behind

\* Find_if_unequal on suffix s from depth_bef on matches depth symbols, and its
\* flag after that. At the end of the data the flag stays.
Compares(s, depth, flag) ==
  /\ \A e \in depth_bef .. depth_bef + depth - 1 : data[s + e] \in PatternAt(e)
  /\ LET e == depth_bef + depth
     IN  IF s + e = n
           THEN flag = smaller
           ELSE \E c \in PatternAt(e) : data[s + e] # c /\ flag = (data[s + e] < c)

\* Bug: the last position is left out.
LastOf(i, d) == Rightmost(i, d)

\* The end of the positions that share a prefix of depth d with position i.
EndOf(i, d) == Rightmost(i, d) + 1

\* One round of the loop, with depth symbols matched and the whole pattern found.
Match(i, depth) ==
  /\ depth > 0 /\ depth_bef' = len
  /\ range' = <<Leftmost(i, len), EndOf(i, len)>>
  /\ pc' = "done"
  /\ UNCHANGED <<fir, count>>

\* ... with some symbols matched: the window of the suffixes that share them.
Narrow(i, depth) ==
  /\ depth > 0 /\ depth_bef' # len
  /\ fir' = Leftmost(i, depth_bef')
  /\ count' = EndOf(i, depth_bef') - fir'
  /\ UNCHANGED <<pc, range>>

\* Bug: the middle stays in the window.
Middle(i) == i

\* Where the right half begins.
RightHalf(i) == i + 1

\* Bug: the position before the middle is lost.
LeftHalfLess(i) == IF i = fir THEN 0 ELSE i - fir - 1

\* The size of the left half.
LeftHalf(i) == i - fir

\* ... with none: a step of the binary search.
Halve(i, depth) ==
  /\ depth = 0
  /\ IF smaller' THEN fir' = RightHalf(i) /\ count' = count - (fir' - fir)
                 ELSE fir' = fir /\ count' = LeftHalf(i)
  /\ UNCHANGED <<pc, range>>

Probe ==
  /\ pc = "search" /\ count > 0
  /\ LET i == fir + count \div 2
     IN  \E depth \in 0 .. n - (sa[i] + depth_bef), flag \in BOOLEAN :
           /\ Compares(sa[i], depth, flag)
           /\ smaller' = flag
           /\ depth_bef' = depth_bef + depth
           /\ Match(i, depth) \/ Narrow(i, depth) \/ Halve(i, depth)
  /\ UNCHANGED input

\* A suffix that ends before depth_bef: std::equal runs on from behind the end of the
\* data, and nothing is known of what it finds.
RunsAway ==
  /\ pc = "search" /\ count > 0 /\ sa[fir + count \div 2] + depth_bef > n
  /\ pc' = "undefined"
  /\ UNCHANGED <<input, fir, count, depth_bef, smaller, range>>

GiveUp ==
  /\ pc = "search" /\ count = 0
  /\ range' = NotFound /\ pc' = "done"
  /\ UNCHANGED <<input, fir, count, depth_bef, smaller>>

Done == pc \in {"done", "undefined"} /\ UNCHANGED vars

Next == Probe \/ RunsAway \/ GiveUp \/ Done

Spec == Init /\ [][Next]_vars
-----------------------------------------------------------------------------
Window == fir .. fir + count - 1

\* The properties of the window and of the range hold with rows of exact entries;
\* LCPFind states them. Every suffix of the window is at least depth_bef long.
StartsInData == pc = "search" => \A p \in Window : sa[p] + depth_bef <= n

\* The suffixes of the window share what has matched, and all occurrences are in it.
WindowKeepsHits ==
  pc = "search" /\ depth_bef <= len =>
    /\ \A p \in Window : HasPrefix(data, n, sa[p], val, depth_bef)
    /\ \A p \in 0 .. n : HasPrefix(data, n, sa[p], val, len) => p \in Window

\* A range that is returned is the range of all occurrences.
NoFalseHit ==
  pc = "done" /\ range # NotFound => IsAnswer(range, sa, data, n, val, len)

\* "pattern/infix to find in corpus" (SuffixArray.man:30): the answer is exact whatever
\* stands behind the pattern.
AnswerExact == pc = "done" => IsAnswer(range, sa, data, n, val, len)
=============================================================================
