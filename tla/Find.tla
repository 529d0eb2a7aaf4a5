---------------------------------- MODULE Find ----------------------------------
(***************************************************************************)
(* find_all_infix without LCP arrays (inc/SuffixArray.hpp:181-252): the    *)
(* range of the suffix array whose suffixes begin with a pattern.          *)
(* std::lower_bound is the binary search of the C++ library.               *)
(***************************************************************************)
EXTENDS SuffixOrder

CONSTANTS
  Indexes,   \* corpora with their suffix arrays: records [data, size, sa]
  Patterns   \* records [inf, len]

\* init and findInfixInF hand over the suffix array of the data, and main has no
\* search for an empty pattern.
ASSUME IndexesAssumption ==
  \A c \in Indexes :
    /\ c.size \in Nat \ {0}
    /\ c.data \in [0 .. c.size - 1 -> Nat]
    /\ IsSuffixArray(c.sa, c.data, c.size)
ASSUME PatternsAssumption ==
  \A w \in Patterns : w.len \in Nat \ {0} /\ w.inf \in [0 .. w.len - 1 -> Nat]

VARIABLES
  data, n,     \* the corpus and its size
  sa,          \* SA, of size n + 1
  inf, len,    \* infix
  pc,
  first, count,  \* the part of SA std::lower_bound still has to look at
  idx, sec,    \* the range found so far
  range        \* the pair returned

input == <<data, n, sa, inf, len>>
vars  == <<input, pc, first, count, idx, sec, range>>

NotFound == <<n + 1, n + 1>>
-----------------------------------------------------------------------------
Init ==
  /\ \E c \in Indexes, w \in Patterns :
       /\ data = c.data /\ n = c.size /\ sa = c.sa
       /\ inf = w.inf /\ len = w.len
  /\ pc = "search" /\ first = 0 /\ count = n + 1
  /\ idx = 0 /\ sec = 0 /\ range = << >>

\* CompSeq: suffix i is smaller than the pattern.
Smaller(i) == LexLess(data, i, n, inf, 0, len)

\* A definition marked "Bug:" is a mistake that a run has to notice; nothing uses it.
\* Bug: the order of the comparison is the other way round.
GoesLeft(mid) == ~ Smaller(sa[mid])

GoesRight(mid) == Smaller(sa[mid])

\* Bug: the middle is counted, although first has passed it.
RightPartAndMiddle(half) == count - half

RightPart(half) == count - half - 1

LeftPart(half) == half

\* std::lower_bound: one round of its loop.
LowerBound ==
  /\ pc = "search" /\ count > 0
  /\ LET half == count \div 2
         mid  == first + half
     IN  IF GoesRight(mid) THEN first' = mid + 1 /\ count' = RightPart(half)
                           ELSE first' = first /\ count' = LeftPart(half)
  /\ UNCHANGED <<input, pc, idx, sec, range>>

\* Bug: the suffix is not looked at.
AnySuffix == first # n + 1

\* The loop that counts the matching symbols d of the suffix at the lower bound: it
\* returns at a mismatch, and also if the suffix ends before the pattern does.
IsHit == first # n + 1 /\ HasPrefix(data, n, sa[first], inf, len)

Verify ==
  /\ pc = "search" /\ count = 0
  /\ IF IsHit THEN pc' = "scan" /\ idx' = first /\ sec' = first + 1 /\ UNCHANGED range
              ELSE pc' = "done" /\ range' = NotFound /\ UNCHANGED <<idx, sec>>
  /\ UNCHANGED <<input, first, count>>

\* Bug: only the first symbol is compared.
EqualAtFirst(i) == i < n => inf[0] = data[i]

\* equal(d, ...), with d = len: true unless a symbol differs, so also for a suffix
\* that ends inside the pattern.
Equal(i) == \A e \in 0 .. len - 1 : i + e < n => inf[e] = data[i + e]

\* One round of the loop that extends the range to the right.
Scan ==
  /\ pc = "scan" /\ sec <= n /\ Equal(sa[sec])
  /\ sec' = sec + 1
  /\ UNCHANGED <<input, pc, first, count, idx, range>>

EndScan ==
  /\ pc = "scan" /\ (sec <= n => ~ Equal(sa[sec]))
  /\ pc' = "done" /\ range' = <<idx, sec>>
  /\ UNCHANGED <<input, first, count, idx, sec>>

Done == pc = "done" /\ UNCHANGED vars

Next == LowerBound \/ Verify \/ Scan \/ EndScan \/ Done

Spec == Init /\ [][Next]_vars
-----------------------------------------------------------------------------
\* Indices stay inside of SA, whose size is n + 1.
TypeOK ==
  /\ pc \in {"search", "scan", "done"}
  /\ first \in 0 .. n + 1 /\ count \in 0 .. n + 1 /\ first + count <= n + 1
  /\ pc = "scan" => idx \in 0 .. n /\ sec \in idx + 1 .. n + 1

\* The binary search may only cut off what cannot hold the first hit: all suffixes
\* left of the part are smaller than the pattern, none to the right of it is.
Partitioned ==
  /\ \A p \in 0 .. first - 1 : Smaller(sa[p])
  /\ \A p \in first + count .. n : ~ Smaller(sa[p])

\* equal accepts a suffix that ends inside the pattern, and nothing but the order
\* of SA keeps such a suffix out of the range: every suffix in it has the prefix,
\* and nothing to its left has.
ScanIsExact ==
  pc = "scan" =>
    /\ \A p \in idx .. sec - 1 : HasPrefix(data, n, sa[p], inf, len)
    /\ \A p \in 0 .. idx - 1 : ~ HasPrefix(data, n, sa[p], inf, len)

\* The answer find_all_infix gives is the occurrences of the pattern, all of them
\* and no others, and "Not Found" only if there is none.
AnswerExact == pc = "done" => IsAnswer(range, sa, data, n, inf, len)
=============================================================================
